--------------------------- MODULE ServicesProofs --------------------------
(***************************************************************************)
(* The four services that stand beside a model call, each a specification  *)
(* of its own, for every value of its constants.                           *)
(*                                                                         *)
(* Discovery: a probe keeps no more of a reply than the ceiling and leaves *)
(* no body open.  ModelProfiles: what a profile declares of its models is  *)
(* what they offer, and a prepared call is sent as it was prepared.        *)
(* PromptAssembly: the protocol's section follows the route and memory     *)
(* stays out of routes that are not official, in whatever order the        *)
(* listeners return.  Credentials: a sign-in that reports success was      *)
(* stored, and a refreshed grant takes the place of the one it was made    *)
(* from.                                                                   *)
(***************************************************************************)
EXTENDS Discovery, ModelProfiles, PromptAssembly, Credentials, FiniteSetTheorems, TLAPS

-----------------------------------------------------------------------------
(* Discovery. *)

DiscoveryAssumptions ==
    /\ Ceiling \in Nat /\ MaxSent \in Nat
    /\ ChunkSizes \subseteq Nat \ {0}
    /\ Omitted \notin Nat

\* What is kept was counted first.
KeptIsCounted == retained <= received

\* Before the endpoint replies there is no body.
NoBodyYet == at \in {"idle", "key", "fetching"} => body = "none"

DiscoveryInv == DiscoveryTypeOK /\ KeptIsCounted /\ NoBodyYet /\ BodyWithinCeiling

LEMMA DiscoveryAssumed == DiscoveryAssumptions
  BY CeilingAssumption, ChunkAssumption, MaxSentAssumption, OmittedAssumption
     DEF DiscoveryAssumptions

\* The initial state satisfies the invariant.
LEMMA DiscoveryStart == DiscoveryInit => DiscoveryInv
  <1> SUFFICES ASSUME DiscoveryInit PROVE DiscoveryInv
    OBVIOUS
  <1> USE DEF DiscoveryInit
  <1>1. signalled \in BOOLEAN /\ aborted \in BOOLEAN
    OBVIOUS
  <1>2. at \in Steps /\ declared \in Nat \cup {Omitted} /\ received \in Nat /\ retained \in Nat
    BY DEF Steps
  <1>3. DiscoveryTypeOK
    BY <1>1, <1>2 DEF DiscoveryTypeOK
  <1>4. KeptIsCounted /\ NoBodyYet /\ BodyWithinCeiling
    BY DiscoveryAssumed DEF KeptIsCounted, NoBodyYet, BodyWithinCeiling, DiscoveryAssumptions
  <1> QED BY <1>3, <1>4 DEF DiscoveryInv

\* Every step preserves it: one read is the only step that keeps anything, and it
\* compares with the ceiling what it has already counted.
LEMMA DiscoveryStep == DiscoveryInv /\ [DiscoveryNext]_discoveryVars => DiscoveryInv'
  <1> SUFFICES ASSUME DiscoveryInv, [DiscoveryNext]_discoveryVars
               PROVE  DiscoveryInv'
    OBVIOUS
  <1> USE DiscoveryAssumed DEF DiscoveryInv, DiscoveryAssumptions, replyVars, Answers, KeptIsCounted,
                      NoBodyYet, BodyWithinCeiling
  <1>1. CASE Discover
    <2>1. Preflight(probe') \in {"models", "goes on"} \cup Failures
      BY DEF Preflight, Failures
    <2> QED BY <1>1, <2>1 DEF Discover, DiscoveryTypeOK, Steps
  <1>2. ASSUME NEW k, KeyComes(k)
        PROVE  DiscoveryInv'
    BY <1>2 DEF KeyComes, DiscoveryTypeOK, Steps
  <1>3. ASSUME NEW ok \in BOOLEAN, NEW length \in {Omitted} \cup 0..MaxSent, Replies(ok, length)
        PROVE  DiscoveryInv'
    <2>1. length \in Nat \cup {Omitted} /\ UNCHANGED <<probe, signalled, aborted, received, retained, thrown>>
      BY <1>3 DEF Replies
    <2>2. \/ /\ at' = "ended" /\ body' = "unread" /\ answer' = "DISCOVERY_FAILED"
          \/ /\ at' \in {"refusing", "reading"} /\ body' = "open" /\ answer' = answer
      BY <1>3 DEF Replies
    <2> QED BY <1>3, <2>1, <2>2 DEF Replies, DiscoveryTypeOK, Steps, Failures
  <1>4. ASSUME NEW n \in ChunkSizes, Chunk(n)
        PROVE  DiscoveryInv'
    <2>1. n \in Nat /\ received + n \in Nat /\ retained + n \in Nat
      BY DEF DiscoveryTypeOK
    <2>2. CASE received + n > Ceiling
      <3>1. /\ retained' = retained /\ received' = received + n
            /\ at' = "closing" /\ thrown' = "DISCOVERY_FAILED"
            /\ UNCHANGED <<probe, signalled, aborted, declared, body, answer>>
        BY <1>4, <2>2 DEF Chunk, Outgrown
      <3>2. KeptIsCounted'
        BY <2>1, <3>1 DEF DiscoveryTypeOK
      <3> QED BY <2>1, <3>1, <3>2 DEF DiscoveryTypeOK, Steps, Failures
    <2>3. CASE ~(received + n > Ceiling)
      <3>1. retained' = retained + n /\ retained + n <= received + n /\ received + n <= Ceiling
        BY <1>4, <2>1, <2>3 DEF Chunk, Outgrown, DiscoveryTypeOK
      <3> QED BY <1>4, <2>1, <2>3, <3>1 DEF Chunk, Outgrown, DiscoveryTypeOK
    <2> QED BY <2>2, <2>3
  <1>5. CASE FetchFails
    BY <1>5 DEF FetchFails, DiscoveryTypeOK, Steps, Failures
  <1>6. CASE Refuses
    BY <1>6 DEF Refuses, DiscoveryTypeOK, Steps, Failures
  <1>7. CASE BodyEnds
    BY <1>7 DEF BodyEnds, DiscoveryTypeOK, Steps
  <1>8. CASE ReadFails
    BY <1>8 DEF ReadFails, DiscoveryTypeOK, Steps, Failures
  <1>9. CASE Closing
    BY <1>9 DEF Closing, Closes, DiscoveryTypeOK, Steps, Failures
  <1>10. CASE GivesUp
    BY <1>10 DEF GivesUp, DiscoveryTypeOK
  <1>11. CASE AsksAgain
    <2> USE <1>11 DEF AsksAgain
    <2>1. probe' \in Drafts /\ signalled' \in BOOLEAN /\ aborted' \in BOOLEAN
      BY DEF DiscoveryTypeOK
    <2>2. /\ at' = "idle" /\ declared' = Omitted /\ received' = 0 /\ retained' = 0
          /\ body' = "none" /\ thrown' = Omitted /\ answer' = Omitted
      OBVIOUS
    <2>3. DiscoveryTypeOK'
      BY <2>1, <2>2 DEF DiscoveryTypeOK, Steps
    <2> QED BY <2>2, <2>3
  <1>12. CASE UNCHANGED discoveryVars
    BY <1>12 DEF discoveryVars, DiscoveryTypeOK, Steps
  <1> QED
    BY <1>1, <1>2, <1>3, <1>4, <1>5, <1>6, <1>7, <1>8, <1>9, <1>10, <1>11, <1>12
       DEF DiscoveryNext

LEMMA DiscoveryInvariant == DiscoverySpec => []DiscoveryInv
  BY DiscoveryStart, DiscoveryStep, PTL DEF DiscoverySpec

\* Every variable of a probe keeps its type.
THEOREM DiscoveryTypeCorrect == DiscoverySpec => []DiscoveryTypeOK
  <1>1. DiscoveryInv => DiscoveryTypeOK
    BY DEF DiscoveryInv
  <1> QED BY <1>1, DiscoveryInvariant, PTL

\* readBounded keeps at most the ceiling of a reply, whatever length was declared and
\* however it is cut up, and the body it opened is closed when the probe ends.
THEOREM RepliesAreBounded == DiscoverySpec => []BodyWithinCeiling
  <1>1. DiscoveryInv => BodyWithinCeiling
    BY DEF DiscoveryInv
  <1> QED BY <1>1, DiscoveryInvariant, PTL

-----------------------------------------------------------------------------
(* ModelProfiles. *)

\* A call that is under way was prepared against an accepted profile that has its model,
\* and the harness was told what that profile says of it.
PreparedIsHeld ==
    phase # "idle" =>
        /\ held \in Accepted
        /\ model \in DOMAIN Entries(held)
        /\ info = ModelInfo(held, model)

\* What is refused or sent was asked of the snapshot the call was prepared with.
AnswerIsHeld ==
    /\ phase \in {"refused", "sent"} => asked.cap \in {"asked", info.cap}
    /\ phase = "refused" => asked.effort = Unset
    /\ phase = "sent" =>
        /\ payload.api = Api(held, model)
        /\ payload.level = ReasoningOption(Or(asked.effort, held.reasoning))
        /\ payload.cap = WireCap(held, model, asked.cap)

ProfilesInv ==
    /\ source \in Accepted
    /\ phase \in {"idle", "prepared", "sent", "refused"}
    /\ PreparedIsHeld /\ AnswerIsHeld

\* resolveModelReasoning: a declared set of levels is what pi-ai supports, none pinned
\* and none defaulted.
LEMMA DeclaredLevels ==
    ASSUME NEW f \in Accepted, NEW id \in DOMAIN Entries(f), Entries(f)[id].efforts # Unset
    PROVE  SelectableEfforts(f, id) = DOMAIN Entries(f)[id].efforts
  <1> DEFINE e == Entries(f)[id].efforts
             r == Reasoning(f, id)
  <1>1. Declared(e)
    <2>1. f \in Profiles
      BY DEF Accepted
    <2>2. Declared(Plain.efforts)
      BY DEF Declared, Plain
    <2> QED BY <2>1, <2>2, ProfilesAssumption DEF Entries
  <1>2. EffortsOk(e)
    BY DEF Accepted, Serviceable
  <1>3. e # Unset
    OBVIOUS
  <1>4. /\ r.reasons <=> DOMAIN e # {}
        /\ DOMAIN e # {} => r.levels = LevelMap(e)
    BY <1>3 DEF Reasoning
  <1> HIDE DEF e
  <1>5. CASE DOMAIN e = {}
    <2>1. ~r.reasons
      BY <1>4, <1>5
    <2> QED BY <1>5, <2>1 DEF SelectableEfforts, e
  <1>6. CASE DOMAIN e # {}
    <2>1. r.reasons /\ r.levels = LevelMap(e)
      BY <1>4, <1>6
    <2>2. SelectableEfforts(f, id) = SupportedLevels(r)
      BY <2>1 DEF SelectableEfforts
    <2>3. SupportedLevels(r) =
            {l \in Levels : IF l \in DOMAIN LevelMap(e) THEN LevelMap(e)[l] # "null"
                            ELSE l \in BaseLevels}
      BY <2>1 DEF SupportedLevels
    <2>4. /\ DOMAIN LevelMap(e) = {k \in Levels : k \notin DOMAIN e \/ e[k] # "silent"}
          /\ \A l \in DOMAIN LevelMap(e) : LevelMap(e)[l] = IF l \in DOMAIN e THEN e[l] ELSE "null"
      BY DEF LevelMap
    <2>5. /\ DOMAIN e \subseteq Levels /\ \A l \in DOMAIN e : e[l] # "null"
          /\ \A l \in DOMAIN e : e[l] = "silent" => l = "off"
      BY <1>1, <1>2, <1>3, <1>6 DEF Declared, EffortsOk
    <2>6. "off" \in BaseLevels
      BY DEF BaseLevels, Levels
    <2>7. \A l \in Levels :
            (IF l \in DOMAIN LevelMap(e) THEN LevelMap(e)[l] # "null" ELSE l \in BaseLevels)
            <=> l \in DOMAIN e
      BY <2>4, <2>5, <2>6
    <2> QED BY <2>2, <2>3, <2>5, <2>7 DEF e
  <1> QED BY <1>5, <1>6

\* buildProvider: the protocol of a resolved model is one the provider speaks.
LEMMA ApiIsSpoken ==
    ASSUME NEW f \in Accepted, NEW id \in DOMAIN Entries(f)
    PROVE  Api(f, id) \in Speaks(f)
  <1>1. Api(f, id) # Unset
    BY DEF Accepted, Serviceable
  <1>2. CASE f.api # Unset
    BY <1>2 DEF Api, Or, Speaks
  <1>3. CASE f.api = Unset
    <2>1. Api(f, id) = Or(Installed(f.provider, id).api, SharedCatalogApi(f.provider))
      BY <1>3 DEF Api, Or
    <2>2. CASE Installed(f.provider, id).api # Unset
      <3>1. id \in DOMAIN CatalogModels(f.provider)
        BY <2>2, NoModelAssumption DEF Installed
      <3>2. Installed(f.provider, id).api \in CatalogApis(f.provider)
        BY <3>1 DEF Installed, CatalogApis
      <3> QED BY <1>3, <2>1, <2>2, <3>2 DEF Or, Speaks
    <2>3. CASE Installed(f.provider, id).api = Unset
      <3>1. Api(f, id) = SharedCatalogApi(f.provider)
        BY <2>1, <2>3 DEF Or
      <3>2. Cardinality(CatalogApis(f.provider)) = 1
        BY <1>1, <3>1 DEF SharedCatalogApi
      <3>3. CatalogApis(f.provider) # {}
        BY <3>2, FS_EmptySet
      <3>4. SharedCatalogApi(f.provider) \in CatalogApis(f.provider)
        BY <3>2, <3>3 DEF SharedCatalogApi
      <3> QED BY <1>3, <3>1, <3>4 DEF Speaks
    <2> QED BY <2>2, <2>3
  <1> QED BY <1>2, <1>3

\* The layers of switches: an entry's own, then the route's where the protocol takes it,
\* then the catalog's.
LEMMA SwitchLayers ==
    ASSUME NEW f, NEW id
    PROVE  LET own == Entries(f)[id].compat
               offered == Offers[Api(f, id)]
               compat == Compat(f, id)
           IN  /\ \A s \in DOMAIN own : s \in DOMAIN compat /\ compat[s] = own[s]
               /\ \A s \in (DOMAIN f.compat \cap offered) \ DOMAIN own :
                    s \in DOMAIN compat /\ compat[s] = f.compat[s]
               /\ DOMAIN compat \subseteq DOMAIN own \cup (DOMAIN f.compat \cap offered)
                                          \cup DOMAIN Installed(f.provider, id).compat
  <1> DEFINE own == Entries(f)[id].compat
             taken == Taken(Api(f, id), f.compat)
             base == Installed(f.provider, id).compat
             switches == Over(own, taken)
  <1>1. /\ DOMAIN taken = DOMAIN f.compat \cap Offers[Api(f, id)]
        /\ \A s \in DOMAIN taken : taken[s] = f.compat[s]
    BY DEF Taken
  <1> HIDE DEF own, taken, base
  <1>2. /\ DOMAIN switches = DOMAIN own \cup DOMAIN taken
        /\ \A s \in DOMAIN own : switches[s] = own[s]
        /\ \A s \in DOMAIN taken \ DOMAIN own : switches[s] = taken[s]
    BY DEF Over
  <1>3. /\ DOMAIN Over(switches, base) = DOMAIN switches \cup DOMAIN base
        /\ \A s \in DOMAIN switches : Over(switches, base)[s] = switches[s]
    BY DEF Over
  <1>4. Compat(f, id) = Over(switches, base) \/ Compat(f, id) = switches
    BY DEF Compat, Configured, own, taken, base
  <1> HIDE DEF switches
  <1> QED BY <1>1, <1>2, <1>3, <1>4 DEF own, base

\* The initial states satisfy the invariant.
LEMMA ProfilesStart == ProfilesInit => ProfilesInv
  BY DEF ProfilesInit, ProfilesInv, PreparedIsHeld, AnswerIsHeld

\* What a call under way is sent or refused as.
LEMMA StreamAnswers ==
    ASSUME ProfilesInv,
           NEW effort \in info.efforts \cup {Unset}, NEW cap \in {Unset, "asked"},
           Stream(effort, cap)
    PROVE  ProfilesInv'
  <1>1. /\ phase = "prepared" /\ UNCHANGED <<source, held, model, info>>
        /\ asked' = [effort |-> effort, cap |-> Or(cap, info.cap)]
        /\ Sends(held, effort, asked'.cap)
    BY DEF Stream
  <1>2. asked'.effort = effort /\ asked'.cap \in {"asked", info.cap}
    BY <1>1 DEF Or
  <1>3. /\ held \in Accepted /\ model \in DOMAIN Entries(held)
        /\ info = ModelInfo(held, model)
    BY <1>1 DEF ProfilesInv, PreparedIsHeld
  <1>4. effort # Unset => effort \in SupportedLevels(Reasoning(held, model))
    BY <1>3 DEF ModelInfo, SelectableEfforts
  <1> DEFINE level == Or(effort, held.reasoning)
  <1>5. CASE ~Known(held) \/ ~Takes(held, level)
    <2>1. phase' = "refused"
      BY <1>1, <1>5 DEF Sends
    <2>2. effort = Unset
      BY <1>3, <1>4, <1>5 DEF Known, Takes, Or
    <2>3. PreparedIsHeld' /\ AnswerIsHeld'
      BY <1>1, <1>2, <1>3, <2>1, <2>2 DEF PreparedIsHeld, AnswerIsHeld, ModelInfo,
         SelectableEfforts, DescribableLevel, ConfiguredCap
    <2> QED BY <1>1, <2>1, <2>3 DEF ProfilesInv
  <1>6. CASE Known(held) /\ Takes(held, level)
    <2>1. /\ phase' = "sent"
          /\ payload' = [api |-> Api(held, model), level |-> ReasoningOption(level),
                         cap |-> WireCap(held, model, asked'.cap),
                         compat |-> Compat(held, model)]
      BY <1>1, <1>6 DEF Sends
    <2>2. /\ payload'.api = Api(held, model)
          /\ payload'.level = ReasoningOption(Or(asked'.effort, held.reasoning))
          /\ payload'.cap = WireCap(held, model, asked'.cap)
      BY <1>2, <2>1
    <2>3. PreparedIsHeld' /\ AnswerIsHeld'
      BY <1>1, <1>2, <1>3, <2>1, <2>2 DEF PreparedIsHeld, AnswerIsHeld
    <2> QED BY <1>1, <2>1, <2>3 DEF ProfilesInv
  <1> QED BY <1>5, <1>6

\* Every step preserves the invariant: a rewritten profile is not the held one.
LEMMA ProfilesStep == ProfilesInv /\ [ProfilesNext]_profileVars => ProfilesInv'
  <1> SUFFICES ASSUME ProfilesInv, [ProfilesNext]_profileVars
               PROVE  ProfilesInv'
    OBVIOUS
  <1>1. ASSUME NEW f \in Accepted, Write(f)
        PROVE  ProfilesInv'
    BY <1>1 DEF Write, ProfilesInv, PreparedIsHeld, AnswerIsHeld
  <1>2. ASSUME NEW id \in DOMAIN Entries(source), PrepareCall(id)
        PROVE  ProfilesInv'
    BY <1>2 DEF PrepareCall, ProfilesInv, PreparedIsHeld, AnswerIsHeld
  <1>3. ASSUME NEW effort \in info.efforts \cup {Unset}, NEW cap \in {Unset, "asked"},
               Stream(effort, cap)
        PROVE  ProfilesInv'
    BY <1>3, StreamAnswers
  <1>4. CASE UNCHANGED profileVars
    BY <1>4 DEF profileVars, ProfilesInv, PreparedIsHeld, AnswerIsHeld
  <1> QED BY <1>1, <1>2, <1>3, <1>4 DEF ProfilesNext, CallStep

LEMMA ProfilesInvariant == ProfilesSpec => []ProfilesInv
  BY ProfilesStart, ProfilesStep, PTL DEF ProfilesSpec

\* resolveModelReasoning with pi-ai's own defaults: a model offers exactly the levels the
\* profile declares for it.
THEOREM LevelsAreOffered == ProfilesSpec => []DeclaredLevelsAreOffered
  <1>1. ProfilesInv => DeclaredLevelsAreOffered
    <2> SUFFICES ASSUME ProfilesInv, phase # "idle", Entries(held)[model].efforts # Unset
                 PROVE  info.efforts = DOMAIN Entries(held)[model].efforts
      BY DEF DeclaredLevelsAreOffered
    <2>1. /\ held \in Accepted /\ model \in DOMAIN Entries(held)
          /\ info.efforts = SelectableEfforts(held, model)
      BY DEF ProfilesInv, PreparedIsHeld, ModelInfo
    <2> QED BY <2>1, DeclaredLevels
  <1> QED BY <1>1, ProfilesInvariant, PTL

\* resolveModelCompat and its assertions: no switch of an accepted profile is lost, and
\* none reaches a protocol that does not take it.
THEOREM SwitchesHold == ProfilesSpec => []SwitchesTakeEffect
  <1>1. ProfilesInv => SwitchesTakeEffect
    <2> SUFFICES ASSUME ProfilesInv PROVE SwitchesTakeEffect
      OBVIOUS
    <2>1. SwitchesOk(source)
      BY DEF ProfilesInv, Accepted, Serviceable
    <2>2. ASSUME NEW id \in DOMAIN Entries(source)
          PROVE  LET own == Entries(source)[id].compat
                     offered == Offers[Api(source, id)]
                     compat == Compat(source, id)
                 IN  /\ \A s \in DOMAIN own : compat[s] = own[s]
                     /\ \A s \in (DOMAIN source.compat \cap offered) \ DOMAIN own :
                         compat[s] = source.compat[s]
                     /\ DOMAIN compat \subseteq
                            offered \cup DOMAIN Installed(source.provider, id).compat
      <3>1. \A s \in DOMAIN Entries(source)[id].compat : s \in Offers[Api(source, id)]
        BY <2>1 DEF SwitchesOk
      <3> QED BY <3>1, SwitchLayers
    <2>3. ASSUME NEW s \in DOMAIN source.compat
          PROVE  \E id \in DOMAIN Entries(source) : s \in DOMAIN Compat(source, id)
      <3>1. PICK id \in DOMAIN Entries(source) : s \in Offers[Api(source, id)]
        BY <2>1 DEF SwitchesOk
      <3>2. s \in DOMAIN Compat(source, id)
        BY <3>1, SwitchLayers
      <3> QED BY <3>2
    <2> QED BY <2>2, <2>3 DEF SwitchesTakeEffect
  <1> QED BY <1>1, ProfilesInvariant, PTL

\* dropLocalBrainInheritedMaxTokens: what the relay is told as a limit was named.
THEOREM CapsAreNamed == ProfilesSpec => []CapOnlyWhenNamed
  <1>1. ProfilesInv => CapOnlyWhenNamed
    <2> SUFFICES ASSUME ProfilesInv, phase = "sent", IsLocalBrainRoute(held, model),
                        payload.api = Completions
                 PROVE  payload.cap \in {"asked", Entries(held)[model].cap}
      BY DEF CapOnlyWhenNamed
    <2>1. /\ asked.cap \in {"asked", info.cap} /\ payload.api = Api(held, model)
          /\ payload.cap = WireCap(held, model, asked.cap)
          /\ info.cap = Entries(held)[model].cap
      BY DEF ProfilesInv, PreparedIsHeld, AnswerIsHeld, ModelInfo, ConfiguredCap
    <2>2. payload.cap = asked.cap
      BY <2>1 DEF WireCap
    <2> QED BY <2>1, <2>2
  <1> QED BY <1>1, ProfilesInvariant, PTL

\* prepareCall pins the snapshot: a call keeps what it was promised, whatever is written
\* between its preparation and its stream.
THEOREM CallsAreHonoured == ProfilesSpec => []PreparedCallsAreHonoured
  <1>1. ProfilesInv => PreparedCallsAreHonoured
    <2> SUFFICES ASSUME ProfilesInv PROVE PreparedCallsAreHonoured
      OBVIOUS
    <2>1. phase = "refused" => asked.effort = Unset
      BY DEF ProfilesInv, AnswerIsHeld
    <2>2. ASSUME phase = "sent"
          PROVE  /\ asked.effort # Unset => payload.level = IF asked.effort = "off" THEN Unset
                                                            ELSE asked.effort
                 /\ payload.api \in Speaks(held)
      <3>1. /\ held \in Accepted /\ model \in DOMAIN Entries(held)
            /\ payload.api = Api(held, model)
            /\ payload.level = ReasoningOption(Or(asked.effort, held.reasoning))
        BY <2>2 DEF ProfilesInv, PreparedIsHeld, AnswerIsHeld
      <3>2. asked.effort # Unset => payload.level = IF asked.effort = "off" THEN Unset
                                                    ELSE asked.effort
        BY <3>1 DEF Or, ReasoningOption
      <3>3. payload.api \in Speaks(held)
        BY <3>1, ApiIsSpoken
      <3> QED BY <3>2, <3>3
    <2> QED BY <2>1, <2>2 DEF PreparedCallsAreHonoured
  <1> QED BY <1>1, ProfilesInvariant, PTL

-----------------------------------------------------------------------------
(* PromptAssembly. *)

AssemblyAssumptions ==
    /\ LocalBrainRoutes \subseteq Routes /\ OfficialRoutes \subseteq Routes
    /\ Untold \notin Routes
    /\ End \notin Places
    /\ MemorySections \subseteq OtherSections /\ MemoryItems \subseteq Items
    /\ Overlay \notin OtherSections /\ Gap \notin OtherSections \cup {Overlay}
    /\ Memory \notin Overlays

\* Neither plugin touches another section, at any moment of a turn.
OthersStay ==
    \A q \in Positions : gathered.sections[q] \in OtherSections \ MemorySections =>
        sections[q] = gathered.sections[q]

\* An official route that is told keeps its memory at any moment.
OfficialKeeps ==
    selected \in OfficialRoutes /\ IsTold =>
        /\ \A q \in Positions : gathered.sections[q] \in MemorySections =>
            sections[q] = gathered.sections[q]
        /\ items = gathered.items

\* Until the memory policy has returned all items are there; once it has, a route that
\* is not official, or not told, has no memory left.
PolicyFilters ==
    turn = "returning" =>
        /\ Memory \in pending => items = gathered.items
        /\ Memory \notin pending /\ (selected \notin OfficialRoutes \/ ~IsTold) =>
            /\ \A q \in Positions : sections[q] \notin MemorySections
            /\ items = gathered.items \ MemoryItems

\* Once one instance has returned, the overlay is where the route wants it, and no other
\* listener disturbs it.
OneInstanceSuffices ==
    turn = "returning" /\ registered \ pending # {} /\ told["variables"] # Untold =>
        IF selected \in LocalBrainRoutes THEN \E q \in Positions : Existing = {q}
        ELSE Existing = {}

AssemblyInv ==
    AssemblyTypeOK /\ OthersStay /\ OfficialKeeps /\ PolicyFilters /\ OneInstanceSuffices

LEMMA AssemblyAssumed == AssemblyAssumptions
  BY RoutesAssumption, PlacesAssumption, SectionsAssumption, ListenersAssumption
     DEF AssemblyAssumptions

\* Whichever place names it, routeIdentity finds the route the turn runs on, and nothing
\* when no place does.
LEMMA IdentityIsSelected ==
    ASSUME selected \in Routes, told \in Tellings(selected)
    PROVE  /\ RouteIdentity = IF IsTold THEN selected ELSE Untold
           /\ told["variables"] # Untold => told["variables"] = selected
  <1> DEFINE First(i) == /\ told[TellingPlaces[i]] # Untold
                         /\ \A j \in 1..(i - 1) : told[TellingPlaces[j]] = Untold
  <1>1. /\ DOMAIN TellingPlaces = 1..6
        /\ TellingPlaces[1] = "variables" /\ TellingPlaces[2] = "route"
        /\ TellingPlaces[3] = "options" /\ TellingPlaces[4] = "header"
        /\ TellingPlaces[5] = "agentConfig" /\ TellingPlaces[6] = "config"
    BY DEF TellingPlaces
  <1>2. Untold \notin Routes
    BY AssemblyAssumed DEF AssemblyAssumptions
  <1>3. /\ \A p \in Tellers \ {"header"} : told[p] \in {selected, Untold}
        /\ \/ told["header"] \in {selected, Untold}
           \/ \E p \in {"variables", "route", "options"} : told[p] = selected
    BY DEF Tellings, Tellers
  <1>4. CASE ~IsTold
    <2>1. \A i \in 1..6 : told[TellingPlaces[i]] = Untold
      BY <1>1, <1>4 DEF IsTold, Tellers
    <2>2. RouteIdentity = Untold
      BY <1>1, <2>1 DEF RouteIdentity, FirstTold
    <2> QED BY <1>4, <2>2 DEF IsTold, Tellers
  <1>5. CASE IsTold
    <2>1. \E i \in 1..6 : told[TellingPlaces[i]] # Untold
      BY <1>1, <1>5 DEF IsTold, Tellers
    <2>2. \E i \in 1..6 : First(i)
      BY <1>1, <2>1
    <2>3. \A i \in 1..6 : First(i) => told[TellingPlaces[i]] = selected
      BY <1>1, <1>2, <1>3 DEF Tellers
    <2> DEFINE i == CHOOSE k \in 1..6 : First(k)
    <2>4. i \in 1..6 /\ First(i)
      BY <2>2
    <2>5. RouteIdentity = told[TellingPlaces[i]]
      BY <1>1, <2>1 DEF RouteIdentity, FirstTold
    <2>6. RouteIdentity = selected
      BY <2>3, <2>4, <2>5
    <2>7. told["variables"] \in {selected, Untold}
      BY <1>3 DEF Tellers
    <2> QED BY <1>5, <2>6, <2>7
  <1> QED BY <1>4, <1>5

LEMMA NothingIsATelling == \A r : ToldNothing \in Tellings(r)
  BY DEF ToldNothing, Tellings

\* What appendLocalBrainOverlay leaves: a prompt, in which only the overlay moved, and
\* which has it once on a Local Brain route and not otherwise.
LEMMA AppendedPrompt ==
    ASSUME sections \in Prompts, sections' = Appended
    PROVE  /\ sections' \in Prompts
           /\ \A q \in Positions : sections[q] \in OtherSections => sections'[q] = sections[q]
           /\ \A q \in Positions : sections'[q] \in {sections[q], Overlay, Gap}
           /\ Active => \E q \in Positions : Existing' = {q}
           /\ ~Active => Existing' = {}
  <1> USE AssemblyAssumed DEF AssemblyAssumptions, Positions
  <1>1. BaseSections \in Prompts /\ \A q \in Positions : BaseSections[q] # Overlay
    BY DEF BaseSections, Prompts
  <1>2. CASE ~Active
    <2>1. sections' = BaseSections
      BY <1>2 DEF Appended
    <2>2. Existing' = {}
      BY <2>1, <1>1 DEF Existing
    <2> QED BY <1>2, <1>1, <2>1, <2>2 DEF BaseSections
  <1>3. CASE Active /\ \E q \in Positions : Existing = {q}
    <2>1. sections' = sections
      BY <1>3 DEF Appended
    <2>2. Existing' = Existing
      BY <2>1 DEF Existing
    <2> QED BY <1>3, <2>1, <2>2
  <1>4. CASE Active /\ ~\E q \in Positions : Existing = {q}
    <2>1. sections' = [BaseSections EXCEPT ![End] = Overlay]
      BY <1>4 DEF Appended
    <2>2. /\ End \in Positions /\ sections'[End] = Overlay
          /\ \A q \in Positions : q # End => sections'[q] = BaseSections[q]
      BY <2>1, <1>1 DEF Prompts
    <2>3. Existing' = {End}
      BY <2>2, <1>1 DEF Existing
    <2>4. sections' \in Prompts
      BY <2>1, <2>2, <1>1 DEF Prompts
    <2>5. \A q \in Positions : sections[q] \in OtherSections => sections'[q] = sections[q]
      BY <2>2 DEF BaseSections, Prompts
    <2>6. \A q \in Positions : sections'[q] \in {sections[q], Overlay, Gap}
      BY <2>2 DEF BaseSections
    <2> QED BY <1>4, <2>2, <2>3, <2>4, <2>5, <2>6
  <1> QED BY <1>2, <1>3, <1>4

\* The initial state satisfies the invariant.
LEMMA AssemblyStart == AssemblyInit => AssemblyInv
  <1> SUFFICES ASSUME AssemblyInit PROVE AssemblyInv
    OBVIOUS
  <1> USE DEF AssemblyInit
  <1>1. sections \in Prompts
    BY DEF Prompts, Positions
  <1>2. AssemblyTypeOK
    BY <1>1, NothingIsATelling DEF AssemblyTypeOK
  <1>3. OthersStay /\ OfficialKeeps
    BY DEF OthersStay, OfficialKeeps
  <1>4. PolicyFilters /\ OneInstanceSuffices
    BY DEF PolicyFilters, OneInstanceSuffices
  <1> QED BY <1>2, <1>3, <1>4 DEF AssemblyInv

\* Every step preserves it.
LEMMA AssemblyStep == AssemblyInv /\ [AssemblyNext]_assemblyVars => AssemblyInv'
  <1> SUFFICES ASSUME AssemblyInv, [AssemblyNext]_assemblyVars
               PROVE  AssemblyInv'
    OBVIOUS
  <1> USE DEF AssemblyInv
  <1>1. CASE Gather
    <2> USE <1>1 DEF Gather
    <2>1. sections' \in Prompts
      BY DEF AssemblyTypeOK, Prompts, Positions
    <2>2. AssemblyTypeOK'
      BY <2>1 DEF AssemblyTypeOK
    <2>3. OthersStay' /\ OfficialKeeps'
      BY DEF OthersStay, OfficialKeeps
    <2>4. PolicyFilters' /\ OneInstanceSuffices'
      BY DEF PolicyFilters, OneInstanceSuffices
    <2> QED BY <2>2, <2>3, <2>4
  <1>2. ASSUME NEW o \in Overlays, AppendOverlay(o)
        PROVE  AssemblyInv'
    <2> USE <1>2 DEF AppendOverlay
    <2>1. sections \in Prompts /\ selected \in Routes /\ told \in Tellings(selected)
          /\ gathered.sections \in Prompts
      BY DEF AssemblyTypeOK
    <2>2. /\ sections' \in Prompts
          /\ \A q \in Positions : sections[q] \in OtherSections => sections'[q] = sections[q]
          /\ \A q \in Positions : sections'[q] \in {sections[q], Overlay, Gap}
          /\ Active => \E q \in Positions : Existing' = {q}
          /\ ~Active => Existing' = {}
      BY <2>1, AppendedPrompt
    <2>3. AssemblyTypeOK'
      BY <2>2 DEF AssemblyTypeOK
    <2>4. OthersStay'
      BY <2>2 DEF OthersStay
    <2>5. OfficialKeeps'
      BY <2>2, AssemblyAssumed DEF OfficialKeeps, IsTold, AssemblyAssumptions
    <2>6. Memory \in pending' <=> Memory \in pending
      BY AssemblyAssumed DEF AssemblyAssumptions
    <2>7. PolicyFilters'
      BY <2>2, <2>6, AssemblyAssumed DEF PolicyFilters, IsTold, AssemblyAssumptions
    <2>8. OneInstanceSuffices'
      BY <2>1, <2>2, IdentityIsSelected DEF OneInstanceSuffices, Active
    <2> QED BY <2>3, <2>4, <2>5, <2>7, <2>8
  <1>3. CASE FilterMemory
    <2> USE <1>3 DEF FilterMemory
    <2>0. IsTold' <=> IsTold
      BY DEF IsTold
    <2>1. Allowed <=> selected \in OfficialRoutes /\ IsTold
      <3>1. RouteIdentity = IF IsTold THEN selected ELSE Untold
        BY IdentityIsSelected DEF AssemblyTypeOK
      <3> QED BY <3>1, AssemblyAssumed DEF Allowed, AssemblyAssumptions
    <2>2. CASE Allowed
      <3>1. sections' = sections /\ items' = items /\ Existing' = Existing
        BY <2>2 DEF Existing
      <3>2. AssemblyTypeOK'
        BY <3>1 DEF AssemblyTypeOK
      <3>3. OthersStay' /\ OfficialKeeps'
        BY <2>0, <3>1 DEF OthersStay, OfficialKeeps
      <3>4. PolicyFilters'
        BY <2>0, <3>1, <2>1, <2>2 DEF PolicyFilters
      <3>5. registered \ pending' # {} => registered \ pending # {}
        BY AssemblyAssumed DEF AssemblyTypeOK, AssemblyAssumptions
      <3>6. OneInstanceSuffices'
        BY <3>1, <3>5 DEF OneInstanceSuffices
      <3> QED BY <3>2, <3>3, <3>4, <3>6
    <2>3. CASE ~Allowed
      <3>1. /\ sections' = [q \in Positions |-> IF sections[q] \in MemorySections THEN Gap
                                                ELSE sections[q]]
            /\ items' = items \ MemoryItems
        BY <2>3
      <3>2. sections' \in Prompts
        BY <3>1, AssemblyAssumed DEF AssemblyTypeOK, Prompts, Positions, AssemblyAssumptions
      <3>3. AssemblyTypeOK'
        BY <3>1, <3>2 DEF AssemblyTypeOK
      <3>4. OthersStay' /\ OfficialKeeps'
        BY <2>0, <3>1, <2>1, <2>3 DEF OthersStay, OfficialKeeps
      <3>5. PolicyFilters'
        BY <2>0, <3>1, AssemblyAssumed DEF PolicyFilters, AssemblyAssumptions
      <3>6. Existing' = Existing
        BY <3>1, AssemblyAssumed DEF Existing, AssemblyAssumptions
      <3>7. registered \ pending' # {} => registered \ pending # {}
        BY AssemblyAssumed DEF AssemblyTypeOK, AssemblyAssumptions
      <3>8. OneInstanceSuffices'
        BY <3>6, <3>7 DEF OneInstanceSuffices
      <3> QED BY <3>3, <3>4, <3>5, <3>8
    <2> QED BY <2>2, <2>3
  <1>4. CASE NextTurn
    <2> USE <1>4 DEF NextTurn
    <2>1. sections' \in Prompts
      BY DEF AssemblyTypeOK, Prompts, Positions
    <2>2. AssemblyTypeOK'
      BY <2>1, NothingIsATelling DEF AssemblyTypeOK
    <2>3. OthersStay' /\ OfficialKeeps'
      BY DEF OthersStay, OfficialKeeps
    <2>4. PolicyFilters' /\ OneInstanceSuffices'
      BY DEF PolicyFilters, OneInstanceSuffices
    <2> QED BY <2>2, <2>3, <2>4
  <1>5. CASE UNCHANGED assemblyVars
    BY <1>5 DEF assemblyVars, AssemblyTypeOK, OthersStay, OfficialKeeps, PolicyFilters,
                OneInstanceSuffices, Existing, IsTold
  <1> QED BY <1>1, <1>2, <1>3, <1>4, <1>5 DEF AssemblyNext

LEMMA AssemblyInvariant == AssemblySpec => []AssemblyInv
  BY AssemblyStart, AssemblyStep, PTL DEF AssemblySpec

\* Every variable of the assembly keeps its type.
THEOREM AssemblyTypeCorrect == AssemblySpec => []AssemblyTypeOK
  <1>1. AssemblyInv => AssemblyTypeOK
    BY DEF AssemblyInv
  <1> QED BY <1>1, AssemblyInvariant, PTL

\* appendLocalBrainOverlay and the memory policy together: an assembly that names its
\* route ends with the protocol once on a Local Brain route and nowhere else.
THEOREM OneOverlay == AssemblySpec => []OverlayFollowsRoute
  <1>1. AssemblyInv => OverlayFollowsRoute
    <2> SUFFICES ASSUME AssemblyInv, Assembled PROVE OverlayFollowsRoute
      BY DEF OverlayFollowsRoute
    <2>1. registered # {} => registered \ pending # {}
      BY DEF Assembled
    <2> QED BY <2>1 DEF AssemblyInv, OneInstanceSuffices, OthersStay, OverlayFollowsRoute, Assembled
  <1> QED BY <1>1, AssemblyInvariant, PTL

\* filterPersistentMemoryAssembly: a route that is not official, or told nowhere, ends
\* without persistent memory, an official one that is told with all of it.
THEOREM MemoryIsIsolated == AssemblySpec => []MemoryStaysOut
  <1>1. AssemblyInv => MemoryStaysOut
    BY DEF AssemblyInv, PolicyFilters, OfficialKeeps, MemoryStaysOut, Assembled
  <1> QED BY <1>1, AssemblyInvariant, PTL

-----------------------------------------------------------------------------
(* Credentials. *)

CredentialAssumptions ==
    /\ Shipped \subseteq Providers /\ Addressable \subseteq Providers
    /\ LoginMethods \in [Shipped -> SUBSET {"api_key", "oauth"}]
    /\ Nobody \notin Tasks
    /\ MaxIssued \in Nat
    /\ Missing \notin PiCredentials \cup Records \cup Results

\* Whoever is inside modifyRecord holds the record, and works on what is stored.
InsideHolds ==
    \A t \in Tasks : stage[t] \in {"inside", "refreshing"} =>
        /\ holder[provider[t]] = t
        /\ current[t] = ToPiCredential(record[provider[t]])

RefreshingIsStale ==
    \A t \in Tasks : stage[t] = "refreshing" => current[t] \in PiCredentials

\* A sign-in is under way for an addressable provider, and what it stores was not made
\* from another grant.
SignInsAreFresh ==
    \A t \in Tasks : doing[t] = "signIn" =>
        /\ provider[t] \in Addressable
        /\ stage[t] \in {"modifying", "waiting", "inside"} =>
            produced[t] \in PiCredentials /\ produced[t].from = 0

TalkingSignsIn == \A t \in Tasks : stage[t] = "talking" => doing[t] = "signIn" /\ provider[t] \in Flows

UnfinishedSaysNothing == \A t \in Tasks : stage[t] # "idle" => result[t] = Missing

CredentialsInv ==
    /\ CredentialsTypeOK
    /\ InsideHolds /\ RefreshingIsStale /\ SignInsAreFresh /\ TalkingSignsIn
    /\ UnfinishedSaysNothing /\ SignInsAreKept

LEMMA CredentialsAssumed == CredentialAssumptions
  BY ShippedAssumption, AddressableAssumption, MethodsAssumption, NobodyAssumption,
     MaxIssuedAssumption, MissingAssumption DEF CredentialAssumptions

\* The initial state satisfies the invariant.
LEMMA CredentialsStart == CredentialsInit => CredentialsInv
  <1> SUFFICES ASSUME CredentialsInit PROVE CredentialsInv
    OBVIOUS
  <1> USE DEF CredentialsInit
  <1>1. CredentialsTypeOK
    BY CredentialsAssumed DEF CredentialsTypeOK, Stages, CredentialAssumptions
  <1>2. InsideHolds /\ RefreshingIsStale /\ SignInsAreFresh /\ TalkingSignsIn
        /\ UnfinishedSaysNothing
    BY DEF InsideHolds, RefreshingIsStale, SignInsAreFresh, TalkingSignsIn,
           UnfinishedSaysNothing
  <1>3. SignInsAreKept
    <2>1. \A t \in Tasks : doing[t] = "request" /\ result[t] = Missing
      OBVIOUS
    <2>2. Missing # "signed in" /\ Missing # "UNSTORABLE_PROVIDER_ID"
      BY CredentialsAssumed DEF CredentialAssumptions, Results
    <2> QED BY <2>1, <2>2 DEF SignInsAreKept
  <1> QED BY <1>1, <1>2, <1>3 DEF CredentialsInv

\* The two translations keep a credential's numbers.
LEMMA RecordTyped ==
    ASSUME NEW c \in PiCredentials
    PROVE  /\ ToRecord(c) \in Records /\ ToRecord(c) # Missing
           /\ ToRecord(c).number = c.number /\ ToRecord(c).from = c.from
  BY CredentialsAssumed DEF ToRecord, Records, PiCredentials, CredentialAssumptions

LEMMA CredentialTyped ==
    ASSUME NEW r \in Records
    PROVE  /\ ToPiCredential(r) \in PiCredentials
           /\ ToPiCredential(r).number = r.number /\ ToPiCredential(r).from = r.from
  BY CredentialsAssumed DEF ToPiCredential, Records, PiCredentials, CredentialAssumptions

LEMMA MissingStays == ToPiCredential(Missing) = Missing
  BY DEF ToPiCredential

\* Every step preserves it.
LEMMA CredentialsStep == CredentialsInv /\ [CredentialsNext]_credentialVars => CredentialsInv'
  <1> SUFFICES ASSUME CredentialsInv, [CredentialsNext]_credentialVars
               PROVE  CredentialsInv'
    OBVIOUS
  <1> USE DEF CredentialsInv, Goes, storeVars, taskVars
  <1>1. ASSUME NEW t \in Tasks, NEW p \in Providers, SignIn(t, p)
        PROVE  CredentialsInv'
    <2> USE <1>1 DEF SignIn, Begins, Flows
    <2>1. CredentialsTypeOK'
      BY CredentialsAssumed DEF CredentialsTypeOK, CredentialAssumptions, Stages, Results
    <2>2. InsideHolds'
      BY CredentialsAssumed DEF InsideHolds, CredentialsTypeOK, CredentialAssumptions
    <2>3. RefreshingIsStale'
      BY CredentialsAssumed DEF RefreshingIsStale, InsideHolds, CredentialsTypeOK, CredentialAssumptions
    <2>4. SignInsAreFresh'
      BY CredentialsAssumed DEF SignInsAreFresh, TalkingSignsIn, CredentialsTypeOK, CredentialAssumptions, Flows
    <2>5. TalkingSignsIn'
      BY CredentialsAssumed DEF TalkingSignsIn, CredentialsTypeOK, Flows
    <2>6. SignInsAreKept'
      BY CredentialsAssumed DEF SignInsAreKept, SignInsAreFresh, CredentialsTypeOK, CredentialAssumptions, Results
    <2>7. UnfinishedSaysNothing'
      BY DEF UnfinishedSaysNothing, CredentialsTypeOK
    <2> QED BY <2>1, <2>2, <2>3, <2>4, <2>5, <2>6, <2>7
  <1>2. ASSUME NEW t \in Tasks, NEW p \in Providers, SignOut(t, p)
        PROVE  CredentialsInv'
    <2> USE <1>2 DEF SignOut, Begins
    <2>1. CredentialsTypeOK'
      BY CredentialsAssumed DEF CredentialsTypeOK, CredentialAssumptions, Stages, Results
    <2>2. InsideHolds'
      BY CredentialsAssumed DEF InsideHolds, CredentialsTypeOK, CredentialAssumptions
    <2>3. RefreshingIsStale'
      BY CredentialsAssumed DEF RefreshingIsStale, InsideHolds, CredentialsTypeOK, CredentialAssumptions
    <2>4. SignInsAreFresh'
      BY CredentialsAssumed DEF SignInsAreFresh, TalkingSignsIn, CredentialsTypeOK, CredentialAssumptions, Flows
    <2>5. TalkingSignsIn'
      BY CredentialsAssumed DEF TalkingSignsIn, CredentialsTypeOK, Flows
    <2>6. SignInsAreKept'
      BY CredentialsAssumed DEF SignInsAreKept, SignInsAreFresh, CredentialsTypeOK, CredentialAssumptions, Results
    <2>7. UnfinishedSaysNothing'
      BY DEF UnfinishedSaysNothing, CredentialsTypeOK
    <2> QED BY <2>1, <2>2, <2>3, <2>4, <2>5, <2>6, <2>7
  <1>3. ASSUME NEW t \in Tasks, NEW p \in Providers, Request(t, p)
        PROVE  CredentialsInv'
    <2> USE <1>3 DEF Request, Begins
    <2>1. CredentialsTypeOK'
      BY CredentialsAssumed DEF CredentialsTypeOK, CredentialAssumptions, Stages, Results
    <2>2. InsideHolds'
      BY CredentialsAssumed DEF InsideHolds, CredentialsTypeOK, CredentialAssumptions
    <2>3. RefreshingIsStale'
      BY CredentialsAssumed DEF RefreshingIsStale, InsideHolds, CredentialsTypeOK, CredentialAssumptions
    <2>4. SignInsAreFresh'
      BY CredentialsAssumed DEF SignInsAreFresh, TalkingSignsIn, CredentialsTypeOK, CredentialAssumptions, Flows
    <2>5. TalkingSignsIn'
      BY CredentialsAssumed DEF TalkingSignsIn, CredentialsTypeOK, Flows
    <2>6. SignInsAreKept'
      BY CredentialsAssumed DEF SignInsAreKept, SignInsAreFresh, CredentialsTypeOK, CredentialAssumptions, Results
    <2>7. UnfinishedSaysNothing'
      BY DEF UnfinishedSaysNothing, CredentialsTypeOK
    <2> QED BY <2>1, <2>2, <2>3, <2>4, <2>5, <2>6, <2>7
  <1>4. ASSUME NEW t \in Tasks, NEW type \in {"api_key", "oauth"}, Granted(t, type)
        PROVE  CredentialsInv'
    <2> USE <1>4 DEF Granted, Issue, Numbers, PiCredentials
    <2>1. CredentialsTypeOK'
      <3> DEFINE c == [type |-> type, number |-> issued + 1, from |-> 0]
      <3>1. c \in PiCredentials /\ issued + 1 \in 0..MaxIssued
        BY CredentialsAssumed DEF CredentialsTypeOK, CredentialAssumptions
      <3> QED BY <3>1, CredentialsAssumed DEF CredentialsTypeOK, CredentialAssumptions, Stages, Results
    <2>2. InsideHolds'
      BY CredentialsAssumed DEF InsideHolds, CredentialsTypeOK, CredentialAssumptions
    <2>3. RefreshingIsStale'
      BY CredentialsAssumed DEF RefreshingIsStale, InsideHolds, CredentialsTypeOK, CredentialAssumptions
    <2>4. SignInsAreFresh'
      BY CredentialsAssumed DEF SignInsAreFresh, TalkingSignsIn, CredentialsTypeOK, CredentialAssumptions, Flows
    <2>5. TalkingSignsIn'
      BY CredentialsAssumed DEF TalkingSignsIn, CredentialsTypeOK, Flows
    <2>6. SignInsAreKept'
      <3>1. result[t] # "signed in"
        BY CredentialsAssumed DEF UnfinishedSaysNothing, CredentialAssumptions, Results
      <3> QED BY <3>1, CredentialsAssumed DEF SignInsAreKept, CredentialsTypeOK
    <2>7. UnfinishedSaysNothing'
      BY DEF UnfinishedSaysNothing, CredentialsTypeOK
    <2> QED BY <2>1, <2>2, <2>3, <2>4, <2>5, <2>6, <2>7
  <1>5. ASSUME NEW t \in Tasks, Declined(t)
        PROVE  CredentialsInv'
    <2> USE <1>5 DEF Declined, Ends
    <2>1. CredentialsTypeOK'
      BY CredentialsAssumed DEF CredentialsTypeOK, CredentialAssumptions, Stages, Results
    <2>2. InsideHolds'
      BY CredentialsAssumed DEF InsideHolds, CredentialsTypeOK, CredentialAssumptions
    <2>3. RefreshingIsStale'
      BY CredentialsAssumed DEF RefreshingIsStale, InsideHolds, CredentialsTypeOK, CredentialAssumptions
    <2>4. SignInsAreFresh'
      BY CredentialsAssumed DEF SignInsAreFresh, TalkingSignsIn, CredentialsTypeOK, CredentialAssumptions, Flows
    <2>5. TalkingSignsIn'
      BY CredentialsAssumed DEF TalkingSignsIn, CredentialsTypeOK, Flows
    <2>6. SignInsAreKept'
      BY CredentialsAssumed DEF SignInsAreKept, SignInsAreFresh, CredentialsTypeOK, CredentialAssumptions, Results
    <2>7. UnfinishedSaysNothing'
      BY DEF UnfinishedSaysNothing, CredentialsTypeOK
    <2> QED BY <2>1, <2>2, <2>3, <2>4, <2>5, <2>6, <2>7
  <1>6. ASSUME NEW t \in Tasks, Stores(t)
        PROVE  CredentialsInv'
    <2> USE <1>6 DEF Stores, Ends
    <2>1. CredentialsTypeOK'
      BY CredentialsAssumed DEF CredentialsTypeOK, CredentialAssumptions, Stages, Results
    <2>2. InsideHolds'
      BY CredentialsAssumed DEF InsideHolds, CredentialsTypeOK, CredentialAssumptions
    <2>3. RefreshingIsStale'
      BY CredentialsAssumed DEF RefreshingIsStale, InsideHolds, CredentialsTypeOK, CredentialAssumptions
    <2>4. SignInsAreFresh'
      BY CredentialsAssumed DEF SignInsAreFresh, TalkingSignsIn, CredentialsTypeOK, CredentialAssumptions, Flows
    <2>5. TalkingSignsIn'
      BY CredentialsAssumed DEF TalkingSignsIn, CredentialsTypeOK, Flows
    <2>6. SignInsAreKept'
      BY CredentialsAssumed DEF SignInsAreKept, SignInsAreFresh, CredentialsTypeOK, CredentialAssumptions, Results
    <2>7. UnfinishedSaysNothing'
      BY DEF UnfinishedSaysNothing, CredentialsTypeOK
    <2> QED BY <2>1, <2>2, <2>3, <2>4, <2>5, <2>6, <2>7
  <1>7. ASSUME NEW t \in Tasks, Enter(t)
        PROVE  CredentialsInv'
    <2> USE <1>7 DEF Enter
    <2>1. CredentialsTypeOK'
      BY CredentialsAssumed, CredentialTyped, MissingStays DEF CredentialsTypeOK, CredentialAssumptions, Stages, Results
    <2>2. InsideHolds'
      BY CredentialsAssumed DEF InsideHolds, CredentialsTypeOK, CredentialAssumptions
    <2>3. RefreshingIsStale'
      BY CredentialsAssumed DEF RefreshingIsStale, InsideHolds, CredentialsTypeOK, CredentialAssumptions
    <2>4. SignInsAreFresh'
      BY CredentialsAssumed DEF SignInsAreFresh, TalkingSignsIn, CredentialsTypeOK, CredentialAssumptions, Flows
    <2>5. TalkingSignsIn'
      BY CredentialsAssumed DEF TalkingSignsIn, CredentialsTypeOK, Flows
    <2>6. SignInsAreKept'
      BY CredentialsAssumed DEF SignInsAreKept, SignInsAreFresh, CredentialsTypeOK, CredentialAssumptions, Results
    <2>7. UnfinishedSaysNothing'
      BY DEF UnfinishedSaysNothing, CredentialsTypeOK
    <2> QED BY <2>1, <2>2, <2>3, <2>4, <2>5, <2>6, <2>7
  <1>8. ASSUME NEW t \in Tasks, WaitLimit(t)
        PROVE  CredentialsInv'
    <2> USE <1>8 DEF WaitLimit, Ends
    <2>1. CredentialsTypeOK'
      BY CredentialsAssumed DEF CredentialsTypeOK, CredentialAssumptions, Stages, Results
    <2>2. InsideHolds'
      BY CredentialsAssumed DEF InsideHolds, CredentialsTypeOK, CredentialAssumptions
    <2>3. RefreshingIsStale'
      BY CredentialsAssumed DEF RefreshingIsStale, InsideHolds, CredentialsTypeOK, CredentialAssumptions
    <2>4. SignInsAreFresh'
      BY CredentialsAssumed DEF SignInsAreFresh, TalkingSignsIn, CredentialsTypeOK, CredentialAssumptions, Flows
    <2>5. TalkingSignsIn'
      BY CredentialsAssumed DEF TalkingSignsIn, CredentialsTypeOK, Flows
    <2>6. SignInsAreKept'
      BY CredentialsAssumed DEF SignInsAreKept, SignInsAreFresh, CredentialsTypeOK, CredentialAssumptions, Results
    <2>7. UnfinishedSaysNothing'
      BY DEF UnfinishedSaysNothing, CredentialsTypeOK
    <2> QED BY <2>1, <2>2, <2>3, <2>4, <2>5, <2>6, <2>7
  <1>9. ASSUME NEW t \in Tasks, Store(t)
        PROVE  CredentialsInv'
    <2> USE <1>9 DEF Store, Commits, Leaves, Ends
    <2>1. CredentialsTypeOK'
      <3>1. produced[t] \in PiCredentials
        BY DEF SignInsAreFresh
      <3>2. ToRecord(produced[t]) \in Records /\ produced[t].number \in Numbers
        BY <3>1, RecordTyped DEF PiCredentials
      <3> QED BY <3>2, CredentialsAssumed DEF CredentialsTypeOK, CredentialAssumptions, Stages, Results
    <2>2. InsideHolds'
      <3> SUFFICES ASSUME NEW u \in Tasks, stage'[u] \in {"inside", "refreshing"}
                   PROVE  holder'[provider'[u]] = u /\ current'[u] = ToPiCredential(record'[provider'[u]])
        BY DEF InsideHolds
      <3>1. u # t /\ stage[u] = stage'[u]
        BY DEF CredentialsTypeOK
      <3>2. holder[provider[u]] = u /\ holder[provider[t]] = t
        BY <3>1 DEF InsideHolds
      <3>3. provider[u] # provider[t]
        BY <3>1, <3>2
      <3> QED BY <3>1, <3>3 DEF InsideHolds, CredentialsTypeOK
    <2>3. RefreshingIsStale'
      BY CredentialsAssumed DEF RefreshingIsStale, InsideHolds, CredentialsTypeOK, CredentialAssumptions
    <2>4. SignInsAreFresh'
      BY CredentialsAssumed DEF SignInsAreFresh, TalkingSignsIn, CredentialsTypeOK, CredentialAssumptions, Flows
    <2>5. TalkingSignsIn'
      BY CredentialsAssumed DEF TalkingSignsIn, CredentialsTypeOK, Flows
    <2>6. SignInsAreKept'
      BY CredentialsAssumed DEF SignInsAreKept, SignInsAreFresh, CredentialsTypeOK, CredentialAssumptions, Results
    <2>7. UnfinishedSaysNothing'
      BY DEF UnfinishedSaysNothing, CredentialsTypeOK
    <2> QED BY <2>1, <2>2, <2>3, <2>4, <2>5, <2>6, <2>7
  <1>10. ASSUME NEW t \in Tasks, Remove(t)
        PROVE  CredentialsInv'
    <2> USE <1>10 DEF Remove, Leaves, Ends
    <2>1. CredentialsTypeOK'
      BY CredentialsAssumed DEF CredentialsTypeOK, CredentialAssumptions, Stages, Results
    <2>2. InsideHolds'
      <3> SUFFICES ASSUME NEW u \in Tasks, stage'[u] \in {"inside", "refreshing"}
                   PROVE  holder'[provider'[u]] = u /\ current'[u] = ToPiCredential(record'[provider'[u]])
        BY DEF InsideHolds
      <3>1. u # t /\ stage[u] = stage'[u]
        BY DEF CredentialsTypeOK
      <3>2. holder[provider[u]] = u /\ holder[provider[t]] = t
        BY <3>1 DEF InsideHolds
      <3>3. provider[u] # provider[t]
        BY <3>1, <3>2
      <3> QED BY <3>1, <3>3 DEF InsideHolds, CredentialsTypeOK
    <2>3. RefreshingIsStale'
      BY CredentialsAssumed DEF RefreshingIsStale, InsideHolds, CredentialsTypeOK, CredentialAssumptions
    <2>4. SignInsAreFresh'
      BY CredentialsAssumed DEF SignInsAreFresh, TalkingSignsIn, CredentialsTypeOK, CredentialAssumptions, Flows
    <2>5. TalkingSignsIn'
      BY CredentialsAssumed DEF TalkingSignsIn, CredentialsTypeOK, Flows
    <2>6. SignInsAreKept'
      BY CredentialsAssumed DEF SignInsAreKept, SignInsAreFresh, CredentialsTypeOK, CredentialAssumptions, Results
    <2>7. UnfinishedSaysNothing'
      BY DEF UnfinishedSaysNothing, CredentialsTypeOK
    <2> QED BY <2>1, <2>2, <2>3, <2>4, <2>5, <2>6, <2>7
  <1>11. ASSUME NEW t \in Tasks, AlreadyFresh(t)
        PROVE  CredentialsInv'
    <2> USE <1>11 DEF AlreadyFresh, Leaves, Ends
    <2>1. CredentialsTypeOK'
      BY CredentialsAssumed DEF CredentialsTypeOK, CredentialAssumptions, Stages, Results
    <2>2. InsideHolds'
      BY CredentialsAssumed DEF InsideHolds, CredentialsTypeOK, CredentialAssumptions
    <2>3. RefreshingIsStale'
      BY CredentialsAssumed DEF RefreshingIsStale, InsideHolds, CredentialsTypeOK, CredentialAssumptions
    <2>4. SignInsAreFresh'
      BY CredentialsAssumed DEF SignInsAreFresh, TalkingSignsIn, CredentialsTypeOK, CredentialAssumptions, Flows
    <2>5. TalkingSignsIn'
      BY CredentialsAssumed DEF TalkingSignsIn, CredentialsTypeOK, Flows
    <2>6. SignInsAreKept'
      BY CredentialsAssumed DEF SignInsAreKept, SignInsAreFresh, CredentialsTypeOK, CredentialAssumptions, Results
    <2>7. UnfinishedSaysNothing'
      BY DEF UnfinishedSaysNothing, CredentialsTypeOK
    <2> QED BY <2>1, <2>2, <2>3, <2>4, <2>5, <2>6, <2>7
  <1>12. ASSUME NEW t \in Tasks, Refresh(t)
        PROVE  CredentialsInv'
    <2> USE <1>12 DEF Refresh
    <2>1. CredentialsTypeOK'
      BY CredentialsAssumed DEF CredentialsTypeOK, CredentialAssumptions, Stages, Results
    <2>2. InsideHolds'
      BY CredentialsAssumed DEF InsideHolds, CredentialsTypeOK, CredentialAssumptions
    <2>3. RefreshingIsStale'
      BY CredentialsAssumed DEF RefreshingIsStale, Stale, CredentialsTypeOK, CredentialAssumptions
    <2>4. SignInsAreFresh'
      BY CredentialsAssumed DEF SignInsAreFresh, TalkingSignsIn, CredentialsTypeOK, CredentialAssumptions, Flows
    <2>5. TalkingSignsIn'
      BY CredentialsAssumed DEF TalkingSignsIn, CredentialsTypeOK, Flows
    <2>6. SignInsAreKept'
      BY CredentialsAssumed DEF SignInsAreKept, SignInsAreFresh, CredentialsTypeOK, CredentialAssumptions, Results
    <2>7. UnfinishedSaysNothing'
      BY DEF UnfinishedSaysNothing, CredentialsTypeOK
    <2> QED BY <2>1, <2>2, <2>3, <2>4, <2>5, <2>6, <2>7
  <1>13. ASSUME NEW t \in Tasks, Refreshed(t)
        PROVE  CredentialsInv'
    <2> USE <1>13 DEF Refreshed, Issue, Commits, Leaves, Ends, Numbers, PiCredentials
    <2>1. CredentialsTypeOK'
      <3>1. current[t] \in PiCredentials /\ issued + 1 \in Numbers /\ issued + 1 \in 0..MaxIssued
        BY CredentialsAssumed DEF RefreshingIsStale, CredentialsTypeOK, CredentialAssumptions
      <3> DEFINE c == [type |-> "oauth", number |-> issued + 1, from |-> current[t].number]
      <3>2. c \in PiCredentials /\ c.number \in Numbers
        BY <3>1, CredentialsAssumed DEF CredentialAssumptions
      <3>3. produced' = [produced EXCEPT ![t] = c]
        OBVIOUS
      <3>4. produced'[t] = c
        BY <3>3 DEF CredentialsTypeOK
      <3>5. record' = [record EXCEPT ![provider[t]] = ToRecord(c)] /\ kept' = kept \cup {c.number}
        BY <3>4
      <3> HIDE DEF c
      <3>6. ToRecord(c) \in Records
        BY <3>2, RecordTyped
      <3> HIDE DEF Numbers, PiCredentials
      <3>7. record' \in [Providers -> Records \cup {Missing}]
        BY <3>5, <3>6 DEF CredentialsTypeOK
      <3>8. produced' \in [Tasks -> PiCredentials \cup {Missing}]
        BY <3>3, <3>2 DEF CredentialsTypeOK
      <3>9. kept' \subseteq Numbers /\ issued' \in 0..MaxIssued
        BY <3>5, <3>2, <3>1 DEF CredentialsTypeOK
      <3> QED BY <3>7, <3>8, <3>9 DEF CredentialsTypeOK, Stages, Results
    <2>2. InsideHolds'
      BY CredentialsAssumed DEF InsideHolds, CredentialsTypeOK, CredentialAssumptions
    <2>3. RefreshingIsStale'
      BY CredentialsAssumed DEF RefreshingIsStale, InsideHolds, CredentialsTypeOK, CredentialAssumptions
    <2>4. SignInsAreFresh'
      BY CredentialsAssumed DEF SignInsAreFresh, TalkingSignsIn, CredentialsTypeOK, CredentialAssumptions, Flows
    <2>5. TalkingSignsIn'
      BY CredentialsAssumed DEF TalkingSignsIn, CredentialsTypeOK, Flows
    <2>6. SignInsAreKept'
      BY CredentialsAssumed DEF SignInsAreKept, SignInsAreFresh, CredentialsTypeOK, CredentialAssumptions, Results
    <2>7. UnfinishedSaysNothing'
      BY DEF UnfinishedSaysNothing, CredentialsTypeOK
    <2> QED BY <2>1, <2>2, <2>3, <2>4, <2>5, <2>6, <2>7
  <1>14. ASSUME NEW t \in Tasks, RefreshFails(t)
        PROVE  CredentialsInv'
    <2> USE <1>14 DEF RefreshFails, Leaves, Ends
    <2>1. CredentialsTypeOK'
      BY CredentialsAssumed DEF CredentialsTypeOK, CredentialAssumptions, Stages, Results
    <2>2. InsideHolds'
      BY CredentialsAssumed DEF InsideHolds, CredentialsTypeOK, CredentialAssumptions
    <2>3. RefreshingIsStale'
      BY CredentialsAssumed DEF RefreshingIsStale, InsideHolds, CredentialsTypeOK, CredentialAssumptions
    <2>4. SignInsAreFresh'
      BY CredentialsAssumed DEF SignInsAreFresh, TalkingSignsIn, CredentialsTypeOK, CredentialAssumptions, Flows
    <2>5. TalkingSignsIn'
      BY CredentialsAssumed DEF TalkingSignsIn, CredentialsTypeOK, Flows
    <2>6. SignInsAreKept'
      BY CredentialsAssumed DEF SignInsAreKept, SignInsAreFresh, CredentialsTypeOK, CredentialAssumptions, Results
    <2>7. UnfinishedSaysNothing'
      BY DEF UnfinishedSaysNothing, CredentialsTypeOK
    <2> QED BY <2>1, <2>2, <2>3, <2>4, <2>5, <2>6, <2>7
  <1>15. ASSUME NEW n \in Numbers, Expire(n)
        PROVE  CredentialsInv'
    <2> USE <1>15 DEF Expire
    <2>1. CredentialsTypeOK'
      BY CredentialsAssumed DEF CredentialsTypeOK, CredentialAssumptions, Stages, Results
    <2>2. InsideHolds'
      BY CredentialsAssumed DEF InsideHolds, CredentialsTypeOK, CredentialAssumptions
    <2>3. RefreshingIsStale'
      BY CredentialsAssumed DEF RefreshingIsStale, InsideHolds, CredentialsTypeOK, CredentialAssumptions
    <2>4. SignInsAreFresh'
      BY CredentialsAssumed DEF SignInsAreFresh, TalkingSignsIn, CredentialsTypeOK, CredentialAssumptions, Flows
    <2>5. TalkingSignsIn'
      BY CredentialsAssumed DEF TalkingSignsIn, CredentialsTypeOK, Flows
    <2>6. SignInsAreKept'
      BY CredentialsAssumed DEF SignInsAreKept, SignInsAreFresh, CredentialsTypeOK, CredentialAssumptions, Results
    <2>7. UnfinishedSaysNothing'
      BY DEF UnfinishedSaysNothing, CredentialsTypeOK
    <2> QED BY <2>1, <2>2, <2>3, <2>4, <2>5, <2>6, <2>7
  <1>16. ASSUME Remount
        PROVE  CredentialsInv'
    <2> USE <1>16 DEF Remount
    <2>1. CredentialsTypeOK'
      BY CredentialsAssumed DEF CredentialsTypeOK, CredentialAssumptions, Stages, Results
    <2>2. InsideHolds'
      BY CredentialsAssumed DEF InsideHolds, CredentialsTypeOK, CredentialAssumptions
    <2>3. RefreshingIsStale'
      BY CredentialsAssumed DEF RefreshingIsStale, InsideHolds, CredentialsTypeOK, CredentialAssumptions
    <2>4. SignInsAreFresh'
      BY CredentialsAssumed DEF SignInsAreFresh, TalkingSignsIn, CredentialsTypeOK, CredentialAssumptions, Flows
    <2>5. TalkingSignsIn'
      BY CredentialsAssumed DEF TalkingSignsIn, CredentialsTypeOK, Flows
    <2>6. SignInsAreKept'
      BY CredentialsAssumed DEF SignInsAreKept, SignInsAreFresh, CredentialsTypeOK, CredentialAssumptions, Results
    <2>7. UnfinishedSaysNothing'
      BY DEF UnfinishedSaysNothing, CredentialsTypeOK
    <2> QED BY <2>1, <2>2, <2>3, <2>4, <2>5, <2>6, <2>7
  <1>17. CASE UNCHANGED credentialVars
    BY <1>17 DEF credentialVars, CredentialsTypeOK, InsideHolds, RefreshingIsStale, SignInsAreFresh,
       TalkingSignsIn, UnfinishedSaysNothing, SignInsAreKept
  <1> QED BY <1>1, <1>2, <1>3, <1>4, <1>5, <1>6, <1>7, <1>8, <1>9, <1>10, <1>11, <1>12, <1>13, <1>14, <1>15, <1>16, <1>17 DEF CredentialsNext

\* The types, for every instance.
THEOREM CredentialsTypeCorrect == CredentialsSpec => []CredentialsTypeOK
  <1>1. CredentialsInv => CredentialsTypeOK
    BY DEF CredentialsInv
  <1> QED BY <1>1, CredentialsStart, CredentialsStep, PTL DEF CredentialsSpec

\* A sign-in that reports success was stored, and none is offered that could not be:
\* registerPiAiFlows and modify agree.
THEOREM SuccessMeansStored == CredentialsSpec => []SignInsAreKept
  <1>1. CredentialsInv => SignInsAreKept
    BY DEF CredentialsInv
  <1> QED BY <1>1, CredentialsStart, CredentialsStep, PTL DEF CredentialsSpec

Replaces(p) ==
    record'[p] # record[p] /\ record'[p] # Missing /\ record'[p].from # 0 =>
        record[p] # Missing /\ record[p].number = record'[p].from

\* What a refresh stores replaces the grant it was made from: modify's callback runs
\* inside modifyRecord.
THEOREM RefreshIsExclusive == CredentialsSpec => RefreshReplacesItsGrant
  <1>1. ASSUME CredentialsInv, CredentialsNext, NEW p \in Providers
        PROVE  Replaces(p)
    <2>1. ASSUME NEW t \in Tasks, Store(t)
          PROVE  Replaces(p)
      <3>1. produced[t] \in PiCredentials /\ produced[t].from = 0
        BY <1>1, <2>1 DEF Store, CredentialsInv, SignInsAreFresh
      <3>2. ToRecord(produced[t]).from = 0
        BY <3>1, RecordTyped
      <3> QED BY <1>1, <2>1, <3>2 DEF Store, Commits, Replaces, CredentialsInv, CredentialsTypeOK
    <2>2. ASSUME NEW t \in Tasks, Remove(t)
          PROVE  Replaces(p)
      BY <1>1, <2>2 DEF Remove, Replaces, CredentialsInv, CredentialsTypeOK
    <2>3. ASSUME NEW t \in Tasks, Refreshed(t)
          PROVE  Replaces(p)
      <3> DEFINE c == [type |-> "oauth", number |-> issued + 1, from |-> current[t].number]
                 q == provider[t]
      <3>1. current[t] \in PiCredentials /\ current[t] = ToPiCredential(record[q])
        BY <1>1, <2>3 DEF Refreshed, CredentialsInv, InsideHolds, RefreshingIsStale
      <3>2. record[q] \in Records /\ record[q] # Missing
        BY <1>1, <3>1, MissingStays, CredentialsAssumed DEF CredentialsInv, CredentialsTypeOK, CredentialAssumptions
      <3>3. record[q].number = current[t].number
        BY <3>1, <3>2, CredentialTyped
      <3>4. issued + 1 \in Numbers
        BY <1>1, <2>3, CredentialsAssumed DEF Refreshed, Issue, Numbers, CredentialsInv, CredentialsTypeOK,
                             CredentialAssumptions
      <3>5. c \in PiCredentials
        BY <3>1, <3>4 DEF PiCredentials, Numbers
      <3>6. ToRecord(c).from = record[q].number
        BY <3>3, <3>5, RecordTyped
      <3>7. record' = [record EXCEPT ![q] = ToRecord(c)]
        BY <1>1, <2>3 DEF Refreshed, Issue, Commits, CredentialsInv, CredentialsTypeOK
      <3> HIDE DEF c, q
      <3> QED BY <1>1, <3>2, <3>6, <3>7 DEF Replaces, CredentialsInv, CredentialsTypeOK
    <2>4. record' = record => Replaces(p)
      BY DEF Replaces
    <2> QED
      BY <1>1, <2>1, <2>2, <2>3, <2>4
      DEF CredentialsNext, SignIn, SignOut, Request, Begins, Granted, Declined, Stores, Enter,
          WaitLimit, AlreadyFresh, Refresh, RefreshFails, Expire, Remount, storeVars
  <1>2. CredentialsInv /\ [CredentialsNext]_credentialVars =>
          [\A p \in Providers : Replaces(p)]_credentialVars
    BY <1>1
  <1> QED BY <1>2, CredentialsStart, CredentialsStep, PTL DEF CredentialsSpec, RefreshReplacesItsGrant, Replaces
=============================================================================
