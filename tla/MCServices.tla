----------------------------- MODULE MCServices ----------------------------
(***************************************************************************)
(* Credentials, Discovery, ModelProfiles and PromptAssembly for TLC.  They *)
(* share no variable and no action, so a behaviour shows one of them, its  *)
(* scene, while the others stay as they began: every property is about one *)
(* module, and holds of the four side by side when it holds in its scene.  *)
(* The prompt has two scenes: several instances of the engineering protocol*)
(* with few places that tell the route, and none of them with all places.  *)
(***************************************************************************)
EXTENDS Credentials, Discovery, ModelProfiles, PromptAssembly, TLC

MCLoginMethods == "anthropic" :> {"api_key", "oauth"} @@ "vendor.x" :> {"oauth"}

MCOffers ==
    "openai-completions" :> {"store", "strict"} @@ "openai-responses" :> {"strict"}
    @@ "anthropic-messages" :> {"eager"} @@ "openai-codex-responses" :> {"strict"}
    @@ "google" :> {}

Described(api, reasons, levels, compat) ==
    [api |-> api, cap |-> "capability", reasons |-> reasons, levels |-> levels,
     compat |-> compat]

MCNoModel ==
    [api |-> Unset, cap |-> Unset, reasons |-> FALSE, levels |-> <<>>, compat |-> <<>>]

\* A vendor whose models disagree on the protocol, and one that only signs in.
MCCatalog ==
    "vendor" :> [models |-> "a" :> Described("openai-completions", TRUE,
                                             "off" :> "null" @@ "max" :> "wire",
                                             "store" :> "no")
                         @@ "b" :> Described("openai-responses", FALSE, <<>>, <<>>),
                 endpoint |-> TRUE]
    @@ "codex" :> [models |-> "a" :> Described("openai-codex-responses", TRUE, <<>>, <<>>),
                   endpoint |-> TRUE]

MCLocalRoutes == {<<"local-brain", "local-brain-v1">>}

Entry(efforts, cap, compat) == [efforts |-> efforts, cap |-> cap, compat |-> compat]
Thinking == "off" :> "silent" @@ "high" :> "wire" @@ "xhigh" :> "wire"

Written(p) ==
    [provider : {p}, api : {Unset, "openai-completions", "google"},
     endpoint : {p = "local-brain"},
     models : {<<>>, "a" :> Entry(Thinking, Unset, <<>>),
               "a" :> Entry(Unset, "named", "strict" :> "no")
               @@ "local-brain-v1" :> Entry(<<>>, Unset, <<>>)},
     overrides : {<<>>, "a" :> Entry(Thinking, "named", "strict" :> "no")},
     compat : {<<>>, "strict" :> "yes", "store" :> "yes", "eager" :> "yes"},
     cap : {"default"}, reasoning : {Unset, "high"}]

MCProfiles == Written("vendor") \cup Written("codex") \cup Written("local-brain")

-----------------------------------------------------------------------------
VARIABLE scene

First(p) == CHOOSE f \in Accepted : f.provider = p

Init ==
    /\ scene \in {"credentials", "discovery", "profiles", "overlay", "policy"}
    /\ mounted = TRUE /\ provider = [t \in Tasks |-> "anthropic"]
    /\ probe = (CHOOSE d \in Drafts : TRUE) /\ signalled = FALSE
    /\ source \in {First(p) : p \in IF scene = "profiles" THEN {"vendor", "codex", "local-brain"}
                                    ELSE {"vendor"}}
    /\ selected = "other"
    /\ registered \in IF scene = "overlay" THEN SUBSET Overlays ELSE {{}}
    /\ CredentialsInit /\ DiscoveryInit /\ ProfilesInit /\ AssemblyInit

ProfilesScene ==
    scene = "profiles" /\ UNCHANGED <<scene, credentialVars, discoveryVars, assemblyVars>>

Next ==
    \/ /\ scene = "credentials" /\ CredentialsNext
       /\ UNCHANGED <<scene, discoveryVars, profileVars, assemblyVars>>
    \/ /\ scene = "discovery" /\ DiscoveryNext
       /\ UNCHANGED <<scene, credentialVars, profileVars, assemblyVars>>
    \/ ProfilesScene /\ CallStep
    \/ \E f \in Accepted : ProfilesScene /\ Write(f)
    \/ /\ scene \in {"overlay", "policy"} /\ AssemblyNext
       /\ scene = "overlay" => \A p \in {"route", "agentConfig", "config"} : told'[p] = Untold
       /\ UNCHANGED <<scene, credentialVars, discoveryVars, profileVars>>

Spec ==
    /\ Init
    /\ [][Next]_<<scene, credentialVars, discoveryVars, profileVars, assemblyVars>>
    /\ DiscoveryFairness
=============================================================================
