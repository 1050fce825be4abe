--------------------------- MODULE AdapterRoutes ---------------------------
(***************************************************************************)
(* How apply in src/dsh/llm-pi-ai/index.js keeps the harness's registry of *)
(* routes and its directory of configurable providers in step with the     *)
(* settings.  Settings are validated where they are written; the change is *)
(* announced afterwards; and the harness may refuse an update.  Profiles   *)
(* are memoized by the identity of the settings object, so they are simply *)
(* a function of it here.                                                  *)
(***************************************************************************)

CONSTANTS
    Routes,       \* the provider routes
    Catalog,      \* those among them the installed pi-ai catalog ships
    Profiles,     \* the serviceable provider profiles
    NameOf,       \* NameOf[p]: displayName of profile p
    RetryOf,      \* RetryOf[p]: its retryPolicy
    Absent        \* no profile, no registration, no entry

ASSUME CatalogAssumption == Catalog \subseteq Routes
ASSUME FactsAssumption == DOMAIN NameOf = Profiles /\ DOMAIN RetryOf = Profiles
ASSUME AbsentAssumption == Absent \notin Profiles

VARIABLES
    settings,         \* the configured profile of each route
    announced,        \* onChange has run since the settings last changed
    registered,       \* registration is defined
    registry,         \* what the harness holds for each route
    registeredFacts,  \* what the adapter remembers to have registered
    directory,        \* the harness's directory of configurable providers
    directoryFacts,   \* what the adapter remembers to have declared
    refused,          \* history: the last update of the registry was refused
    directoryRefused  \* history: the last update of the directory was refused

registryVars == <<registered, registry, registeredFacts, refused>>
directoryVars == <<directory, directoryFacts, directoryRefused>>
routesVars == <<settings, announced, registryVars, directoryVars>>

Settings == [Routes -> Profiles \cup {Absent}]

\* registrationFacts: what the registry captures of each route.
Facts(s) ==
    [r \in Routes |->
        IF s[r] = Absent THEN Absent ELSE [name |-> NameOf[s[r]], retry |-> RetryOf[s[r]]]]

\* directoryEntries: the catalog's routes and the configured ones.
Entries(s) ==
    [r \in Routes |->
        IF s[r] # Absent THEN [name |-> NameOf[s[r]], declared |-> r \notin Catalog]
        ELSE IF r \in Catalog THEN [name |-> r, declared |-> FALSE]
        ELSE Absent]

NoRoutes(s) == \A r \in Routes : s[r] = Absent

\* apply has registered what the composition configures; if that is refused the
\* plugin does not mount.
RoutesInit ==
    /\ settings \in Settings
    /\ announced = TRUE
    /\ registered = ~NoRoutes(settings)
    /\ registry = Facts(settings)
    /\ registeredFacts = Facts(settings)
    /\ directory = Entries(settings)
    /\ directoryFacts = Entries(settings)
    /\ refused = FALSE
    /\ directoryRefused = FALSE

-----------------------------------------------------------------------------

\* Settings that resolveProfiles accepts are stored, and read from then on.
ChangeSettings ==
    /\ settings' \in Settings
    /\ announced' = FALSE
    /\ UNCHANGED <<registryVars, directoryVars>>

\* Fault: the facts are remembered before the harness has accepted them.
RegisterHastily ==
    /\ Facts(settings) # registeredFacts
    /\ registeredFacts' = Facts(settings)
    /\ registered' = TRUE
    /\ \/ registry' = Facts(settings) /\ refused' = FALSE
       \/ UNCHANGED registry /\ refused' = TRUE

(* ensureRegistrationFacts.  Its branch for an adapter that has nothing registered
   and no routes to register is the one RoutesInit takes when it mounts; after that
   the remembered facts of such an adapter are those of no routes, and it finds
   itself current. *)

RegistrationCurrent ==
    /\ Facts(settings) = registeredFacts
    /\ refused' = FALSE
    /\ UNCHANGED <<registered, registry, registeredFacts>>

\* registerAdapter or replace.
Register ==
    /\ Facts(settings) # registeredFacts
    /\ registered \/ ~NoRoutes(settings)
    /\ registered' = TRUE
    /\ registry' = Facts(settings)
    /\ registeredFacts' = Facts(settings)
    /\ refused' = FALSE

\* Another adapter owns one of the routes, for instance; the harness keeps what
\* it has.
RegistrationRefused ==
    /\ Facts(settings) # registeredFacts
    /\ registered \/ ~NoRoutes(settings)
    /\ refused' = TRUE
    /\ UNCHANGED <<registered, registry, registeredFacts>>

(* ensureDirectory. *)

DirectoryCurrent ==
    /\ Entries(settings) = directoryFacts
    /\ directoryRefused' = FALSE
    /\ UNCHANGED <<directory, directoryFacts>>

ReplaceDirectory ==
    /\ Entries(settings) # directoryFacts
    /\ directory' = Entries(settings)
    /\ directoryFacts' = Entries(settings)
    /\ directoryRefused' = FALSE

DirectoryRefused ==
    /\ Entries(settings) # directoryFacts
    /\ directoryRefused' = TRUE
    /\ UNCHANGED <<directory, directoryFacts>>

\* Fault: one try around both updates.
AnnouncedTogether ==
    /\ ~announced
    /\ announced' = TRUE
    /\ \/ /\ RegistrationCurrent \/ Register
          /\ DirectoryCurrent \/ ReplaceDirectory \/ DirectoryRefused
       \/ RegistrationRefused /\ UNCHANGED directoryVars
    /\ UNCHANGED settings

\* onChange: two updates, and a refusal of the first does not stop the second.
Announce ==
    /\ ~announced
    /\ announced' = TRUE
    /\ RegistrationCurrent \/ Register \/ RegistrationRefused
    /\ DirectoryCurrent \/ ReplaceDirectory \/ DirectoryRefused
    /\ UNCHANGED settings

RoutesNext == ChangeSettings \/ Announce

RoutesSpec == RoutesInit /\ [][RoutesNext]_routesVars

-----------------------------------------------------------------------------
(* Properties. *)

RoutesTypeOK ==
    /\ settings \in Settings
    /\ announced \in BOOLEAN /\ registered \in BOOLEAN
    /\ refused \in BOOLEAN /\ directoryRefused \in BOOLEAN
    /\ registry \in {Facts(s) : s \in Settings}
    /\ registeredFacts \in {Facts(s) : s \in Settings}
    /\ directory \in {Entries(s) : s \in Settings}
    /\ directoryFacts \in {Entries(s) : s \in Settings}

\* Once a change has been announced and the harness did not refuse it, the
\* registry holds exactly the configured routes with their current names and
\* retry policies, whatever was refused, reverted or emptied before.
RegistryKeepsUp == announced /\ ~refused => registry = Facts(settings)

\* Likewise the directory, even when the registry's update was refused.
DirectoryKeepsUp == announced /\ ~directoryRefused => directory = Entries(settings)
=============================================================================
