--------------------------- MODULE PromptAssembly --------------------------
(***************************************************************************)
(* The prompt of a turn as two plugins of src/dsh leave it: the engineering*)
(* protocol (appendLocalBrainOverlay), which adds its section on the Local *)
(* Brain routes and takes it away on all others, and the memory policy     *)
(* (filterPersistentMemoryAssembly), which lets persistent memory through  *)
(* on the official DeepSeek routes alone.  The harness, external, gathers  *)
(* the assembly, maybe from that of an earlier turn on another route, and  *)
(* its listeners transform it after what lies inside them has returned.    *)
(***************************************************************************)
EXTENDS Naturals, Sequences

CONSTANTS
    Routes,         \* <<provider, model>> pairs
    LocalBrainRoutes, \* isLocalBrainRoute
    OfficialRoutes, \* isPersistentMemoryAllowedRoute
    Untold,         \* a place that names no provider, or no model
    Places,         \* positions of sections in a prompt
    End,            \* the position after all of them
    Overlay,        \* OVERLAY_SECTION
    Gap,            \* no section there
    OtherSections,  \* the other sections,
    MemorySections, \* those among them of meow-memory
    Items,          \* tools and contexts,
    MemoryItems,    \* those of meow-memory, by name or by source
    Overlays,       \* instances of the engineering protocol plugin
    Memory          \* the memory policy, one more listener

ASSUME RoutesAssumption ==
    LocalBrainRoutes \subseteq Routes /\ OfficialRoutes \subseteq Routes /\ Untold \notin Routes
ASSUME DisjointRoutes == LocalBrainRoutes \cap OfficialRoutes = {}
ASSUME PlacesAssumption == End \notin Places
ASSUME SectionsAssumption ==
    /\ MemorySections \subseteq OtherSections /\ MemoryItems \subseteq Items
    /\ Overlay \notin OtherSections /\ Gap \notin OtherSections \cup {Overlay}
ASSUME ListenersAssumption == Memory \notin Overlays

VARIABLES
    selected,     \* the route the turn runs on
    told,         \* what each place that routeIdentity looks at says of the route
    sections,     \* what stands at each position
    items,        \* the tools and contexts of the assembly
    gathered,     \* history: sections and items as the harness gathered them
    registered,   \* the instances whose config did not disable them
    pending,      \* listeners whose next() has not returned yet
    turn          \* gathering or returning

assemblyVars == <<selected, told, sections, items, gathered, registered, pending, turn>>

Positions == Places \cup {End}
Prompts == {s \in [Positions -> OtherSections \cup {Overlay, Gap}] : s[End] \in {Overlay, Gap}}

\* The places routeIdentity looks at, in order: the assembly's variables and its route,
\* the agent's options, the session's header, the agent's config and the assembly's.
TellingPlaces == <<"variables", "route", "options", "header", "agentConfig", "config">>
Tellers == {"variables", "route", "options", "header", "agentConfig", "config"}
ToldNothing == [p \in Tellers |-> Untold]

\* The harness tells the route of the turn, or nothing, in any of them but the session's
\* header, which names the route the session began on; that one is the selected route
\* when no place before it tells.
Tellings(r) ==
    [Tellers -> {r, Untold}]
    \cup {[t EXCEPT !["header"] = h] :
             t \in {u \in [Tellers -> {r, Untold}] :
                      \E p \in {"variables", "route", "options"} : u[p] = r},
             h \in Routes}

AssemblyInit ==
    /\ selected \in Routes
    /\ told = ToldNothing
    /\ sections = [q \in Positions |-> Gap]
    /\ items = {}
    /\ gathered = [sections |-> sections, items |-> items]
    /\ registered \in SUBSET Overlays
    /\ pending = {}
    /\ turn = "gathering"

-----------------------------------------------------------------------------
(* The harness. *)

\* A turn begins: sections are gathered, a copy of the overlay maybe among them, before
\* the one an earlier turn may have appended.  Every listener has called next().
Gather ==
    /\ turn = "gathering"
    /\ selected' \in Routes /\ told' \in Tellings(selected')
    /\ \E others \in [Places -> OtherSections \cup {Overlay, Gap}] :
        sections' = [q \in Positions |-> IF q = End THEN sections[End] ELSE others[q]]
    /\ items' \in SUBSET Items
    /\ gathered' = [sections |-> sections', items |-> items']
    /\ pending' = registered \cup {Memory}
    /\ turn' = "returning"
    /\ UNCHANGED registered

\* What was told is told anew.
NextTurn ==
    /\ turn = "returning" /\ pending = {}
    /\ turn' = "gathering"
    /\ told' = ToldNothing
    /\ sections' = [q \in Positions |-> IF q = End THEN sections[End] ELSE Gap]
    /\ items' = {}
    /\ gathered' = [sections |-> sections', items |-> {}]
    /\ UNCHANGED <<selected, registered, pending>>

-----------------------------------------------------------------------------
(* The engineering protocol. *)

Existing == {q \in Positions : sections[q] = Overlay}

BaseSections == [q \in Positions |-> IF sections[q] = Overlay THEN Gap ELSE sections[q]]

\* The variables of the assembly decide, untold or not.
Active == told["variables"] \in LocalBrainRoutes

\* Fault: the section is appended whatever is there.
AppendedBlindly ==
    IF Active THEN [sections EXCEPT ![End] = Overlay] ELSE BaseSections

\* appendLocalBrainOverlay.
Appended ==
    IF ~Active THEN BaseSections
    ELSE IF \E q \in Positions : Existing = {q} THEN sections
    ELSE [BaseSections EXCEPT ![End] = Overlay]

\* A listener of "system-prompt/assemble", once next() has returned.
AppendOverlay(o) ==
    /\ turn = "returning" /\ o \in pending \cap Overlays
    /\ sections' = Appended
    /\ pending' = pending \ {o}
    /\ UNCHANGED <<selected, told, items, gathered, registered, turn>>

-----------------------------------------------------------------------------
(* The memory policy. *)

\* What the first of some places that names both provider and model says.
FirstTold(places) ==
    IF \A i \in DOMAIN places : told[places[i]] = Untold THEN Untold
    ELSE told[places[CHOOSE i \in DOMAIN places :
                        /\ told[places[i]] # Untold
                        /\ \A j \in 1..(i - 1) : told[places[j]] = Untold]]

\* Fault: the session is asked first.
SessionFirst == FirstTold(<<"header">> \o TellingPlaces)

RouteIdentity == FirstTold(TellingPlaces)

\* An unknown route is denied.
Allowed == RouteIdentity \in OfficialRoutes

FilterMemory ==
    /\ turn = "returning" /\ Memory \in pending
    /\ pending' = pending \ {Memory}
    /\ IF Allowed THEN UNCHANGED <<sections, items>>
       ELSE /\ sections' = [q \in Positions |-> IF sections[q] \in MemorySections THEN Gap
                                                ELSE sections[q]]
            /\ items' = items \ MemoryItems
    /\ UNCHANGED <<selected, told, gathered, registered, turn>>

AssemblyNext ==
    \/ Gather
    \/ \E o \in Overlays : AppendOverlay(o)
    \/ FilterMemory
    \/ NextTurn

AssemblySpec == AssemblyInit /\ [][AssemblyNext]_assemblyVars
-----------------------------------------------------------------------------
(* Properties. *)

AssemblyTypeOK ==
    /\ selected \in Routes /\ told \in Tellings(selected)
    /\ sections \in Prompts /\ items \subseteq Items
    /\ gathered \in [sections : Prompts, items : SUBSET Items]
    /\ registered \subseteq Overlays
    /\ pending \subseteq registered \cup {Memory}
    /\ turn \in {"gathering", "returning"}

IsTold == \E p \in Tellers : told[p] # Untold

Assembled == turn = "returning" /\ pending = {}

\* Whatever copies were gathered, in whatever order the instances and the memory policy
\* return: an assembly that names its route has the protocol exactly once on a Local
\* Brain route and not at all elsewhere, and both plugins leave every other section but
\* memory's where it was.
OverlayFollowsRoute ==
    Assembled =>
        /\ registered # {} /\ told["variables"] # Untold =>
            IF selected \in LocalBrainRoutes THEN \E q \in Positions : Existing = {q}
            ELSE Existing = {}
        /\ \A q \in Positions : gathered.sections[q] \in OtherSections \ MemorySections =>
            sections[q] = gathered.sections[q]

\* No memory section, tool or context is left for a route that is not official, whatever
\* route the session began on, nor for one that is told nowhere; an official one that is
\* told somewhere keeps them all; other tools and contexts stay.
MemoryStaysOut ==
    Assembled =>
        /\ selected \notin OfficialRoutes \/ ~IsTold =>
            /\ \A q \in Positions : sections[q] \notin MemorySections
            /\ items = gathered.items \ MemoryItems
        /\ selected \in OfficialRoutes /\ IsTold =>
            /\ \A q \in Positions : gathered.sections[q] \in MemorySections =>
                sections[q] = gathered.sections[q]
            /\ items = gathered.items
=============================================================================
