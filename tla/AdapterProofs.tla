--------------------------- MODULE AdapterProofs ---------------------------
(***************************************************************************)
(* Proofs about the adapter: its registry and directory follow the         *)
(* settings, and a call keeps to its settings, delivers nothing late and   *)
(* leaves no stream behind, for every set of routes, profiles and calls.   *)
(***************************************************************************)
EXTENDS AdapterCall, TLAPS

(***************************************************************************)
(* The registry and the directory.  Remembered facts are those the harness *)
(* accepted last; that is what makes comparing against them sound.         *)
(***************************************************************************)
RoutesInv ==
    /\ RoutesTypeOK
    /\ registry = registeredFacts
    /\ directory = directoryFacts
    /\ RegistryKeepsUp
    /\ DirectoryKeepsUp

LEMMA RoutesStart == RoutesInit => RoutesInv
BY DEF RoutesInit, RoutesInv, RoutesTypeOK, RegistryKeepsUp, DirectoryKeepsUp

LEMMA RegistryStep ==
    ASSUME RoutesInv, RegistrationCurrent \/ Register \/ RegistrationRefused,
           settings' = settings
    PROVE  /\ registry' = registeredFacts'
           /\ registry' \in {Facts(s) : s \in Settings}
           /\ registered' \in BOOLEAN /\ refused' \in BOOLEAN
           /\ ~refused' => registry' = Facts(settings')
<1>0. settings \in Settings /\ registry = registeredFacts
      /\ registry \in {Facts(s) : s \in Settings} /\ registered \in BOOLEAN
  BY DEF RoutesInv, RoutesTypeOK
<1>1. CASE RegistrationCurrent
  BY <1>0, <1>1 DEF RegistrationCurrent
<1>2. CASE Register
  BY <1>0, <1>2 DEF Register
<1>3. CASE RegistrationRefused
  BY <1>0, <1>3 DEF RegistrationRefused
<1> QED BY <1>1, <1>2, <1>3

LEMMA DirectoryStep ==
    ASSUME RoutesInv, DirectoryCurrent \/ ReplaceDirectory \/ DirectoryRefused,
           settings' = settings
    PROVE  /\ directory' = directoryFacts'
           /\ directory' \in {Entries(s) : s \in Settings}
           /\ directoryRefused' \in BOOLEAN
           /\ ~directoryRefused' => directory' = Entries(settings')
<1>0. settings \in Settings /\ directory = directoryFacts
      /\ directory \in {Entries(s) : s \in Settings}
  BY DEF RoutesInv, RoutesTypeOK
<1>1. CASE DirectoryCurrent
  BY <1>0, <1>1 DEF DirectoryCurrent
<1>2. CASE ReplaceDirectory
  BY <1>0, <1>2 DEF ReplaceDirectory
<1>3. CASE DirectoryRefused
  BY <1>0, <1>3 DEF DirectoryRefused
<1> QED BY <1>1, <1>2, <1>3

LEMMA RoutesStep == RoutesInv /\ [RoutesNext]_routesVars => RoutesInv'
<1> SUFFICES ASSUME RoutesInv, [RoutesNext]_routesVars PROVE RoutesInv'
  OBVIOUS
<1>1. CASE ChangeSettings
  BY <1>1 DEF ChangeSettings, registryVars, directoryVars, RoutesInv, RoutesTypeOK,
              RegistryKeepsUp, DirectoryKeepsUp
<1>2. CASE Announce
  <2>1. settings' = settings /\ settings' \in Settings /\ announced' = TRUE
    BY <1>2 DEF Announce, RoutesInv, RoutesTypeOK
  <2>2. /\ registry' = registeredFacts'
        /\ registry' \in {Facts(s) : s \in Settings}
        /\ registered' \in BOOLEAN /\ refused' \in BOOLEAN
        /\ ~refused' => registry' = Facts(settings')
    BY <1>2, <2>1, RegistryStep DEF Announce
  <2>3. /\ directory' = directoryFacts'
        /\ directory' \in {Entries(s) : s \in Settings}
        /\ directoryRefused' \in BOOLEAN
        /\ ~directoryRefused' => directory' = Entries(settings')
    BY <1>2, <2>1, DirectoryStep DEF Announce
  <2> QED
    BY <2>1, <2>2, <2>3 DEF RoutesInv, RoutesTypeOK, RegistryKeepsUp, DirectoryKeepsUp
<1>3. CASE UNCHANGED routesVars
  BY <1>3 DEF routesVars, registryVars, directoryVars, RoutesInv, RoutesTypeOK,
              RegistryKeepsUp, DirectoryKeepsUp
<1> QED BY <1>1, <1>2, <1>3 DEF RoutesNext

\* Calls only read the settings and the registry.
LEMMA CallsLeaveRoutes == [Next]_vars => [RoutesNext]_routesVars
<1> SUFFICES ASSUME [Next]_vars PROVE [RoutesNext]_routesVars
  OBVIOUS
<1>1. CASE RoutesNext
  BY <1>1
<1>2. ASSUME NEW c \in Calls,
             \/ \E r \in Routes : Start(c, r)
             \/ CallStep(c) \/ Provider(c) \/ IdleFires(c) \/ Settles(c) \/ Abort(c)
      PROVE  UNCHANGED routesVars
  BY <1>2 DEF Start, CallStep, Provider, IdleFires, Settles, Abort, Unserviceable, AskForKey,
       KeyResolved, KeyMissing, ContextFails, OpenStream, GiveUp, TooLate, Yield, Exhausted,
       Pull, Stop, Throw, ContentArrives, TerminalArrives, SourceEnds, sharedVars
<1>3. CASE Describe \/ UNCHANGED vars
  BY <1>3 DEF Describe, vars, sharedVars
<1> QED BY <1>1, <1>2, <1>3 DEF Next

LEMMA RoutesAlways == Spec => []RoutesInv
<1>1. Init => RoutesInv
  BY RoutesStart DEF Init
<1>2. RoutesInv /\ [Next]_vars => RoutesInv'
  BY RoutesStep, CallsLeaveRoutes
<1> QED BY <1>1, <1>2, PTL DEF Spec

\* The registry of routes never stays behind settings whose announcement the
\* harness accepted.
THEOREM RegistryFollows == Spec => []RegistryKeepsUp
<1>1. RoutesInv => RegistryKeepsUp
  BY DEF RoutesInv
<1> QED BY <1>1, RoutesAlways, PTL

\* Nor does the directory, even when the registry's update was refused.
THEOREM DirectoryFollows == Spec => []DirectoryKeepsUp
<1>1. RoutesInv => DirectoryKeepsUp
  BY DEF RoutesInv
<1> QED BY <1>1, RoutesAlways, PTL

(***************************************************************************)
(* The calls.  What a call has in hand is determined by how far its        *)
(* stream has got: content while the terminal event is out, then usage,    *)
(* then finish, then the end.  The collection the adapter remembers, and   *)
(* the one a call holds, have the providers of the profiles they were made *)
(* of; a new snapshot is never set up in a collection that a call holds.   *)
(***************************************************************************)
CallTypes ==
    /\ settings \in Settings
    /\ memo \in Snapshots
    /\ collection \in [Collections -> Settings]
    /\ stage \in [Calls -> Stages]
    /\ route \in [Calls -> Routes]
    /\ snapshot \in [Calls -> Snapshots]
    /\ used \in [Calls -> SUBSET Settings]
    /\ aborted \in [Calls -> BOOLEAN] /\ idleFired \in [Calls -> BOOLEAN]
    /\ upstream \in [Calls -> {"none", "open", "closed"}]
    /\ blocks \in [Calls -> 0..MaxBlocks]
    /\ terminal \in [Calls -> {"none", "finish", "end"}]
    /\ result \in [Calls -> Chunks \cup {"end"}]
    /\ last \in [Calls -> Chunks]
    /\ outcome \in [Calls -> Outcomes]

BeforeStream(c) == stage[c] \in {"prepared", "credential", "context"}

Consistent(snap) == collection[snap.models] = snap.profiles

KeepsToItsSnapshot(c) ==
    /\ \A s, t \in used[c] : s = t
    /\ stage[c] # "idle" => Consistent(snapshot[c]) /\ used[c] \subseteq {snapshot[c].profiles}

InStep(c) ==
    /\ BeforeStream(c) => upstream[c] = "none" /\ terminal[c] = "none" /\ last[c] = "none"
    /\ stage[c] = "idle" => upstream[c] # "open"
    /\ terminal[c] # "none" => upstream[c] = "closed"
    /\ stage[c] = "reading" => terminal[c] = "none" /\ last[c] \in {"none", "content"}
    /\ stage[c] = "arrived" =>
          \/ result[c] = "content" /\ terminal[c] = "none" /\ last[c] \in {"none", "content"}
          \/ result[c] = "usage" /\ terminal[c] = "finish" /\ last[c] \in {"none", "content"}
          \/ result[c] = "finish" /\ terminal[c] = "end" /\ last[c] = "usage"
          \/ result[c] = "end" /\ terminal[c] = "end" /\ last[c] = "finish"
    /\ stage[c] = "yielded" =>
          /\ ~idleFired[c]
          /\ \/ last[c] = "content" /\ terminal[c] = "none"
             \/ last[c] = "usage" /\ terminal[c] = "finish"
             \/ last[c] = "finish" /\ terminal[c] = "end"
    /\ outcome[c] = "finished" => stage[c] = "idle" /\ last[c] = "finish"

SnapshotInv == Consistent(memo) /\ \A c \in Calls : KeepsToItsSnapshot(c)

CallInv == CallTypes /\ SnapshotInv /\ \A c \in Calls : InStep(c)

LEMMA CallsStart == Init => CallInv
<1> SUFFICES ASSUME Init PROVE CallInv
  OBVIOUS
<1>1. settings \in Settings
  BY DEF Init, RoutesInit
<1>2. /\ memo \in Snapshots /\ memo.profiles = settings /\ memo.models \in Collections
      /\ collection = [m \in Collections |-> settings]
  BY <1>1 DEF Init, CallInit, Snapshots
<1>3. CallTypes
  BY <1>1, <1>2, MaxBlocksAssumption DEF Init, CallInit, CallTypes, Stages, Chunks, Outcomes
<1>4. SnapshotInv
  BY <1>2 DEF Init, CallInit, SnapshotInv, Consistent, KeepsToItsSnapshot
<1>5. ASSUME NEW c \in Calls PROVE InStep(c)
  BY <1>5 DEF Init, CallInit, InStep, BeforeStream
<1> QED BY <1>3, <1>4, <1>5 DEF CallInv

\* Taking a snapshot leaves alone every collection that a call holds.
LEMMA SnapshotTaken ==
    ASSUME CallInv, TakesSnapshot
    PROVE  /\ memo' \in Snapshots /\ memo'.profiles = settings
           /\ collection' \in [Collections -> Settings]
           /\ Consistent(memo)'
           /\ \A c \in Calls :
                 stage[c] # "idle" =>
                    collection'[snapshot[c].models] = collection[snapshot[c].models]
<1>1. /\ settings \in Settings /\ memo \in Snapshots /\ Consistent(memo)
      /\ collection \in [Collections -> Settings]
  BY DEF CallInv, CallTypes, SnapshotInv
<1>2. CASE memo.profiles = settings /\ UNCHANGED <<memo, collection>>
  BY <1>1, <1>2 DEF Consistent
<1>3. ASSUME NEW m \in Collections, ~Held(m),
             collection' = [collection EXCEPT ![m] = settings],
             memo' = [profiles |-> settings, models |-> m]
      PROVE  /\ memo' \in Snapshots /\ memo'.profiles = settings
             /\ collection' \in [Collections -> Settings]
             /\ Consistent(memo)'
             /\ \A c \in Calls :
                   stage[c] # "idle" =>
                      collection'[snapshot[c].models] = collection[snapshot[c].models]
  <2>1. memo' \in Snapshots /\ memo'.profiles = settings /\ memo'.models = m
    BY <1>1, <1>3 DEF Snapshots
  <2>2. collection' \in [Collections -> Settings] /\ collection'[m] = settings
    BY <1>1, <1>3
  <2>3. ASSUME NEW c \in Calls, stage[c] # "idle"
        PROVE  collection'[snapshot[c].models] = collection[snapshot[c].models]
    <3>1. snapshot[c].models \in Collections /\ snapshot[c].models # m
      BY <1>3, <2>3 DEF CallInv, CallTypes, Snapshots, Held
    <3> QED BY <1>1, <1>3, <3>1
  <2> QED BY <2>1, <2>2, <2>3 DEF Consistent
<1> QED BY <1>2, <1>3 DEF TakesSnapshot

\* A step that takes no snapshot and uses nothing keeps calls to their snapshots.
LEMMA SnapshotsKept ==
    ASSUME CallInv, UNCHANGED <<memo, collection, snapshot, used>>,
           \A c \in Calls : stage[c] = "idle" => stage'[c] = "idle"
    PROVE  SnapshotInv'
BY DEF CallInv, SnapshotInv, Consistent, KeepsToItsSnapshot

\* What a call uses is of its snapshot.
LEMMA UsesItsSnapshot ==
    ASSUME CallInv, NEW c \in Calls, stage[c] # "idle", Uses(c)
    PROVE  used' = used \/ used' = [used EXCEPT ![c] = {snapshot[c].profiles}]
<1>1. /\ used \in [Calls -> SUBSET Settings]
      /\ used[c] \subseteq {snapshot[c].profiles}
      /\ collection[snapshot[c].models] = snapshot[c].profiles
  BY DEF CallInv, CallTypes, SnapshotInv, KeepsToItsSnapshot, Consistent
<1>2. used[c] \cup {snapshot[c].profiles, collection[snapshot[c].models]}
        = {snapshot[c].profiles}
  BY <1>1
<1> QED BY <1>1, <1>2 DEF Uses

LEMMA StartStep ==
    ASSUME CallInv, NEW c \in Calls, NEW r \in Routes, Start(c, r)
    PROVE  CallInv'
<1>1. /\ memo' \in Snapshots /\ memo'.profiles = settings
      /\ collection' \in [Collections -> Settings]
      /\ Consistent(memo)'
      /\ \A d \in Calls :
            stage[d] # "idle" =>
               collection'[snapshot[d].models] = collection[snapshot[d].models]
  BY SnapshotTaken DEF Start
<1>2. settings \in Settings /\ settings' = settings
  BY DEF CallInv, CallTypes, Start, routesVars
<1>3. CallTypes'
  BY <1>1, <1>2, MaxBlocksAssumption DEF CallInv, CallTypes, Start, Goes, Gets, Stages,
       Chunks, Outcomes
<1>4. ASSUME NEW d \in Calls PROVE InStep(d)'
  BY <1>4 DEF CallInv, CallTypes, InStep, BeforeStream, Start, Goes, Gets
<1>5. ASSUME NEW d \in Calls PROVE KeepsToItsSnapshot(d)'
  <2>1. CASE d = c
    <3>1. snapshot'[d] = memo' /\ used'[d] = {settings}
      BY <2>1 DEF Start, CallInv, CallTypes
    <3> QED BY <1>1, <3>1 DEF KeepsToItsSnapshot, Consistent
  <2>2. CASE d # c
    <3>1. snapshot'[d] = snapshot[d] /\ used'[d] = used[d] /\ stage'[d] = stage[d]
      BY <2>2 DEF Start, Goes, CallInv, CallTypes
    <3>2. KeepsToItsSnapshot(d)
      BY DEF CallInv, SnapshotInv
    <3> QED BY <1>1, <3>1, <3>2 DEF KeepsToItsSnapshot, Consistent
  <2> QED BY <2>1, <2>2
<1> QED BY <1>1, <1>3, <1>4, <1>5 DEF CallInv, SnapshotInv

LEMMA PreludeStep ==
    ASSUME CallInv, NEW c \in Calls,
           \/ Unserviceable(c) \/ AskForKey(c) \/ KeyResolved(c) \/ KeyMissing(c)
           \/ ContextFails(c) \/ OpenStream(c)
    PROVE  CallInv'
<1>1. used' = used \/ used' = [used EXCEPT ![c] = {snapshot[c].profiles}]
  <2>1. CASE AskForKey(c) \/ OpenStream(c)
    BY <2>1, UsesItsSnapshot DEF AskForKey, OpenStream
  <2>2. CASE \/ Unserviceable(c) \/ KeyResolved(c) \/ KeyMissing(c) \/ ContextFails(c)
    BY <2>2 DEF Unserviceable, KeyResolved, KeyMissing, ContextFails
  <2> QED BY <2>1, <2>2
<1>2. used' \in [Calls -> SUBSET Settings]
  <2>1. used \in [Calls -> SUBSET Settings] /\ snapshot[c].profiles \in Settings
    BY DEF CallInv, CallTypes, Snapshots
  <2> QED BY <1>1, <2>1
<1>3. CallTypes'
  BY <1>2 DEF CallInv, CallTypes, Unserviceable, AskForKey, KeyResolved, KeyMissing,
       ContextFails, OpenStream, Ends, Goes, Reported, routesVars, sharedVars, Stages, Outcomes
<1>4. ASSUME NEW d \in Calls PROVE InStep(d)'
  BY <1>4 DEF CallInv, CallTypes, InStep, BeforeStream, Unserviceable, AskForKey, KeyResolved,
       KeyMissing, ContextFails, OpenStream, Ends, Goes, Reported
<1>5. /\ UNCHANGED <<memo, collection, snapshot>>
      /\ \A d \in Calls : stage[d] = "idle" => stage'[d] = "idle"
  BY DEF CallInv, CallTypes, Unserviceable, AskForKey, KeyResolved, KeyMissing,
       ContextFails, OpenStream, Ends, Goes, sharedVars
<1>6. SnapshotInv'
  <2>1. CASE used' = used
    BY <1>5, <2>1, SnapshotsKept
  <2>2. CASE used' = [used EXCEPT ![c] = {snapshot[c].profiles}]
    <3>1. ASSUME NEW d \in Calls PROVE KeepsToItsSnapshot(d)'
      <4>1. KeepsToItsSnapshot(d) /\ used'[d] \in {used[d], {snapshot[d].profiles}}
        BY <2>2 DEF CallInv, CallTypes, SnapshotInv
      <4> QED BY <1>5, <4>1 DEF KeepsToItsSnapshot, Consistent
    <3> QED BY <1>5, <3>1 DEF CallInv, SnapshotInv, Consistent
  <2> QED BY <1>1, <2>1, <2>2
<1> QED BY <1>3, <1>4, <1>6 DEF CallInv

LEMMA ProviderStep ==
    ASSUME CallInv, NEW c \in Calls,
           \/ ContentArrives(c) \/ TerminalArrives(c) \/ SourceEnds(c)
           \/ IdleFires(c) \/ GiveUp(c) \/ Settles(c) \/ Abort(c)
    PROVE  CallInv'
<1>1. CallTypes'
  <2>1. CASE ContentArrives(c)
    <3>1. blocks[c] \in 0..MaxBlocks /\ blocks[c] < MaxBlocks
      BY <2>1 DEF CallInv, CallTypes, ContentArrives
    <3>2. blocks[c] + 1 \in 0..MaxBlocks
      BY <3>1, MaxBlocksAssumption
    <3>3. blocks' = [blocks EXCEPT ![c] = blocks[c] + 1]
      BY <2>1 DEF ContentArrives
    <3>4. blocks' \in [Calls -> 0..MaxBlocks]
      BY <3>2, <3>3 DEF CallInv, CallTypes
    <3>5. /\ stage' = [stage EXCEPT ![c] = "arrived"]
          /\ result' = [result EXCEPT ![c] = "content"]
          /\ UNCHANGED <<settings, memo, collection, route, snapshot, used, aborted, idleFired,
                          upstream, terminal, last, outcome>>
      BY <2>1 DEF ContentArrives, Goes, Gets, routesVars, sharedVars
    <3> QED
      BY <3>4, <3>5 DEF CallInv, CallTypes, Stages, Chunks
  <2>2. CASE \/ TerminalArrives(c) \/ SourceEnds(c) \/ IdleFires(c) \/ GiveUp(c)
             \/ Settles(c) \/ Abort(c)
    BY <2>2 DEF CallInv, CallTypes, TerminalArrives, SourceEnds, IdleFires, GiveUp, Settles,
         Abort, Goes, Gets, routesVars, sharedVars, Stages, Chunks
  <2> QED BY <2>1, <2>2
<1>2. ASSUME NEW d \in Calls PROVE InStep(d)'
  BY <1>2 DEF CallInv, CallTypes, InStep, BeforeStream, ContentArrives, TerminalArrives,
       SourceEnds, IdleFires, GiveUp, Settles, Abort, Goes, Gets
<1>3. /\ UNCHANGED <<memo, collection, snapshot, used>>
      /\ \A d \in Calls : stage[d] = "idle" => stage'[d] = "idle"
  BY DEF CallInv, CallTypes, ContentArrives, TerminalArrives, SourceEnds, IdleFires, GiveUp,
       Settles, Abort, Goes, sharedVars
<1> QED BY <1>1, <1>2, <1>3, SnapshotsKept DEF CallInv

LEMMA LoopStep ==
    ASSUME CallInv, NEW c \in Calls,
           \/ TooLate(c) \/ Yield(c) \/ Exhausted(c) \/ Pull(c) \/ Stop(c) \/ Throw(c)
    PROVE  CallInv'
<1>1. CallTypes'
  BY DEF CallInv, CallTypes, InStep, TooLate, Yield, Exhausted, Pull, Stop, Throw, Ends, Goes,
       Gets, Reported, routesVars, sharedVars, Stages, Chunks, Outcomes
<1>2. ASSUME NEW d \in Calls PROVE InStep(d)'
  BY <1>2 DEF CallInv, CallTypes, InStep, BeforeStream, TooLate, Yield, Exhausted, Pull, Stop,
       Throw, Ends, Goes, Gets, Reported
<1>3. /\ UNCHANGED <<memo, collection, snapshot, used>>
      /\ \A d \in Calls : stage[d] = "idle" => stage'[d] = "idle"
  BY DEF CallInv, CallTypes, TooLate, Yield, Exhausted, Pull, Stop, Throw, Ends, Goes,
       sharedVars
<1> QED BY <1>1, <1>2, <1>3, SnapshotsKept DEF CallInv

LEMMA CallsAlways == Spec => []CallInv
<1>1. CallInv /\ [Next]_vars => CallInv'
  <2> SUFFICES ASSUME CallInv, [Next]_vars PROVE CallInv'
    OBVIOUS
  <2>1. CASE RoutesNext /\ UNCHANGED <<memo, collection, callVars>>
    <3>1. settings' \in Settings
      BY <2>1 DEF RoutesNext, ChangeSettings, Announce, CallInv, CallTypes
    <3>2. SnapshotInv'
      BY <2>1, SnapshotsKept DEF callVars
    <3> QED BY <2>1, <3>1, <3>2 DEF callVars, CallInv, CallTypes, InStep, BeforeStream
  <2>2. ASSUME NEW c \in Calls, NEW r \in Routes, Start(c, r) PROVE CallInv'
    BY <2>2, StartStep
  <2>3. ASSUME NEW c \in Calls,
               CallStep(c) \/ Provider(c) \/ IdleFires(c) \/ Settles(c) \/ Abort(c)
        PROVE  CallInv'
    BY <2>3, PreludeStep, ProviderStep, LoopStep DEF CallStep, Provider
  <2>4. CASE Describe
    <3>1. /\ memo' \in Snapshots /\ collection' \in [Collections -> Settings]
          /\ Consistent(memo)'
          /\ \A c \in Calls :
                stage[c] # "idle" =>
                   collection'[snapshot[c].models] = collection[snapshot[c].models]
      BY <2>4, SnapshotTaken DEF Describe
    <3>2. UNCHANGED <<settings, callVars>>
      BY <2>4 DEF Describe, routesVars
    <3>3. SnapshotInv'
      BY <3>1, <3>2 DEF CallInv, SnapshotInv, KeepsToItsSnapshot, Consistent, callVars
    <3> QED BY <3>1, <3>2, <3>3 DEF CallInv, CallTypes, InStep, BeforeStream, callVars
  <2>5. CASE UNCHANGED vars
    <3>1. SnapshotInv'
      BY <2>5, SnapshotsKept DEF vars, sharedVars, callVars
    <3> QED
      BY <2>5, <3>1 DEF vars, sharedVars, routesVars, callVars, CallInv, CallTypes, InStep,
         BeforeStream
  <2> QED BY <2>1, <2>2, <2>3, <2>4, <2>5 DEF Next
<1> QED BY <1>1, CallsStart, PTL DEF Spec

\* All variables keep their types.
THEOREM TypeCorrect == Spec => []TypeOK
<1>1. RoutesInv /\ CallInv => TypeOK
  BY DEF RoutesInv, CallInv, CallTypes, TypeOK
<1> QED BY <1>1, RoutesAlways, CallsAlways, PTL

\* The credential, the options and the providers a call uses are those of the settings it
\* was made under, whatever snapshots the adapter takes while it waits.
THEOREM CallKeepsItsSettings == Spec => []OneSettingsPerCall
<1>1. CallInv => OneSettingsPerCall
  BY DEF CallInv, SnapshotInv, KeepsToItsSnapshot, OneSettingsPerCall
<1> QED BY <1>1, CallsAlways, PTL

\* Nothing is delivered once the idle timer has fired.
THEOREM NothingLate == Spec => []NoLateChunk
<1>1. CallInv => NoLateChunk
  BY DEF CallInv, InStep, NoLateChunk
<1> QED BY <1>1, CallsAlways, PTL

\* Every way out of a call closes the provider's stream.
THEOREM StreamsAreClosed == Spec => []NothingLeftOpen
<1>1. CallInv => NothingLeftOpen
  BY DEF CallInv, InStep, NothingLeftOpen
<1> QED BY <1>1, CallsAlways, PTL

(***************************************************************************)
(* The order of what the consumer gets.  What a read has in hand fits what *)
(* was delivered last (InStep), and only Start and Yield change that.      *)
(***************************************************************************)
InOrder(c) ==
    /\ last'[c] = "finish" /\ last[c] # "finish" => last[c] = "usage"
    /\ last[c] \in {"usage", "finish"} /\ last'[c] # last[c] => last'[c] \in {"finish", "none"}

LEMMA YieldInOrder ==
    ASSUME CallInv, NEW c \in Calls, Yield(c), NEW d \in Calls
    PROVE  InOrder(d)
<1>1. last' = [last EXCEPT ![c] = result[c]] /\ last \in [Calls -> Chunks]
  BY DEF Yield, CallInv, CallTypes
<1>2. CASE d = c
  <2>1. last'[d] = result[d]
    BY <1>1, <1>2
  <2>2. \/ result[d] = "content" /\ last[d] \in {"none", "content"}
        \/ result[d] = "usage" /\ last[d] \in {"none", "content"}
        \/ result[d] = "finish" /\ last[d] = "usage"
    BY <1>2 DEF Yield, CallInv, InStep
  <2> QED BY <2>1, <2>2 DEF InOrder
<1>3. CASE d # c
  BY <1>1, <1>3 DEF InOrder
<1> QED BY <1>2, <1>3

LEMMA EveryStepInOrder ==
    ASSUME CallInv, [Next]_vars, NEW d \in Calls
    PROVE  InOrder(d)
<1>1. CASE UNCHANGED last
  BY <1>1 DEF InOrder
<1>2. ASSUME NEW c \in Calls, NEW r \in Routes, Start(c, r) PROVE InOrder(d)
  <2>1. last' = [last EXCEPT ![c] = "none"] /\ last \in [Calls -> Chunks]
    BY <1>2 DEF Start, CallInv, CallTypes
  <2>2. last'[d] \in {"none", last[d]}
    BY <2>1
  <2> QED BY <2>2 DEF InOrder
<1>3. ASSUME NEW c \in Calls,
             CallStep(c) \/ Provider(c) \/ IdleFires(c) \/ Settles(c) \/ Abort(c)
      PROVE  InOrder(d)
  <2>1. CASE Yield(c)
    BY <2>1, YieldInOrder
  <2>2. CASE ~Yield(c)
    BY <1>1, <1>3, <2>2 DEF CallStep, Provider, Unserviceable, AskForKey, KeyResolved,
         KeyMissing, ContextFails, OpenStream, GiveUp, TooLate, Exhausted, Pull, Stop, Throw,
         ContentArrives, TerminalArrives, SourceEnds, IdleFires, Settles, Abort
  <2> QED BY <2>1, <2>2
<1>4. CASE \/ RoutesNext /\ UNCHANGED <<memo, collection, callVars>>
           \/ Describe \/ UNCHANGED vars
  BY <1>1, <1>4 DEF Describe, callVars, vars
<1> QED BY <1>2, <1>3, <1>4 DEF Next

\* A call that ends in order has delivered its finish chunk last; the usage comes just
\* before it, and no content after either.
THEOREM FinishComesLast == Spec => EndsWithFinish
<1>1. CallInv => \A c \in Calls : outcome[c] = "finished" => last[c] = "finish"
  BY DEF CallInv, InStep
<1>2. CallInv /\ [Next]_vars =>
        [\A c \in Calls :
           /\ last'[c] = "finish" /\ last[c] # "finish" => last[c] = "usage"
           /\ last[c] \in {"usage", "finish"} /\ last'[c] # last[c] =>
                  last'[c] \in {"finish", "none"}]_vars
  BY EveryStepInOrder DEF InOrder
<1> QED BY <1>1, <1>2, CallsAlways, PTL DEF Spec, EndsWithFinish
=============================================================================
