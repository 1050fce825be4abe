# Verification of the Local Brain relay and its DSH adapter

TLA+ models of vc-local-brain, the TLC runs that check them, and TLAPS proofs.
Paths below are relative to `src/` of the repository; `PROJECT.json` maps every
definition to the lines it models.

## 1. The system

A DSH harness talks to one local llama-server through two layers: the pi-ai
adapter inside the harness (JavaScript), and an HTTP relay in front of the server
(Python) that sizes each request, admits one at a time and restarts the server at
another context size when that is needed.

| Component | State | Operations | Made correct by |
|---|---|---|---|
| Admission gate, `RequestAdmissionGate` (`runtime/local_brain_runtime.py`) | `_active`, `_next_ticket`, `_queue` under one condition variable | acquire with timed waits and a cancellation poll, release | one request at a time, in order of arrival; no lost wakeup; a vanished client leaves the queue |
| Sizing rules (`runtime/local_brain_context.py`) | none | reserve, required context, tier, capacity, effective `max_tokens` | what is forwarded fits the tier, explicit limits are kept |
| Context manager, `ContextManager` and `prepare_chat_request` | current context, times of the last request and switch, pressure streak | decision, record_request, record_switch | the above across switches, crashes and manual restarts; switches to a smaller tier keep their distance |
| Supervision, `LocalBrainRuntime` (`probe_server`, `switch_context`, `_wait_for_context`) | the shared `current_context`, one probe per thread | three-read probe, restart, wait, single rollback | restarts never overlap or kill work, the wanted tier serves, requests end, faults are recovered from |
| `scripts/Start-LocalQwen.ps1` | the llama-server process | stop, wait, start, throw | (with supervision) |
| Relay handler (`runtime/dsh_local_qwen_relay.py`, `runtime/local_brain_contract.py`) | one request per thread | read, admit, validate, prepare, send, stream, fail | the slot follows the handler, nothing is sent twice, a stalled upload blocks nobody (a withheld GET body does, section 5), errors are answered |
| Adapter: settings and routes (`dsh/llm-pi-ai/index.js`, `apply`) | remembered registration facts and directory entries | settings change, `onChange`, refused updates | registry and directory catch up with the settings |
| Adapter: calls (`PiAiAdapter`, `toStreamChunks`) | a snapshot, a watchdog and a stream per call | prepare, credential, context, stream, timeout, abort, stop | one snapshot per call, nothing late, nothing left open, every call ends |
| Adapter: history (`replay.js`, `context.js` sections) | none between calls; replay metadata lives in the harness's history | two converters, replay or degrade | answers come back as given, results are named, nothing is lost, contexts only grow |
| Adapter: models and providers of a route (`model-catalog`, `provider` and `config` sections, `modelInfo`, `prepareCall`) | the profile in force, the snapshot of a prepared call | resolve a profile over the catalog, refuse it, describe a model, send | declared levels are offered, every switch takes effect, no limit nobody asked for, prepared calls are honoured |
| Adapter: stored credentials and sign-ins (`auth` and `login` sections) | one record per provider, held exclusively by whoever modifies it | sign-in, sign-out, refresh | a success was stored, a refresh replaces only what it was made from |
| Adapter: discovery (`discovery` section) | one probe: what was read and kept of a reply | catalog answer, fetch, bounded read, abort | bounded memory, no body left open, an abort ends it |
| Engineering protocol plugin, memory route isolation (`dsh/plugins`, `dsh/meow-memory-route-isolation.mjs`) | none; the assembly belongs to the harness | two transforms of one prompt | the protocol once on local routes and nowhere else, memory on official routes only |
| `scripts/restart-adaptive.sh`, benchmark | a process id | a restart script for the host, a measuring tool | not modelled (section 6) |

How they interact. A handler thread of the relay reads a chat body, acquires the
gate, normalizes the request, and calls `prepare_chat_request`, which refreshes
the server's state with a probe, decides the tier, and calls `switch_context` when
the wanted tier is not served. `switch_context` detaches a helper script and polls.
`/health` and `/vc-local-brain/status` probe without the gate and write the same
`current_context`, without a lock. The adapter is the relay's client; it awaits
credentials and attachments, so settings may change in the middle of a call. Inside
the harness, the adapter keeps sign-ins in the harness's credential records, through a
store pi-ai reads and refreshes, and the two prompt plugins listen to the same event.

What is hard here: threads woken or timing out in any order; a probe that is three
reads of a server that changes between them; a detached helper whose moment nobody
controls; exceptions on every path through a held slot; an idle timer racing a
chunk; settings changing across awaits; metadata that outlives the content it
describes; a refresh that holds a record over a network round trip; defaults of three
layers that meet in one field. `PROJECT.json` lists the hazards, each at its line with the properties
that cover it.

## 2. The modules

**FifoSlot** is what admission promises: a slot, a bounded waiting line, and
clients that disconnect. **AdmissionGate** is the code: one action per region run
under the lock. `Enqueue` and `Recheck` run the loop body once and park again or
leave, exactly as `acquire` does between two releases of the lock; `WaitTimeout` is
the timed wait's expiry, after which the thread competes for the lock; `Release`
is the `finally` block. `awake` threads are those notified or timed out that have not
run yet. The refinement maps the holder, the tickets in queue order and the
disconnected clients.

**ContextPolicy** holds the arithmetic as operators over token counts. **ContextManager**
extends it with the manager's fields and a clock. `Prepare` is everything up to
`ensure_server_available`; then `switch_context` looks at the server, and finds the wanted tier
(`Available`), a busy server (`SwitchDeferred`) or something else (`SwitchBegins`); a switch ends in
`SwitchSucceeds`, or in `SwitchFails` and `RollBackEnds`; `Send` is the relay's `urlopen`. Between any
two of these steps the server may die or be replaced at any context (`ServerDies`,
`Restarted`): by the helper that is awaited, by one that was given up, or by hand. `replaced` is a history
variable: the server has changed since it was last looked at for this request.

**Supervisor** opens the look and the switch: probes read by read (`ReadHealth`, `ReadSlots`,
`ReadModels`), `Check`, `RunRestart`, `Poll`/`PollAnswered`/`WaitExpires`, and
`RunRollback`; the helper as two steps, `HelperStops` and `HelperStarts`, that happen
whenever they like, or fail within the 0.2 s in which `RunRestart` still watches it (`RestartFails`,
the old server stopped by then or not); the server (`Loaded`, `ServerDies`, `OrphanEnds`); monitors. The
policy is reduced to the tier a request needs. Faults are drawn from `FaultKinds`
and bounded by `MaxFaults`.

**Relay** is one HTTP request per thread with every exit of the handler, over the slot
of FifoSlot (`INSTANCE`), which AdmissionGate implements. What preparation does is one of
three outcomes here. A POST is read before admission (`UploadDone`); a GET or OPTIONS request that
declares a body (`getWithBody`) is read inside the slot (`BodyRead`), as `_forward` does.

**AdapterRoutes** is the settings side of `apply`: `ChangeSettings` stores settings that
`resolveProfiles` accepts, `Announce` is `onChange` with its two independently guarded
updates, each current, done or refused by the harness. Profiles are a function of
the settings object because the code memoizes by identity. **AdapterCall** extends it with
calls. A snapshot is the profiles and a collection of models, which is an object with an identity:
`current()` returns the one it remembers (`memo`) or sets up a new one (`TakesSnapshot`), and a call
keeps the one it was given. `Describe` stands for the other operations that take snapshots. `used`
is a history variable: whose settings a call has used so far. `Start` takes the snapshot, `AskForKey`
awaits the credential of its profile, `OpenStream` looks the model, the options and the provider up again
after the await; it to `Throw` are the loop of `streamWithSnapshot` with `toStreamChunks` and the watchdog below
it. The race of `watchdog.next` is the interleaving of `IdleFires` with the arrivals;
`TooLate` is the check of the signal after a read has come back; `draining` is
`iterator.return` waiting for the read that was given up.

**History** is a conversation that grows message by message and is converted, one message
a step, at any time. Answers are stored as `toPiReplayState` and the harness store them,
and may lose a block with or without its metadata, gain one, be ascribed to another
model, have metadata of another adapter or none, or have a block rewritten in place; one of these
happens to a record, at most. `withImages` is the converter
`streamWithSnapshot` chooses: from the first image on it is the other one. Texts are
sequences of pieces, so joining is concatenation. The harness's image offloading is
assumed to stay below its byte budget; above it, an earlier image becomes a text
and the prefix property does not apply. What recurses into nested tool results is a
function on the constant `Results`, the results that occur in the turns or in each other;
`Picked` is a filter.

**ModelProfiles** is one configured route: what a profile says, laid over the installed
catalog by `resolveRouteModels` (`Entries`, `Api`, `Cap`, `Reasoning`, `Compat`), accepted or
refused (`Serviceable`), and given a provider (`Speaks`). Its three actions are a
profile being written, `PrepareCall` and `Stream`. Levels are pi-ai's seven; a model's map is a
function from some levels to a wire value or null, and what it leaves out is pi-ai's to
default, which it does differently below and above `xhigh`. Numbers, names and
endpoints are present or absent: `contextWindow`, `input` and `name` are layered as `Cap` is.

**Credentials** is `credentialStoreFrom` under several tasks. `Stores` is `writableStore`, `Enter`
to `Store`, `Remove`, `AlreadyFresh` and `Refreshed` are `modify` and `delete` between taking and
leaving the record; that the service lets one task at a time into a record, up to a wait
limit, is external, and so is pi-ai's refresh inside the callback. Credentials carry the
number they were issued under and the number of the grant they were made from.

**Discovery** is `discoverModels`, from the draft to the listing, with `readBounded` read by read.
The endpoint answers, breaks off, sends on or falls silent as it likes.

**PromptAssembly** is one prompt over turns that change their route. A listener's action is what
it does after `next()` has returned, so the order of actions is the order in which the
listeners were registered, which nobody fixes. The route is told, or not, in the six places `routeIdentity` looks at
(`TellingPlaces`), and anew in each turn. What the harness gathers may hold a section of
an earlier turn or copies of it.

Modules named `MC...` instantiate these for TLC. Operators marked "Fault" are plausible
bugs of the definition after them; no specification uses them, they show that the
properties can fail.

MCServices puts the last four side by side. They share no variable and no action, so the
variable `scene` picks the one that runs and the others stay as they began; each
property is about one of them. The prompt has two scenes: `overlay`, with instances of the protocol beside
the memory policy and three of the six places telling the route, and `policy`, with all six and no
instance. MCAdapter has a scene of settings without calls, with more routes and profiles, and
one of calls.

## 3. The runs

Passing:

| Run | Instance | Shows |
|---|---|---|
| Gate | 4 threads, 2 waiting places, 5 tickets | `MutualExclusion`, `NoLostWakeup`, `FirstComeFirstServed`; waiting ends through notifications alone (`EveryWaiterLeaves`, which holds without fairness of the timeout) and for a vanished client through polling alone (`GoneWaiterLeaves`); `ImplementsFifoSlot` |
| ContextManager | 3 tiers, prompts and limits on both sides of each boundary, clock to 5, a manual context between tiers | what was checked and then generates fits (`FitsServedTier`), `BudgetHonoured`, and a server that has not changed since the decision is not taken down for a smaller tier soon after a switch, whatever the decision was called (`NoFlapping`) |
| SupervisorSafety | 3 tiers, a monitor, 2 helpers, 2 faults (crash, failed load, abandoned generation) | `GeneratesAtTarget`, `OneRestartAtATime`, `EnsuredServerStays`, `NoWorkIsKilled`; once faults stop, the next request is served (`ServedOnceFaultsStop`) |
| SupervisorTermination | 2 tiers, every kind of fault, slow starts, a server found loading | `RequestEnds` |
| RelayRequests | 3 threads of every kind, 1 waiting place | `SlotFollowsHandler`, `AtMostOnce`; every request ends whose own upload ends, unless somebody in the slot withholds the body it declared (`StalledUploadBlocksNobody`) |
| Adapter | scene "settings": 2 routes, one of the catalog, 3 profiles (of one name and two retry policies, and of another name), no call; scene "calls": 1 route, 2 profiles, 2 collections, 1 call at a time, 1 content chunk | `RegistryKeepsUp`, `DirectoryKeepsUp`; `OneSettingsPerCall`, `NoLateChunk`, `EndsWithFinish`, `NothingLeftOpen`, `EveryCallEnds` |
| History | every conversation of up to 3 messages out of 40 (3 answers in all their states, 5 user turns, a system message, an image of an assistant) | `ResultsAreNamed`, `AnswersComeBack`, `NothingIsLost`, `PrefixIsStable` |
| Services | 2 tasks, an addressable and an unaddressable provider, 3 credentials; 4 units of reply for a ceiling of 2; 3 configured routes with every accepted profile of 72 written for each; 3 routes, 3 positions, 2 overlay instances with 3 telling places or none with 6 | `SignInsAreKept`, `RefreshReplacesItsGrant`; `BodyWithinCeiling`, `AbortEndsProbe`; `DeclaredLevelsAreOffered`, `SwitchesTakeEffect`, `CapOnlyWhenNamed`, `PreparedCallsAreHonoured`; `OverlayFollowsRoute`, `MemoryStaysOut` |

Violated, each a disagreement between the code and what the repository says of it:

| Run | Property | What happens |
|---|---|---|
| FalseReady | `EnsuredServerStays` | a server found loading finishes before the helper stops it; the wait takes it for the restarted one and the helper stops it under the request |
| RollbackOverlap | `OneRestartAtATime` | the helper cannot be started, so the server was never stopped; the rollback's helper is still pending when the next request may start another |
| StaleMonitor | `PolicyUsesActualContext` | a monitor that probed before a restart overwrites the context after the request's own refresh |
| Unenveloped | `EveryRequestAnswered` | an exception of neither caught family ends a request without a response |

SupervisorSafety starts with no server loading and leaves out failing helpers and
failing reads for exactly these reasons: with them its properties do not hold, and
the violation runs show why.

Bounds. Each is a constant. Four threads let the head of a line leave while others wait behind
it and a newcomer arrives; five tickets reuse a thread. `MaxTime` is the interval plus
the idle time of the ContextManager run, so both kinds of demotion can follow a
switch. Two faults let a recovery fail once and be repeated. One call at a time is enough
in Adapter because calls share only the settings and the remembered snapshot; two collections are the
one the call holds and the one `current()` sets up meanwhile; one content
chunk distinguishes content before, at and after the timer. Three messages are a
call, its result and a later reuse of the id, in any order. Two tasks and three
credentials are a sign-in, a refresh of what it stored and another sign-in or refresh
that overtakes it. A reply of twice the ceiling, in chunks of one or two units, passes it in
every way; declared lengths are absent, honest, short and long. Of the three profiled
routes one is a vendor whose models disagree on the protocol, one only signs in, and one
is the Local Brain's, which the catalog does not know. Two overlay instances return before,
between and after the memory policy. `MaxTickets`, `MaxTime`, `MaxFaults`, `MaxBlocks`,
`MaxMessages`, `MaxIssued` and `MaxSent` are guards of the models only.

### Fairness

- AdmissionGate: threads get the lock they wait for, and a waiter's timed wait
  expires. `ReleaseFairness` is the assumption that the active request ends; the sockets of
  the relay have no timeout on the client's side, so it means that clients read.
- Supervisor: threads run, a started helper and a loading model get somewhere, an
  abandoned generation ends, time passes (each HTTP read has a timeout, and the wait
  its 240 s).
- Relay: handlers run and clients read their responses. Any body may be withheld for ever (there is
  no fairness on `UploadDone` or `BodyRead`), also one that is read inside the slot:
  that is the exception `StalledUploadBlocksNobody` names (`BodyWithheld`). A closed connection ends the
  reading.
- AdapterCall: the provider may fall silent (no fairness on its events), but an aborted
  stream settles; credentials and attachments come or fail; the timer fires only while
  a read is outstanding; a consumer goes on or stops.
- Discovery: the endpoint owes nothing; the platform ends a fetch, and a read, whose signal
  has fired, and the cancelling of a body settles. The fairness is stated through `Heard`, which
  is the signal handed to `fetch`.
- Credentials, ModelProfiles and PromptAssembly have safety properties only.

## 4. The proofs

| Module | Theorems |
|---|---|
| AdmissionGateProofs | `TypeCorrect`, `OneActiveRequest`, `FreeSlotIsNoticed`, `NobodyOvertakes` |
| GateRefinement | `GateIsASlot` |
| ContextManagerProofs | `TypeCorrect`, `ForwardedRequestFits`, `OutputBudgetHonoured`, `DemotionsKeepTheirDistance` |
| RelayProofs | `TypeCorrect`, `SlotHeld`, `SentOnce` |
| SupervisorProofs | `TypeCorrect`, `GeneratesAtItsTarget`, `RestartsDoNotOverlap`, `EnsuredServersStay`, `WorkIsNotKilled` |
| AdapterProofs | `RegistryFollows`, `DirectoryFollows`, `TypeCorrect`, `CallKeepsItsSettings`, `NothingLate`, `StreamsAreClosed`, `FinishComesLast` |
| HistoryProofs | `TypeCorrect`, `NamesCarryOver`, `SignaturesComeBack`, `AnswersSurvive`, `PrefixStays` |
| ServicesProofs | Discovery: `DiscoveryTypeCorrect`, `RepliesAreBounded`; ModelProfiles: `LevelsAreOffered`, `SwitchesHold`, `CapsAreNamed`, `CallsAreHonoured`; PromptAssembly: `AssemblyTypeCorrect`, `OneOverlay`, `MemoryIsIsolated`; Credentials: `CredentialsTypeCorrect`, `SuccessMeansStored`, `RefreshIsExclusive` |

They hold for every value of the constants that satisfies the named ASSUMEs: any number of
threads and places in the queue, any tiers, margins and times, any helpers, monitors and
faults, any routes, catalogs, profiles and calls, any answers, turns and length of a
conversation, any providers and tasks, any ceiling, any sections and plugin instances. Only
the four safety theorems of SupervisorProofs and `PrefixStays` have a hypothesis of their own,
`Dependable` and `ConvertersAgree`.

- The gate. The inductive invariant is the conjunction of the type invariant, mutual exclusion,
  no lost wakeup and `QueueInv`: the queue holds the tickets of the waiting threads,
  each once, strictly increasing and below the next ticket. The last part is what the code relies on
  without saying so: removing a ticket by value and looking at the head
  mean the same only because tickets are distinct and in order.
- The refinement. `GateIsASlot` is `Spec => Slot!Spec`, the safety half of
  `ImplementsFifoSlot`. The line is the only sequence of threads whose tickets are those in
  the queue (`LineListsOwners`, from `QueueInv`), so each step is settled by naming the
  sequence it leaves: `Enqueue` appends or turns away at once, `Recheck` serves the
  head, removes the one who left, or changes nothing the slot can see. That the slot is
  free when the head is served follows from `MutualExclusion`.
- The context manager. What was sized in `Prepare` stays true of the request until it ends: its
  `max_tokens` fits the decided tier (`SizedInv`; a lemma on `ChooseTier` bounds the chosen tier by the
  request). A request that is approved and whose server has not been replaced since is on the decided tier
  (`ServedInv`); `Available` and `SwitchSucceeds` establish it, and `Restarted` and `ServerDies` mark the
  request, whatever it is about to do. Distances are kept because `lastRequestAt` is never before
  `lastSwitchAt`, and because a decision for a smaller tier than the server's was made at its
  distance from the last switch while the server has not changed (`DistanceInv`): one made about
  another server may ask for anything.
- The relay, over FifoSlot. The slot follows the handler because the line has no thread
  twice (`Distinct`): otherwise a thread that leaves would still be waiting. Sending
  once needs the stage: nothing has been sent before `await`, and no head before `relay`.
- The supervisor. `TypeCorrect` holds whatever fails. The other four assume `Dependable`: probes
  and the helper script work, the helper can be started, no server is loading at the start and
  none is slower than the wait. The server may crash or fail to load, clients may leave and
  monitors may write the shared context as often as they like. The runs FalseReady and
  RollbackOverlap show that without it they do not hold. `RestartInv` follows one restart: a
  helper is under way only for a handler that waits (`OnlyWaitersRestart`); before it has
  stopped the old server, that one is idle and cannot be mistaken for the awaited one, and after it there is none
  (`RestartIsForAwaited`); so a probe that shows the awaited tier saw the new server
  (`SeenIsRestarted`), and a deadline that passes leaves nothing that could still start
  (`ExpiredIsHopeless`), which is what the rollback rests on. At the head of `switch_context`
  only a crash can outdate the probe (`CheckIsCurrent`), so what is forwarded runs at its own
  tier (`ForwardIsServed`). Monitors appear in no conjunct: what they write can only change
  which sufficient tier is wanted, never what is ensured. TLC found `RestartInv` invariant on the instance of
  SupervisorSafety before it was proved.
- The adapter. `RoutesInv` says that what is remembered is what the harness holds, also after a
  refusal. `SnapshotInv` says of the collection the adapter remembers, and of each one a call holds, that its
  providers are those of the profiles it was set up for, and of a call that all it has used are
  the profiles of its snapshot: a new collection is never one that is held (`SnapshotTaken`), so the
  steps of other operations leave it alone (`SnapshotsKept`). `CallInv` relates how far the stream is to what was delivered last and to
  what is left of the terminal event. `FinishComesLast` adds nothing to it: how far the stream is
  decides which chunk may follow which (`InOrder`).
- The history. `HistoryInv`: the names the loop remembers are those the whole context built so far
  gives (`Follow`); as many answers are in the context as in the history converted so far; and an answer that has the
  same number of answers before it as a message of the history was made from that
  message (`Made`). So each step only has to say what it appends: a turn brings neither answers nor
  calls (`TurnIsAdded`), an assistant message brings one answer, pairs it with its
  own message because the counts grow strictly (`AnswerIsPaired`), and brings its calls, of which the
  last with an id decides (`AnswerIsAdded`). `ConvertedAnswer` is the content of
  replay and degradation: `EditedAnswer` goes through everything that may happen to a
  record and shows that metadata which fits is that of the blocks it stands beside. A block
  removed without its metadata is caught by the lengths, and `Usable` without that comparison
  is the mutant of `AnswersComeBack`; a block rewritten in place is caught by nothing, and keeps the
  signature of the block it was. Facts about every position of a
  sequence are proved by looking at the least counterexample (`LeastNumber`).
- What one call sends and the next. `PrefixStays` adds two parts to `HistoryInv` (together
  `PrefixInv`): the context being built is what a run over the messages behind the loop makes
  (`Converting`), and what was last sent is what a run over some beginning of the history made, by the
  converter that beginning asks for (`SentIsMade`). At `Send` the two runs are compared. They agree as far
  as the shorter goes (`RunsAgree`) unless the converter has changed; then it changed from text to
  images, the messages of the shorter hold no image, and both converters add the same for those
  (`ConvertersAddTheSame`). That last step needs `ConvertersAgree`: of a turn, and of a tool
  result, that shows no image, both converters make the same text.
- Models and providers. `ProfilesInv`: a call under way was prepared against an accepted profile that
  has its model, and the harness was told what that profile says (`PreparedIsHeld`);
  what is refused or sent was asked of the same snapshot (`AnswerIsHeld`). What a profile
  resolves to is proved of every accepted profile by lemmas on the operators: `DeclaredLevels`
  (a declared set of levels is what pi-ai will support), `ApiIsSpoken`, `SwitchLayers` (a
  switch is the model's own, else the route's where the protocol takes it, else the catalog's). They need two
  assumptions the schemas give: an absent model names no protocol (`NoModelAssumption`), and a
  declared level has a text or nothing, never null (`ProfilesAssumption`).
- Credentials. `InsideHolds` says that whoever is inside `modifyRecord` holds the record and works
  on what is stored now; it is what exclusion gives, and a refresh replaces its own grant
  because of it. A sign-in writes over anything, so what it stores must not claim to come from
  another grant (`SignInsAreFresh`), and `SuccessMeansStored` needs that a task which has
  not ended has said nothing yet.
- Discovery. What is kept never exceeds what was counted (`KeptIsCounted`), and the count is
  compared before the chunk is kept.
- The prompt. `IdentityIsSelected`: whichever place names a route first, it is the turn's.
  `AppendedPrompt` settles the transform in its three cases; after it, one returned
  instance suffices (`OneInstanceSuffices`), because neither another instance nor the memory
  policy moves the overlay, and `PolicyFilters` because the overlay brings no memory back.

Only model-checked:

- Every liveness property (`EveryWaiterLeaves`, `GoneWaiterLeaves`, `ServedOnceFaultsStop`,
  `RequestEnds`, `StalledUploadBlocksNobody`, `EveryCallEnds`, `AbortEndsProbe`) and the hand-over
  in `ImplementsFifoSlot`: they rest on fairness, which needs ENABLED.
- `ConvertersAgree`, the hypothesis of `PrefixStays`. For results nested to any depth it is an induction
  over the data; TLC evaluates it for the turns and results of MCHistory (`AgreementAssumption`).

## 5. Observations that are not findings

No document contradicts these; they follow from the models and the code.

- `post_compaction` is TRUE in tests only: production calls `decision(required)`, so demotion
  for low pressure, and the tier `docs/CURRENT_STATE.md:35` expects after a
  compaction, are not reached by it. The model lets callers pass both values.
- A configured streak of 0 is accepted and switches the hysteresis off; the model assumes a
  positive one (`StreakAssumption`).
- Idleness counts from when a request was forwarded, so a long generation counts as idle.
- A demotion that fails refuses a request the server could have served.
- A generation that was abandoned refuses the next request, also at the tier being served.
- When `/slots` fails, `/v1/models` tells the context but not whether a slot works.
- The cancellation poll cannot see that a client has gone behind bytes nobody has read.
- GET and OPTIONS bodies are read while the slot is held, without a timeout: a client that declares a
  body and withholds it blocks all others until it goes.
- Nothing looks at the server again between `switch_context` (`runtime/local_brain_runtime.py:588` or
  `:571`) and `urlopen` (`runtime/dsh_local_qwen_relay.py:285`). A server that is replaced in that
  window, by hand or by a helper that was given up, gets a request sized for its predecessor. Both
  context manager properties that could fail by it say so (`replaced`).
- In the same way a server that is replaced between decision and check is restarted at the tier decided for
  its predecessor, maybe soon after the last switch.
- A block of an answer that is rewritten in place keeps its number and type, which is all
  `readReplayState` and `replayedAssistant` compare: it is replayed with the old signature.
- Profiles are compared by identity in the code and by value in the model: profiles written anew that equal
  the old ones make the code set up a new collection, which holds the same providers.
- That the harness lets nobody delete a credential record while another modifies it is an assumption
  about its service; `credentialStoreFrom` only calls `deleteRecord`.
- A refused registry update is not repeated until the settings change again.
- A provider that ignored an abort would hold its call in `iterator.return`.
- In a user message with tool results, the text is sent before the results.
- A sign-in is completed with the provider before `NO_CREDENTIAL_STORE` is thrown: the grant
  exists and is lost.
- A catalog model without any configured switch keeps the catalog's compatibility block also on
  a route whose protocol was overridden; with one, the block is dropped.
- A profile's default level that a model does not support is described as no default, while
  each call that relies on it is refused.
- A reply that is not 2xx leaves its body unread, and one that breaks off in the middle reaches
  the caller as the platform's own error.
- The overlay looks at the variables of the assembly alone, the memory policy also at the agent and
  the session: an assembly that does not name its route has no overlay on a local route.

## 6. Not modelled

- Prompt estimation and response observation: inputs and diagnostics of what is modelled.
- Field-by-field validation of requests and of the numbers and names in a profile, and the
  parsing of the runtime configuration: pure checks without state, whose outcome is one of
  the model's choices (`Rejected`, `Serviceable`) or an ASSUME.
- Ambient discovery of credentials (`authContextFrom`), the notices and prompts of a sign-in
  (`relay`, `restate`) and the rows of a listing: renamings without control.
- Image preparation and offloading, which belong to the harness.
- `scripts/restart-adaptive.sh`: one pass of a shell script over processes, ports and health
  codes of the host, none of which is in the repository. The PID it checks before the kill may
  have been reused by then, and it takes any health code for readiness.
- The benchmark, which is not part of the running system.

What would come next: the composition of ContextManager's steps with Supervisor's protocol,
so that a probe and a wait which ensure the tier are shown to implement `Available` and
`SwitchSucceeds`, from `RestartInv`.
