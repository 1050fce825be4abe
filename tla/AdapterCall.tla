---------------------------- MODULE AdapterCall ----------------------------
(***************************************************************************)
(* One model call through the pi-ai adapter (PiAiAdapter and toStreamChunks*)
(* in src/dsh/llm-pi-ai/index.js): the snapshot it starts with, the        *)
(* credential it awaits, the stream it relays under an idle watchdog, and  *)
(* every way it ends, while settings change under it.  A snapshot is the   *)
(* profiles and a collection of models; the collection is an object with   *)
(* an identity, which the adapter remembers and calls refer to.            *)
(***************************************************************************)
EXTENDS AdapterRoutes, Naturals

CONSTANTS
    Calls,        \* the concurrent calls
    Collections,  \* identities of model collections, more than there are calls
    MaxBlocks     \* bound on the chunks of content in an answer

ASSUME MaxBlocksAssumption == MaxBlocks \in Nat

VARIABLES
    memo,         \* this.snapshot: the profiles it was taken of, and its collection
    collection,   \* the settings whose providers a collection holds
    stage,        \* where a call is
    route,        \* the route it was made on
    snapshot,     \* the snapshot it was made with
    used,         \* history: the settings in force when it was made, and those behind
                  \* everything it has used since
    aborted,      \* options.signal: its caller has given it up
    idleFired,    \* the watchdog's signal
    upstream,     \* the provider's stream: none, open or closed
    blocks,       \* how many chunks of content the provider has sent
    terminal,     \* what is left of the terminal event: none, finish or end
    result,       \* what watchdog.next has in hand
    last,         \* the chunk the consumer got last
    outcome       \* how the call ended

callVars == <<stage, route, snapshot, used, aborted, idleFired, upstream,
              blocks, terminal, result, last, outcome>>
sharedVars == <<routesVars, memo, collection>>
vars == <<sharedVars, callVars>>

Stages == {"idle", "prepared", "credential", "context", "reading", "arrived", "yielded",
           "draining", "returning"}
Chunks == {"none", "content", "usage", "finish"}
Outcomes == {"none", "finished", "stopped", "TIMEOUT", "ABORTED", "error"}
Snapshots == [profiles : Settings, models : Collections]

\* Registering the adapter has asked it for its providers.
CallInit ==
    /\ memo \in [profiles : {settings}, models : Collections]
    /\ collection = [m \in Collections |-> settings]
    /\ stage = [c \in Calls |-> "idle"]
    /\ route \in [Calls -> Routes]
    /\ snapshot = [c \in Calls |-> memo]
    /\ used = [c \in Calls |-> {}]
    /\ aborted = [c \in Calls |-> FALSE]
    /\ idleFired = [c \in Calls |-> FALSE]
    /\ upstream = [c \in Calls |-> "none"]
    /\ blocks = [c \in Calls |-> 0]
    /\ terminal = [c \in Calls |-> "none"]
    /\ result = [c \in Calls |-> "none"]
    /\ last = [c \in Calls |-> "none"]
    /\ outcome = [c \in Calls |-> "none"]

Init == RoutesInit /\ CallInit

-----------------------------------------------------------------------------

\* Somebody could still use the collection; others are garbage.
Held(m) == \E c \in Calls : stage[c] # "idle" /\ snapshot[c].models = m

\* Fault: the providers of changed profiles are set in the collection there is.
RebuildsInPlace ==
    /\ memo' = [memo EXCEPT !.profiles = settings]
    /\ collection' = [collection EXCEPT ![memo.models] = settings]

\* current(): what is remembered, if it is of the current profiles, else a new collection.
\* Profiles that are written anew and equal the old ones count as the same here.
TakesSnapshot ==
    \/ memo.profiles = settings /\ UNCHANGED <<memo, collection>>
    \/ /\ memo.profiles # settings
       /\ \E m \in Collections :
             /\ ~Held(m)
             /\ collection' = [collection EXCEPT ![m] = settings]
             /\ memo' = [profiles |-> settings, models |-> m]

\* providerInfo, providerRetryPolicy, listModels, resolveModel.
Describe == TakesSnapshot /\ UNCHANGED <<routesVars, callVars>>

Goes(c, s) == stage' = [stage EXCEPT ![c] = s]
Gets(c, r) == result' = [result EXCEPT ![c] = r]

\* prepareCall or stream: the harness calls on a route it has registered, and the
\* snapshot is taken at once, before the stream is first read.
Start(c, r) ==
    /\ stage[c] = "idle"
    /\ registry[r] # Absent
    /\ Goes(c, "prepared")
    /\ route' = [route EXCEPT ![c] = r]
    /\ TakesSnapshot
    /\ snapshot' = [snapshot EXCEPT ![c] = memo']
    /\ used' = [used EXCEPT ![c] = {settings}]
    /\ aborted' = [aborted EXCEPT ![c] = FALSE]
    /\ idleFired' = [idleFired EXCEPT ![c] = FALSE]
    /\ upstream' = [upstream EXCEPT ![c] = "none"]
    /\ blocks' = [blocks EXCEPT ![c] = 0]
    /\ terminal' = [terminal EXCEPT ![c] = "none"]
    /\ Gets(c, "none")
    /\ last' = [last EXCEPT ![c] = "none"]
    /\ outcome' = [outcome EXCEPT ![c] = "none"]
    /\ UNCHANGED routesVars

\* The call is over.
Ends(c, o) ==
    /\ Goes(c, "idle")
    /\ outcome' = [outcome EXCEPT ![c] = o]

\* NO_ADAPTER, UNKNOWN_MODEL, UNSUPPORTED_OPTION, UNSUPPORTED_REASONING_EFFORT.
Unserviceable(c) ==
    /\ stage[c] = "prepared"
    /\ Ends(c, "error")
    /\ UNCHANGED <<sharedVars, route, snapshot, used, aborted, idleFired,
                   upstream, blocks, terminal, result, last>>

\* The profile a call looks up in its snapshot, and the model it gets from the collection.
Uses(c) ==
    used' = [used EXCEPT ![c] =
                @ \cup {snapshot[c].profiles, collection[snapshot[c].models]}]

\* resolveApiKey is asked for the credential the snapshot's profile names.
AskForKey(c) ==
    /\ stage[c] = "prepared"
    /\ snapshot[c].profiles[route[c]] # Absent
    /\ Goes(c, "credential")
    /\ Uses(c)
    /\ UNCHANGED <<sharedVars, route, snapshot, aborted, idleFired, upstream,
                   blocks, terminal, result, last, outcome>>

KeyResolved(c) ==
    /\ stage[c] = "credential"
    /\ Goes(c, "context")
    /\ UNCHANGED <<sharedVars, route, snapshot, used, aborted, idleFired,
                   upstream, blocks, terminal, result, last, outcome>>

\* MISSING_CREDENTIAL, thrown outside the try that translates errors.
KeyMissing(c) ==
    /\ stage[c] = "credential"
    /\ Ends(c, "error")
    /\ UNCHANGED <<sharedVars, route, snapshot, used, aborted, idleFired,
                   upstream, blocks, terminal, result, last>>

\* How a failure inside the try is reported: by the signals, as they are by now.
Reported(c) ==
    IF idleFired[c] THEN "TIMEOUT" ELSE IF aborted[c] THEN "ABORTED" ELSE "error"

\* toPiContext throws, or reading an attachment is aborted.
ContextFails(c) ==
    /\ stage[c] = "context"
    /\ Ends(c, Reported(c))
    /\ UNCHANGED <<sharedVars, route, snapshot, used, aborted, idleFired,
                   upstream, blocks, terminal, result, last>>

\* streamSimple, with the profile's options and headers and through the provider the
\* collection holds by now, and the first watchdog.next.
OpenStream(c) ==
    /\ stage[c] = "context"
    /\ Uses(c)
    /\ upstream' = [upstream EXCEPT ![c] = "open"]
    /\ Goes(c, "reading")
    /\ UNCHANGED <<sharedVars, route, snapshot, aborted, idleFired,
                   blocks, terminal, result, last, outcome>>

-----------------------------------------------------------------------------
(* toStreamChunks, asked for the next chunk. *)

ContentArrives(c) ==
    /\ stage[c] = "reading"
    /\ blocks[c] < MaxBlocks
    /\ blocks' = [blocks EXCEPT ![c] = @ + 1]
    /\ Gets(c, "content")
    /\ Goes(c, "arrived")
    /\ UNCHANGED <<sharedVars, route, snapshot, used, aborted, idleFired,
                   upstream, terminal, last, outcome>>

\* Done or error, an abort included: usage now, finish on the next read.
TerminalArrives(c) ==
    /\ stage[c] = "reading"
    /\ upstream' = [upstream EXCEPT ![c] = "closed"]
    /\ terminal' = [terminal EXCEPT ![c] = "finish"]
    /\ Gets(c, "usage")
    /\ Goes(c, "arrived")
    /\ UNCHANGED <<sharedVars, route, snapshot, used, aborted, idleFired,
                   blocks, last, outcome>>

\* The source just ends: STREAM_CLOSED.
SourceEnds(c) ==
    /\ stage[c] = "reading"
    /\ upstream' = [upstream EXCEPT ![c] = "closed"]
    /\ Goes(c, "returning")
    /\ UNCHANGED <<sharedVars, route, snapshot, used, aborted, idleFired,
                   blocks, terminal, result, last, outcome>>

-----------------------------------------------------------------------------
(* The watchdog; it is armed while a read is outstanding. *)

\* Fault: nothing watches the reads.
NeverFires(c) == FALSE

IdleFires(c) ==
    /\ stage[c] = "reading"
    /\ ~idleFired[c]
    /\ idleFired' = [idleFired EXCEPT ![c] = TRUE]
    /\ UNCHANGED <<sharedVars, route, snapshot, used, aborted, upstream,
                   blocks, stage, terminal, result, last, outcome>>

\* watchdog.next gives the read up; the generator is still waiting for its event.
GiveUp(c) ==
    /\ stage[c] = "reading"
    /\ idleFired[c]
    /\ Goes(c, "draining")
    /\ UNCHANGED <<sharedVars, route, snapshot, used, aborted, idleFired,
                   upstream, blocks, terminal, result, last, outcome>>

\* The aborted provider stream settles the read nobody waits for.
Settles(c) ==
    /\ stage[c] = "draining"
    /\ upstream' = [upstream EXCEPT ![c] = "closed"]
    /\ Goes(c, "returning")
    /\ UNCHANGED <<sharedVars, route, snapshot, used, aborted, idleFired,
                   blocks, terminal, result, last, outcome>>

-----------------------------------------------------------------------------
(* The loop of streamWithSnapshot. *)

\* A read came back after the watchdog had fired: it is dropped.
TooLate(c) ==
    /\ stage[c] = "arrived"
    /\ idleFired[c]
    /\ Goes(c, "returning")
    /\ UNCHANGED <<sharedVars, route, snapshot, used, aborted, idleFired,
                   upstream, blocks, terminal, result, last, outcome>>

\* Fault: what arrives is delivered, whether the watchdog has fired or not.
YieldAnyway(c) ==
    /\ stage[c] = "arrived"
    /\ result[c] # "end"
    /\ last' = [last EXCEPT ![c] = result[c]]
    /\ Goes(c, "yielded")
    /\ UNCHANGED <<sharedVars, route, snapshot, used, aborted, idleFired,
                   upstream, blocks, terminal, result, outcome>>

Yield(c) ==
    /\ stage[c] = "arrived"
    /\ ~idleFired[c]
    /\ result[c] # "end"
    /\ last' = [last EXCEPT ![c] = result[c]]
    /\ Goes(c, "yielded")
    /\ UNCHANGED <<sharedVars, route, snapshot, used, aborted, idleFired,
                   upstream, blocks, terminal, result, outcome>>

Exhausted(c) ==
    /\ stage[c] = "arrived"
    /\ ~idleFired[c]
    /\ result[c] = "end"
    /\ Ends(c, "finished")
    /\ UNCHANGED <<sharedVars, route, snapshot, used, aborted, idleFired,
                   upstream, blocks, terminal, result, last>>

\* Fault: the generator returns with the usage.
PullPastFinish(c) ==
    /\ stage[c] = "yielded"
    /\ IF terminal[c] = "none"
       THEN Goes(c, "reading") /\ UNCHANGED <<result, terminal>>
       ELSE /\ Goes(c, "arrived")
            /\ Gets(c, "end")
            /\ UNCHANGED terminal
    /\ UNCHANGED <<sharedVars, route, snapshot, used, aborted, idleFired,
                   upstream, blocks, last, outcome>>

\* The consumer asks for the next chunk.  What the terminal event leaves to say is
\* there at once.
Pull(c) ==
    /\ stage[c] = "yielded"
    /\ IF terminal[c] = "none"
       THEN Goes(c, "reading") /\ UNCHANGED <<result, terminal>>
       ELSE /\ Goes(c, "arrived")
            /\ Gets(c, terminal[c])
            /\ terminal' = [terminal EXCEPT ![c] = "end"]
    /\ UNCHANGED <<sharedVars, route, snapshot, used, aborted, idleFired,
                   upstream, blocks, last, outcome>>

\* Fault: the consumer's departure is not passed on.
WalksAway(c) ==
    /\ stage[c] = "yielded"
    /\ Ends(c, "stopped")
    /\ UNCHANGED <<sharedVars, route, snapshot, used, aborted, idleFired,
                   upstream, blocks, terminal, result, last>>

\* It stops instead: the upstream is aborted and the generator closed, which closes
\* the provider's stream.
Stop(c) ==
    /\ stage[c] = "yielded"
    /\ Ends(c, "stopped")
    /\ upstream' = [upstream EXCEPT ![c] = "closed"]
    /\ UNCHANGED <<sharedVars, route, snapshot, used, aborted, idleFired,
                   blocks, terminal, result, last>>

\* The two finally blocks have run, and the error is translated and thrown.
Throw(c) ==
    /\ stage[c] = "returning"
    /\ upstream' = [upstream EXCEPT ![c] = "closed"]
    /\ Ends(c, Reported(c))
    /\ UNCHANGED <<sharedVars, route, snapshot, used, aborted, idleFired,
                   blocks, terminal, result, last>>

\* The caller aborts.
Abort(c) ==
    /\ stage[c] # "idle"
    /\ ~aborted[c]
    /\ aborted' = [aborted EXCEPT ![c] = TRUE]
    /\ UNCHANGED <<sharedVars, stage, route, snapshot, used, idleFired,
                   upstream, blocks, terminal, result, last, outcome>>

-----------------------------------------------------------------------------

\* What the call and its consumer do; credentials and attachments come or fail.
CallStep(c) ==
    \/ Unserviceable(c) \/ AskForKey(c)
    \/ KeyResolved(c) \/ KeyMissing(c)
    \/ ContextFails(c) \/ OpenStream(c)
    \/ GiveUp(c) \/ TooLate(c) \/ Yield(c) \/ Exhausted(c)
    \/ Pull(c) \/ Stop(c) \/ Throw(c)

Provider(c) == ContentArrives(c) \/ TerminalArrives(c) \/ SourceEnds(c)

Next ==
    \/ RoutesNext /\ UNCHANGED <<memo, collection, callVars>>
    \/ Describe
    \/ \E c \in Calls :
          \/ \E r \in Routes : Start(c, r)
          \/ CallStep(c)
          \/ Provider(c)
          \/ IdleFires(c)
          \/ Settles(c)
          \/ Abort(c)

Spec == Init /\ [][Next]_vars

\* The provider may fall silent at any time, but honours an abort; the timer of an
\* outstanding read fires.
FairSpec ==
    /\ Spec
    /\ \A c \in Calls :
          /\ WF_vars(CallStep(c))
          /\ WF_vars(IdleFires(c))
          /\ WF_vars(Settles(c))

-----------------------------------------------------------------------------
(* Properties. *)

TypeOK ==
    /\ RoutesTypeOK
    /\ stage \in [Calls -> Stages]
    /\ route \in [Calls -> Routes]
    /\ memo \in Snapshots
    /\ collection \in [Collections -> Settings]
    /\ snapshot \in [Calls -> Snapshots]
    /\ used \in [Calls -> SUBSET Settings]
    /\ aborted \in [Calls -> BOOLEAN] /\ idleFired \in [Calls -> BOOLEAN]
    /\ upstream \in [Calls -> {"none", "open", "closed"}]
    /\ blocks \in [Calls -> 0..MaxBlocks]
    /\ terminal \in [Calls -> {"none", "finish", "end"}]
    /\ result \in [Calls -> Chunks \cup {"end"}]
    /\ last \in [Calls -> Chunks]
    /\ outcome \in [Calls -> Outcomes]

\* The credential, the model, the options and the provider of a call are all those of the
\* settings in force when it was made, however often they change while it waits for its
\* credential and its attachments, and whoever has the adapter take new snapshots then:
\* a collection a call holds is left untouched.
OneSettingsPerCall ==
    \A c \in Calls : \A s, t \in used[c] : s = t

\* A chunk that loses the race against the idle timer is not delivered.
NoLateChunk == \A c \in Calls : stage[c] = "yielded" => ~idleFired[c]

\* A stream that ends in order has delivered its finish chunk, last of all; the
\* usage is the chunk before it and no content comes after either.
EndsWithFinish ==
    /\ [](\A c \in Calls : outcome[c] = "finished" => last[c] = "finish")
    /\ [][\A c \in Calls :
             /\ last'[c] = "finish" /\ last[c] # "finish" => last[c] = "usage"
             /\ last[c] \in {"usage", "finish"} /\ last'[c] # last[c] =>
                    last'[c] \in {"finish", "none"}]_vars

\* A call that is over, however it ended, has left no provider stream behind.
NothingLeftOpen == \A c \in Calls : stage[c] = "idle" => upstream[c] # "open"

\* A call whose consumer goes on reading or stops ends, even if the provider falls
\* silent.
EveryCallEnds == \A c \in Calls : stage[c] # "idle" ~> stage[c] = "idle"
=============================================================================
