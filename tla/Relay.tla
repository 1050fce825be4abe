------------------------------- MODULE Relay -------------------------------
(***************************************************************************)
(* One HTTP request through src/runtime/dsh_local_qwen_relay.py: reading   *)
(* the body, admission, contract checks and preparation, the call to       *)
(* llama-server, relaying its answer, and every way out.  Each connection  *)
(* has a handler thread and serves one request ("Connection: close").      *)
(* Admission is the slot that AdmissionGate implements; what preparation   *)
(* does is in ContextManager and Supervisor, here it only succeeds, is     *)
(* refused or raises.                                                      *)
(***************************************************************************)
EXTENDS Integers, Sequences

CONSTANTS
    Threads,     \* the request handler threads
    Capacity,    \* how many requests may wait for the slot
    Nobody,      \* the holder of a free slot
    Kinds        \* which of AllKinds the clients send

\* chat: POST /v1/chat/completions; post: POST anywhere else; get and getWithBody: other
\* GET and OPTIONS requests, the latter with a Content-Length; monitor: GET /health
\* and /vc-local-brain/status.
AllKinds == {"chat", "post", "get", "getWithBody", "monitor"}

ASSUME KindsAssumption == Kinds \subseteq AllKinds
ASSUME RelayCapacityAssumption == Capacity \in Nat
ASSUME RelayNobodyAssumption == Nobody \notin Threads

VARIABLES
    holder, line, gone,   \* the slot, its waiting line, who has disconnected
    kind,                 \* the kind of each thread's request
    stage,                \* how far it has come
    asked,                \* how many requests llama-server got on its behalf
    heads                 \* how many response heads its client got

gateVars == <<holder, line, gone>>
vars == <<gateVars, kind, stage, asked, heads>>

Gate == INSTANCE FifoSlot

\* The stages between acquire and release.
Inside == {"admitted", "prepare", "send", "await", "relay"}
Stages == {"idle", "upload", "admit", "waiting", "probe"} \cup Inside

Init ==
    /\ Gate!Init
    /\ kind \in [Threads -> Kinds]
    /\ stage = [t \in Threads |-> "idle"]
    /\ asked = [t \in Threads |-> 0]
    /\ heads = [t \in Threads |-> 0]

-----------------------------------------------------------------------------
(* The ways a request moves on and ends. *)

MovesTo(t, s) == stage' = [stage EXCEPT ![t] = s]

\* A response head reaches the client, unless it has gone.
HeadSent(t) == heads' = [heads EXCEPT ![t] = IF gone[t] THEN @ ELSE @ + 1]

\* The handler returns or raises without having held the slot ...
EndsOutside(t) == MovesTo(t, "idle") /\ Gate!TurnAway(t)

\* Fault: the slot is only given back by a request that ends in order.
KeepsSlot(t) ==
    /\ MovesTo(t, "idle")
    /\ gone' = [gone EXCEPT ![t] = FALSE]
    /\ UNCHANGED <<holder, line>>

\* ... or raises inside: the finally block of acquire runs on the way up ...
Raises(t) == MovesTo(t, "idle") /\ Gate!Finish(t)

\* ... or returns from it.
Returns(t) == MovesTo(t, "idle") /\ Gate!Finish(t)

-----------------------------------------------------------------------------
(* do_GET, do_POST, do_OPTIONS *)

\* Fault: every body is read once the request has been admitted.
ReadsBodyLate(k) == FALSE

\* do_POST reads the body before it asks for the slot; _forward reads it otherwise.
ReadsBodyFirst(k) == k \in {"chat", "post"}

Arrive(t, k) ==
    /\ stage[t] = "idle"
    /\ kind' = [kind EXCEPT ![t] = k]
    /\ MovesTo(t, CASE k = "monitor" -> "probe"
                    [] ReadsBodyFirst(k) -> "upload"
                    [] OTHER -> "admit")
    /\ asked' = [asked EXCEPT ![t] = 0]
    /\ heads' = [heads EXCEPT ![t] = 0]
    /\ UNCHANGED gateVars

UploadDone(t) ==
    /\ stage[t] = "upload"
    /\ MovesTo(t, "admit")
    /\ UNCHANGED <<gateVars, kind, asked, heads>>

\* A short body, a bad Content-Length, or none for a chat completion: 400.
UploadFails(t) ==
    /\ stage[t] = "upload"
    /\ HeadSent(t)
    /\ EndsOutside(t)
    /\ UNCHANGED <<kind, asked>>

\* /health and /vc-local-brain/status probe the server without the slot; a probe
\* that raises ends them without an answer.
Monitor(t) ==
    /\ stage[t] = "probe"
    /\ HeadSent(t) \/ UNCHANGED heads
    /\ EndsOutside(t)
    /\ UNCHANGED <<kind, asked>>

-----------------------------------------------------------------------------
(* _admit_and_forward *)

TakeSlot(t) ==
    /\ stage[t] = "admit"
    /\ Gate!Take(t)
    /\ MovesTo(t, "admitted")
    /\ UNCHANGED <<kind, asked, heads>>

JoinLine(t) ==
    /\ stage[t] = "admit"
    /\ Gate!Join(t)
    /\ MovesTo(t, "waiting")
    /\ UNCHANGED <<kind, asked, heads>>

\* QueueFullError: 503.
QueueFull(t) ==
    /\ stage[t] = "admit"
    /\ holder # Nobody \/ line # <<>>
    /\ Len(line) >= Capacity
    /\ HeadSent(t)
    /\ EndsOutside(t)
    /\ UNCHANGED <<kind, asked>>

Served ==
    /\ Gate!Serve
    /\ MovesTo(Head(line), "admitted")
    /\ UNCHANGED <<kind, asked, heads>>

\* RequestCancelledBeforeExecution: nobody is left to answer.
Cancelled(t) ==
    /\ Gate!Leave(t)
    /\ MovesTo(t, "idle")
    /\ UNCHANGED <<kind, asked, heads>>

-----------------------------------------------------------------------------
(* _forward *)

\* No Content-Length, no body to read.
NoBody(t) ==
    /\ stage[t] = "admitted"
    /\ kind[t] = "get"
    /\ MovesTo(t, "send")
    /\ UNCHANGED <<gateVars, kind, asked, heads>>

\* The body that was not read before, now that the request has the slot.
BodyRead(t) ==
    /\ stage[t] = "admitted"
    /\ ~ReadsBodyFirst(kind[t]) /\ kind[t] # "get"
    /\ MovesTo(t, "send")
    /\ UNCHANGED <<gateVars, kind, asked, heads>>

\* It ends early, with the connection for instance: 400.
BodyCutShort(t) ==
    /\ stage[t] = "admitted"
    /\ ~ReadsBodyFirst(kind[t]) /\ kind[t] # "get"
    /\ HeadSent(t)
    /\ Returns(t)
    /\ UNCHANGED <<kind, asked>>

\* ContractError: invalid JSON, no messages, an unknown model or effort: 400.
Rejected(t) ==
    /\ stage[t] = "admitted"
    /\ ReadsBodyFirst(kind[t])
    /\ kind[t] = "chat"
    /\ HeadSent(t)
    /\ Returns(t)
    /\ UNCHANGED <<kind, asked>>

\* normalize_chat_request and the translations; other requests are passed on as is.
Normalized(t) ==
    /\ stage[t] = "admitted"
    /\ ReadsBodyFirst(kind[t])
    /\ MovesTo(t, IF kind[t] = "chat" THEN "prepare" ELSE "send")
    /\ UNCHANGED <<gateVars, kind, asked, heads>>

Prepared(t) ==
    /\ stage[t] = "prepare"
    /\ MovesTo(t, "send")
    /\ UNCHANGED <<gateVars, kind, asked, heads>>

\* ContextCapacityError, ContextSwitchError or a bad max_tokens.
PrepareRefused(t) ==
    /\ stage[t] = "prepare"
    /\ HeadSent(t)
    /\ Returns(t)
    /\ UNCHANGED <<kind, asked>>

\* A thinking_budget_tokens that is not a number raises a plain ValueError, and a
\* connection that breaks under a probe an OSError: nothing here catches them.
PrepareRaises(t) ==
    /\ stage[t] = "prepare"
    /\ Raises(t)
    /\ UNCHANGED <<kind, asked, heads>>

Send(t) ==
    /\ stage[t] = "send"
    /\ asked' = [asked EXCEPT ![t] = @ + 1]
    /\ MovesTo(t, "await")
    /\ UNCHANGED <<gateVars, kind, heads>>

\* The server answers; outside chat an HTTP error is an answer like any other.
Answered(t) ==
    /\ stage[t] = "await"
    /\ HeadSent(t)
    /\ MovesTo(t, "relay")
    /\ UNCHANGED <<gateVars, kind, asked>>

\* The head cannot be written.
AnsweredInVain(t) ==
    /\ stage[t] = "await"
    /\ gone[t]
    /\ Raises(t)
    /\ UNCHANGED <<kind, asked, heads>>

\* An HTTP error under chat, or no connection: one UpstreamRelayError.
UpstreamFails(t) ==
    /\ stage[t] = "await"
    /\ HeadSent(t)
    /\ Returns(t)
    /\ UNCHANGED <<kind, asked>>

RelayEnds(t) ==
    /\ stage[t] = "relay"
    /\ Returns(t)
    /\ UNCHANGED <<kind, asked, heads>>

\* Fault: a broken stream is answered with the error envelope.
RelayBreaksLoudly(t) ==
    /\ stage[t] = "relay"
    /\ HeadSent(t)
    /\ Returns(t)
    /\ UNCHANGED <<kind, asked>>

\* Reading from the server or writing to the client raises: the stream just ends.
RelayBreaks(t) ==
    /\ stage[t] = "relay"
    /\ Raises(t)
    /\ UNCHANGED <<kind, asked, heads>>

\* The client closes its connection.
Disconnect(t) ==
    /\ stage[t] # "idle"
    /\ ~gone[t]
    /\ Gate!Disconnect(t)
    /\ UNCHANGED <<kind, stage, asked, heads>>

-----------------------------------------------------------------------------

\* What the handler does by itself: nothing of it waits for the client but the
\* writes of the relay stage.  Bodies are the client's to send.
HandlerStep(t) ==
    \/ Monitor(t)
    \/ TakeSlot(t) \/ JoinLine(t) \/ QueueFull(t)
    \/ NoBody(t) \/ Rejected(t) \/ Normalized(t)
    \/ Prepared(t) \/ PrepareRefused(t) \/ PrepareRaises(t)
    \/ Send(t) \/ Answered(t) \/ AnsweredInVain(t) \/ UpstreamFails(t)
    \/ RelayEnds(t) \/ RelayBreaks(t)

Next ==
    \/ Served
    \/ \E t \in Threads :
          \/ \E k \in Kinds : Arrive(t, k)
          \/ UploadDone(t) \/ UploadFails(t)
          \/ BodyRead(t) \/ BodyCutShort(t)
          \/ Cancelled(t)
          \/ HandlerStep(t)
          \/ Disconnect(t)

Spec == Init /\ [][Next]_vars

\* The head of the line takes a free slot or leaves, as the gate promises.
AdvanceLine ==
    \/ Served
    \/ holder = Nobody /\ line # <<>> /\ Cancelled(Head(line))

\* Handlers run, and a closed connection ends the reading of a body.  A client that stays
\* may withhold what it has declared for ever, before admission (UploadDone) and after
\* it (BodyRead): the sockets have no timeout.
FairSpec ==
    /\ Spec
    /\ WF_vars(AdvanceLine)
    /\ \A t \in Threads :
          /\ WF_vars(HandlerStep(t))
          /\ WF_vars(gone[t] /\ BodyCutShort(t))

-----------------------------------------------------------------------------
(* Properties. *)

TypeOK ==
    /\ holder \in Threads \cup {Nobody}
    /\ line \in Seq(Threads) /\ Len(line) <= Capacity
    /\ gone \in [Threads -> BOOLEAN]
    /\ kind \in [Threads -> Kinds]
    /\ stage \in [Threads -> Stages]
    /\ asked \in [Threads -> Nat]
    /\ heads \in [Threads -> Nat]

\* The slot belongs to a handler exactly while it is between admission and its
\* last byte: an exception nobody catches gives it back like a return does, and
\* monitors, uploads and waiting requests never have it.
SlotFollowsHandler ==
    /\ \A t \in Threads : holder = t <=> stage[t] \in Inside
    /\ \A t \in Threads : Gate!InLine(t) <=> stage[t] = "waiting"

\* A client gets at most one response head, whatever fails after the first, and
\* llama-server gets the request at most once: no transparent replay.
AtMostOnce == \A t \in Threads : heads[t] <= 1 /\ asked[t] <= 1

\* A GET or OPTIONS request has the slot, and its client, still there, has not sent the
\* body it declared.
BodyWithheld ==
    \E t \in Threads : stage[t] = "admitted" /\ kind[t] = "getWithBody" /\ ~gone[t]

\* Clients that never finish a POST hold up nobody: a request past its upload is answered
\* or dropped in the end.  One exception remains, and only one: _forward reads the
\* declared body of a GET or OPTIONS inside the slot, and a client that withholds it
\* for ever keeps everybody else out.
StalledUploadBlocksNobody ==
    \/ \A t \in Threads : stage[t] \notin {"idle", "upload"} ~> stage[t] = "idle"
    \/ <>[]BodyWithheld

\* A request whose client is still there never ends unanswered: errors come in
\* the public envelope.
EveryRequestAnswered ==
    [][\A t \in Threads :
          stage[t] # "idle" /\ stage'[t] = "idle" /\ ~gone[t] => heads'[t] > 0]_vars
=============================================================================
