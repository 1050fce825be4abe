----------------------------- MODULE Discovery -----------------------------
(***************************************************************************)
(* discoverModels of src/dsh/llm-pi-ai/index.js: "fetch available models"  *)
(* for a route that is still being edited.  A route of the installed       *)
(* catalog is answered from it; any other endpoint is asked over the       *)
(* network, may answer late, never, or without end, and may lie about the  *)
(* length of what it sends, while the caller may give up at any moment.    *)
(***************************************************************************)
EXTENDS Naturals

CONSTANTS
    Listable,     \* LISTABLE_PROTOCOLS
    OtherApis,    \* protocols whose listing this build cannot read
    Ceiling,      \* MAX_RESPONSE_BYTES, in units of the smallest chunk
    ChunkSizes,   \* sizes of what one read yields
    MaxSent,      \* bound on what an endpoint sends before the reply ends
    Omitted       \* undefined

ASSUME CeilingAssumption == Ceiling \in Nat
ASSUME ChunkAssumption == ChunkSizes \subseteq Nat \ {0}
ASSUME MaxSentAssumption == MaxSent \in Nat
ASSUME OmittedAssumption == Omitted \notin Nat

VARIABLES
    probe,        \* the draft being asked about
    signalled,    \* the caller passed a signal,
    aborted,      \* and has fired it
    at,           \* where discoverModels is
    declared,     \* content-length, omitted or not a number
    received,     \* total: bytes read from the body
    retained,     \* bytes of the chunks kept for parsing
    body,         \* none, open, closed, or left unread
    thrown,       \* what readBounded threw
    answer        \* what the caller got

replyVars == <<declared, received, retained, body, thrown>>
discoveryVars == <<probe, signalled, aborted, at, replyVars, answer>>

Drafts == [provider : {Omitted, "shipped", "gateway"}, baseURL : {Omitted, "", "url"},
           api : Listable \cup OtherApis \cup {Omitted},
           apiKey : {Omitted, "blank", "unsendable", "usable"}]
Steps == {"idle", "key", "fetching", "refusing", "reading", "closing", "ended"}
Failures == {"DISCOVERY_FAILED", "DISCOVERY_UNSUPPORTED", "INVALID_CREDENTIAL",
             "MISSING_CREDENTIAL", "ABORTED", "read error"}

DiscoveryInit ==
    /\ probe \in Drafts
    /\ signalled \in BOOLEAN
    /\ aborted = FALSE
    /\ at = "idle"
    /\ declared = Omitted /\ received = 0 /\ retained = 0
    /\ body = "none" /\ thrown = Omitted
    /\ answer = Omitted

-----------------------------------------------------------------------------
(* Before the network. *)

Answers(a) == at' = "ended" /\ answer' = a

\* What is decided before the first await.  usableProbeKey accepts a key a header
\* can carry.
Preflight(d) ==
    IF d.provider = "shipped" THEN "models"
    ELSE IF d.baseURL \in {Omitted, ""} THEN "DISCOVERY_FAILED"
    ELSE IF d.api \in OtherApis THEN "DISCOVERY_UNSUPPORTED"
    ELSE IF d.apiKey \in {"blank", "unsendable"} THEN "INVALID_CREDENTIAL"
    ELSE "goes on"

Discover ==
    /\ at = "idle"
    /\ probe' \in Drafts /\ signalled' \in BOOLEAN
    /\ IF Preflight(probe') # "goes on" THEN Answers(Preflight(probe'))
       ELSE /\ at' = IF probe'.apiKey = Omitted THEN "key" ELSE "fetching"
            /\ UNCHANGED answer
    /\ UNCHANGED <<aborted, replyVars>>

\* storedApiKey: the credential the route already stored, or none, or the refusal
\* resolveApiKey makes.
KeyComes(k) ==
    /\ at = "key"
    /\ k \in {"MISSING_CREDENTIAL", "INVALID_CREDENTIAL"} => probe.provider # Omitted
    /\ IF k \in Failures THEN Answers(k) ELSE at' = "fetching" /\ UNCHANGED answer
    /\ UNCHANGED <<probe, signalled, aborted, replyVars>>

-----------------------------------------------------------------------------
(* The reply. *)

\* Fault: the signal is not handed to fetch.
NeverHeard == FALSE

\* fetch, and the body it returned, end when the caller's signal fires.
Heard == aborted

FetchFails ==
    /\ at = "fetching"
    /\ Answers(IF aborted THEN "ABORTED" ELSE "DISCOVERY_FAILED")
    /\ UNCHANGED <<probe, signalled, aborted, replyVars>>

\* A reply that is not 2xx is reported, its body never read.
Replies(ok, length) ==
    /\ at = "fetching"
    /\ declared' = length
    /\ IF ~ok THEN body' = "unread" /\ Answers("DISCOVERY_FAILED")
       ELSE /\ body' = "open"
            /\ at' = IF length # Omitted /\ length > Ceiling THEN "refusing" ELSE "reading"
            /\ UNCHANGED answer
    /\ UNCHANGED <<probe, signalled, aborted, received, retained, thrown>>

\* The body of an endpoint that declares too much is cancelled; one that has broken by
\* then is closed as well, and rejects that with its own error.
Refuses ==
    /\ at = "refusing"
    /\ body' = "closed"
    /\ \E e \in {"DISCOVERY_FAILED", "read error"} : Answers(IF aborted THEN "ABORTED" ELSE e)
    /\ UNCHANGED <<probe, signalled, aborted, declared, received, retained, thrown>>

\* Fault: an endpoint that declared its length is believed.
OutgrownUnlessDeclared(total) == declared = Omitted /\ total > Ceiling

Outgrown(total) == total > Ceiling

\* One read: counted before it is kept.
Chunk(n) ==
    /\ at = "reading"
    /\ received + n <= MaxSent
    /\ received' = received + n
    /\ IF Outgrown(received')
       THEN at' = "closing" /\ thrown' = "DISCOVERY_FAILED" /\ UNCHANGED retained
       ELSE retained' = retained + n /\ UNCHANGED <<at, thrown>>
    /\ UNCHANGED <<probe, signalled, aborted, declared, body, answer>>

BodyEnds ==
    /\ at = "reading"
    /\ at' = "closing"
    /\ UNCHANGED <<probe, signalled, aborted, replyVars, answer>>

\* The connection breaks, or the signal fires while a read is outstanding.
ReadFails ==
    /\ at = "reading"
    /\ at' = "closing" /\ thrown' = "read error"
    /\ UNCHANGED <<probe, signalled, aborted, declared, received, retained, body, answer>>

\* finally: the reader is cancelled whatever happened; then the text is parsed, and
\* is a listing (readListing) or is not.
Closes(a) ==
    /\ at = "closing"
    /\ body' = "closed"
    /\ IF thrown = Omitted THEN a \in {"models", "DISCOVERY_FAILED"}
       ELSE a = IF aborted THEN "ABORTED" ELSE thrown
    /\ Answers(a)
    /\ UNCHANGED <<probe, signalled, aborted, declared, received, retained, thrown>>

-----------------------------------------------------------------------------
(* The caller. *)

GivesUp ==
    /\ at \notin {"idle", "ended"}
    /\ signalled /\ ~aborted
    /\ aborted' = TRUE
    /\ UNCHANGED <<probe, signalled, at, replyVars, answer>>

AsksAgain ==
    /\ at = "ended"
    /\ at' = "idle" /\ aborted' = FALSE
    /\ declared' = Omitted /\ received' = 0 /\ retained' = 0
    /\ body' = "none" /\ thrown' = Omitted /\ answer' = Omitted
    /\ UNCHANGED <<probe, signalled>>

Closing == \E a \in {"models"} \cup Failures : Closes(a)

DiscoveryNext ==
    \/ Discover
    \/ \E k \in {"none", "usable", "MISSING_CREDENTIAL", "INVALID_CREDENTIAL"} : KeyComes(k)
    \/ \E ok \in BOOLEAN, length \in {Omitted} \cup 0..MaxSent : Replies(ok, length)
    \/ \E n \in ChunkSizes : Chunk(n)
    \/ FetchFails \/ Refuses \/ BodyEnds \/ ReadFails \/ Closing
    \/ GivesUp \/ AsksAgain

DiscoverySpec == DiscoveryInit /\ [][DiscoveryNext]_discoveryVars

\* Nothing makes an endpoint answer or stop sending; the platform ends what the
\* signal aborts, and cancelling a body settles.
DiscoveryFairness ==
    /\ WF_discoveryVars(Heard /\ FetchFails)
    /\ WF_discoveryVars(Heard /\ ReadFails)
    /\ WF_discoveryVars(Refuses)
    /\ WF_discoveryVars(Closing)

-----------------------------------------------------------------------------
(* Properties. *)

DiscoveryTypeOK ==
    /\ probe \in Drafts
    /\ signalled \in BOOLEAN /\ aborted \in BOOLEAN
    /\ at \in Steps
    /\ declared \in Nat \cup {Omitted}
    /\ received \in Nat /\ retained \in Nat
    /\ body \in {"none", "open", "closed", "unread"}
    /\ thrown \in Failures \cup {Omitted}
    /\ answer \in {"models", Omitted} \cup Failures

\* However much an endpoint sends, and whatever length it declared, no more than the
\* ceiling is kept; and a reply whose body was opened is closed when the probe ends.
BodyWithinCeiling ==
    /\ retained <= Ceiling
    /\ at = "ended" => body # "open"

\* A probe the caller gives up on ends, although the endpoint never says anything
\* more.
AbortEndsProbe ==
    aborted /\ at \in {"fetching", "refusing", "reading", "closing"} ~> at = "ended"
=============================================================================
