------------------------------- MODULE History -------------------------------
(***************************************************************************)
(* How a conversation kept by the harness becomes a pi-ai context, call    *)
(* after call (replay.js and context.js in src/dsh/llm-pi-ai/index.js).    *)
(* Answers come back from the harness with adapter-private replay metadata *)
(* that may no longer fit them; every call converts the whole history      *)
(* anew, by one of two converters: the one for text, and, from the first   *)
(* image on, the one for images.  Image offloading is below its budget.    *)
(***************************************************************************)
EXTENDS Naturals, FiniteSets, Sequences, SequencesExt

CONSTANTS
    Answers,       \* what a model answers: [content, stop]
    Turns,         \* what users say and tools return: the content of a user message
    Results,       \* the tool results in it, and those inside other results
    Rewritings,    \* what the harness or a plugin puts in place of a text of an answer
    CallIds,       \* the ids of tool calls
    ToolNames,     \* the names of tools
    MaxMessages    \* bound on the length of the conversation

VARIABLES
    history,       \* options.messages, the harness's record
    stage,         \* resting, preparing, converting or refused
    withImages,    \* which converter this call uses
    next,          \* the message to convert next
    toolNames,     \* the calls seen so far, by id
    messages,      \* the context built so far
    sent           \* the context of the last call that was made

vars == <<history, stage, withImages, next, toolNames, messages, sent>>

(***************************************************************************)
(* Blocks.  One shape for all of them: a type, a text (a sequence of pieces*)
(* joined by \o), the id and name of a tool call or result, a signature,   *)
(* and the blocks inside a tool result.                                    *)
(***************************************************************************)
Block(type, text, id, name, sig, inner) ==
    [type |-> type, text |-> text, id |-> id, name |-> name, sig |-> sig, inner |-> inner]
Text(t) == Block("text", t, "", "", "", <<>>)
Image(i) == Block("image", <<i>>, "", "", "", <<>>)

ASSUME ResultsAssumption ==
    \A blocks \in Turns \cup {r.inner : r \in Results} :
        /\ blocks \in Seq(Range(blocks))
        /\ \A b \in Range(blocks) :
              b.type = "tool-result" => b \in Results /\ b.id \in CallIds
ASSUME MaxMessagesAssumption == MaxMessages \in Nat

ShowsImage[r \in Results] ==
    \E i \in DOMAIN r.inner :
        \/ r.inner[i].type = "image"
        \/ r.inner[i].type = "tool-result" /\ ShowsImage[r.inner[i]]
HasImage(blocks) ==
    \E i \in DOMAIN blocks :
        \/ blocks[i].type = "image"
        \/ blocks[i].type = "tool-result" /\ ShowsImage[blocks[i]]

\* The elements of seq at these positions, in their order: what SelectSeq does, in a
\* form that can be expanded.
Picked(seq, where) ==
    [k \in 1..Cardinality(where) |->
        seq[CHOOSE i \in where : Cardinality({j \in where : j <= i}) = k]]
OfType(blocks, types) == Picked(blocks, {i \in DOMAIN blocks : blocks[i].type \in types})
Texts(blocks) == [i \in DOMAIN blocks |-> blocks[i].text]

\* The harness's names of the native block types.
HarnessType == [text |-> "text", thinking |-> "reasoning", toolCall |-> "tool-call"]
NativeType == [t \in {"text", "reasoning", "tool-call"} |->
                  CHOOSE n \in DOMAIN HarnessType : HarnessType[n] = t]

\* An answer is a sequence of blocks of pi-ai's three types.
ASSUME AnswersAssumption ==
    \A a \in Answers :
        /\ a.content \in Seq(Range(a.content))
        /\ \A b \in Range(a.content) :
              /\ b = Block(b.type, b.text, b.id, b.name, b.sig, b.inner)
              /\ b.type \in DOMAIN HarnessType
              /\ b.type = "toolCall" => b.name \in ToolNames

-----------------------------------------------------------------------------
(* What the harness keeps of an answer. *)

Recorded(b) == Block(HarnessType[b.type], b.text, b.id, b.name, "", b.inner)

\* toPiReplayState: the metadata, aligned with the blocks.
ToPiReplayState(answer) ==
    [valid |-> TRUE, source |-> "own", stop |-> answer.stop,
     blocks |-> [i \in DOMAIN answer.content |->
                    [type |-> HarnessType[answer.content[i].type], sig |-> answer.content[i].sig]]]
NoReplay == [valid |-> FALSE, source |-> "own", stop |-> "", blocks |-> <<>>]

Message(role, content, replay, origin) ==
    [role |-> role, content |-> content, replay |-> replay, origin |-> origin]
NoAnswer == [content |-> <<>>, stop |-> ""]

Kept(answer) ==
    Message("assistant", [i \in DOMAIN answer.content |-> Recorded(answer.content[i])],
            ToPiReplayState(answer), answer)

\* Assembly removes a block and its metadata, or the metadata stays behind.
Pruned(m, i) == [m EXCEPT !.content = RemoveAt(@, i), !.replay.blocks = RemoveAt(@, i)]
Dropped(m, i) == [m EXCEPT !.content = RemoveAt(@, i)]
\* A plugin adds a block; another adapter or version wrote the metadata; the message
\* is now ascribed to another model; there is no metadata (the stream failed, say).
Extended(m) == [m EXCEPT !.content = Append(@, Block("note", <<>>, "", "", "", <<>>))]
WrittenElsewhere(m) == [m EXCEPT !.replay.valid = FALSE]
Reascribed(m) == [m EXCEPT !.replay.source = "other"]
Unreplayable(m) == [m EXCEPT !.replay = NoReplay]
\* A block is rewritten in place, which leaves their number and types as they were.
Rewritten(m, i, text) == [m EXCEPT !.content[i].text = text]

\* Of these things one happens to a message, or none.
Edited(m) ==
    {m, Extended(m), WrittenElsewhere(m), Reascribed(m), Unreplayable(m)}
    \cup {Pruned(m, i) : i \in DOMAIN m.content}
    \cup {Dropped(m, i) : i \in DOMAIN m.content}
    \cup {Rewritten(m, e[1], e[2]) : e \in (DOMAIN m.content) \X Rewritings}
AssistantMessages == UNION {Edited(Kept(a)) : a \in Answers}

HarnessMessages ==
    AssistantMessages
    \cup {Message("user", t, NoReplay, NoAnswer) : t \in Turns}
    \cup {Message("system", <<Text(<<"rules">>)>>, NoReplay, NoAnswer),
          Message("assistant", <<Image("drawn")>>, NoReplay, NoAnswer)}

ContainsImage == \E i \in DOMAIN history : HasImage(history[i].content)

-----------------------------------------------------------------------------
(* Assistant messages. *)

\* Fault: the number of entries is not compared.
FitsWhereItReaches(m) ==
    /\ m.replay.valid
    /\ m.replay.source = "own"
    /\ Len(m.replay.blocks) >= Len(m.content)
    /\ \A i \in DOMAIN m.content : m.replay.blocks[i].type = m.content[i].type

\* readReplayState and the checks of replayedAssistant: any failure is
\* INVALID_REPLAY_STATE.
Usable(m) ==
    /\ m.replay.valid
    /\ m.replay.source = "own"
    /\ Len(m.replay.blocks) = Len(m.content)
    /\ \A i \in DOMAIN m.content : m.replay.blocks[i].type = m.content[i].type

Native(b, sig) == Block(NativeType[b.type], b.text, b.id, b.name, sig, b.inner)

PiMessage(role, content, id, name, stop) ==
    [role |-> role, content |-> content, id |-> id, name |-> name, stop |-> stop]

ReplayedAssistant(m) ==
    PiMessage("assistant",
              [i \in DOMAIN m.content |-> Native(m.content[i], m.replay.blocks[i].sig)],
              "", "", m.replay.stop)

\* Fault: only what the user was shown is kept.
ShownContent(m) ==
    LET known == OfType(m.content, {"text", "tool-call"})
    IN [i \in DOMAIN known |-> Native(known[i], "")]

ForeignContent(m) ==
    LET known == OfType(m.content, DOMAIN NativeType)
    IN [i \in DOMAIN known |-> Native(known[i], "")]

ForeignAssistant(m) ==
    LET content == ForeignContent(m)
    IN PiMessage("assistant", content, "", "",
                 IF OfType(content, {"toolCall"}) = <<>> THEN "stop" ELSE "toolUse")

ToPiAssistant(m) == IF Usable(m) THEN ReplayedAssistant(m) ELSE ForeignAssistant(m)

-----------------------------------------------------------------------------
(* User messages, in the converter for text and in the one for images. *)

ToolResultText[r \in Results] ==
    FlattenSeq([i \in DOMAIN r.inner |->
        CASE r.inner[i].type = "text" -> r.inner[i].text
          [] r.inner[i].type = "tool-result" -> ToolResultText[r.inner[i]]
          [] OTHER -> <<>>])

\* A string is one text block here, and the empty string none.
AsBlocks(text) == IF text = <<>> THEN <<>> ELSE <<Text(text)>>

FlattenText(blocks) == AsBlocks(FlattenSeq(Texts(OfType(blocks, {"text"}))))

\* userContent, given what is inside tool results.
UserContent(blocks, inside) ==
    LET content == FlattenSeq([i \in DOMAIN blocks |->
            CASE blocks[i].type = "text" -> AsBlocks(blocks[i].text)
              [] blocks[i].type = "image" -> <<Text(<<"handle">>), blocks[i]>>
              [] blocks[i].type = "tool-result" -> inside[blocks[i]]
              [] OTHER -> <<>>])
    IN IF \A i \in DOMAIN content : content[i].type = "text"
       THEN AsBlocks(FlattenSeq(Texts(content)))
       ELSE content
ResultContent[r \in Results] == UserContent(r.inner, ResultContent)

\* What a user message holds besides the results.
Apart(blocks) == Picked(blocks, {i \in DOMAIN blocks : blocks[i].type # "tool-result"})

\* Fault: the converter for images keeps the pieces of a text apart.
SaidInPieces(m, images) ==
    LET said == Apart(m.content)
    IN IF images THEN Picked(said, {i \in DOMAIN said : said[i].text # <<>>})
       ELSE FlattenText(m.content)

Said(m, images) ==
    IF images
    THEN UserContent(Apart(m.content), ResultContent)
    ELSE FlattenText(m.content)

Output(r, images) ==
    LET content == IF images THEN ResultContent[r] ELSE AsBlocks(ToolResultText[r])
    IN IF content = <<>> THEN <<Text(<<"(no output)">>)>> ELSE content

UserTurn(m, images, names) ==
    LET results == OfType(m.content, {"tool-result"})
        said == Said(m, images)
    IN (IF said # <<>> \/ results = <<>>
        THEN <<PiMessage("user", said, "", "", "")>> ELSE <<>>)
       \o [i \in DOMAIN results |->
              PiMessage("toolResult", Output(results[i], images), results[i].id,
                        names[results[i].id], "")]

-----------------------------------------------------------------------------

NoNames == [id \in CallIds |-> "unknown"]

Init ==
    /\ history = <<>>
    /\ stage = "resting"
    /\ withImages = FALSE
    /\ next = 1
    /\ toolNames = NoNames
    /\ messages = <<>>
    /\ sent = <<>>

\* The conversation goes on between two calls.
Say(m) ==
    /\ stage \in {"resting", "refused"}
    /\ Len(history) < MaxMessages
    /\ history' = Append(history, m)
    /\ UNCHANGED <<stage, withImages, next, toolNames, messages, sent>>

\* Fault: the names outlive the call.
CallRemembers ==
    /\ stage \in {"resting", "refused"}
    /\ history # <<>>
    /\ withImages' = ContainsImage
    /\ stage' = IF ContainsImage THEN "preparing" ELSE "converting"
    /\ next' = 1
    /\ messages' = <<>>
    /\ UNCHANGED <<history, toolNames, sent>>

\* streamWithSnapshot picks the converter; both start from nothing.
Call ==
    /\ stage \in {"resting", "refused"}
    /\ history # <<>>
    /\ withImages' = ContainsImage
    /\ stage' = IF ContainsImage THEN "preparing" ELSE "converting"
    /\ next' = 1
    /\ toolNames' = NoNames
    /\ messages' = <<>>
    /\ UNCHANGED <<history, sent>>

\* The model takes no images, there is no attachment service, an image is not in a
\* user message, or it cannot be read (an abort included).
Refuse ==
    /\ stage = "preparing"
    /\ stage' = "refused"
    /\ UNCHANGED <<history, withImages, next, toolNames, messages, sent>>

ImagesReady ==
    /\ stage = "preparing"
    /\ \A i \in DOMAIN history : HasImage(history[i].content) => history[i].role = "user"
    /\ stage' = "converting"
    /\ UNCHANGED <<history, withImages, next, toolNames, messages, sent>>

\* The loop takes up the next message, which is of this role, and adds these.
Converts(role, new) ==
    /\ stage = "converting"
    /\ next <= Len(history)
    /\ history[next].role = role
    /\ messages' = messages \o new
    /\ next' = next + 1
    /\ UNCHANGED <<history, stage, withImages, sent>>

ConvertSystem ==
    /\ Converts("system", <<PiMessage("user", FlattenText(history[next].content), "", "", "")>>)
    /\ UNCHANGED toolNames

\* The calls of a message are remembered; of two with one id, the later.
NamesAfter(assistant, names) ==
    LET said == assistant.content
        Called(id) == {i \in DOMAIN said : said[i].type = "toolCall" /\ said[i].id = id}
    IN [id \in CallIds |->
           IF Called(id) = {} THEN names[id]
           ELSE said[CHOOSE i \in Called(id) : \A j \in Called(id) : j <= i].name]

ConvertAssistant ==
    /\ Converts("assistant", <<ToPiAssistant(history[next])>>)
    /\ toolNames' = NamesAfter(ToPiAssistant(history[next]), toolNames)

ConvertUser ==
    /\ Converts("user", UserTurn(history[next], withImages, toolNames))
    /\ UNCHANGED toolNames

Send ==
    /\ stage = "converting"
    /\ next > Len(history)
    /\ sent' = messages
    /\ stage' = "resting"
    /\ UNCHANGED <<history, withImages, next, toolNames, messages>>

Next ==
    \/ \E m \in HarnessMessages : Say(m)
    \/ Call
    \/ Refuse \/ ImagesReady
    \/ ConvertSystem \/ ConvertAssistant \/ ConvertUser
    \/ Send

Spec == Init /\ [][Next]_vars

-----------------------------------------------------------------------------
(* Properties. *)

TypeOK ==
    /\ history \in Seq(HarnessMessages) /\ Len(history) <= MaxMessages
    /\ stage \in {"resting", "preparing", "converting", "refused"}
    /\ withImages \in BOOLEAN
    /\ next \in 1..MaxMessages + 1
    /\ toolNames \in [CallIds -> ToolNames \cup {"unknown"}]

\* The calls with this id in a context up to message i, as <<message, block>>.
CallsIn(context, i, id) ==
    {c \in UNION {{j} \X (DOMAIN context[j].content) : j \in 1..i} :
        /\ context[c[1]].role = "assistant"
        /\ context[c[1]].content[c[2]].type = "toolCall"
        /\ context[c[1]].content[c[2]].id = id}

Later(c, d) == d[1] < c[1] \/ (d[1] = c[1] /\ d[2] <= c[2])

\* What the context up to message i says the tool of this call is.
NamedIn(context, i, id, name) ==
    LET calls == CallsIn(context, i, id)
    IN IF calls = {} THEN name = "unknown"
       ELSE \E c \in calls : /\ \A d \in calls : Later(c, d)
                            /\ name = context[c[1]].content[c[2]].name

\* A tool result bears the name of the last call with its id that the same context
\* holds before it, and "unknown" when there is none, be the call's message replayed
\* or degraded.
ResultsAreNamed ==
    \A i \in DOMAIN messages : messages[i].role = "toolResult" =>
        NamedIn(messages, i - 1, messages[i].id, messages[i].name)

AnswersIn(seq, i) == Cardinality({j \in 1..i : seq[j].role = "assistant"})

\* An answer of the context and the harness message it was made from: as many answers
\* come before the one as before the other.
Pairs ==
    {p \in (DOMAIN messages) \X (DOMAIN history) :
        /\ messages[p[1]].role = "assistant" /\ history[p[2]].role = "assistant"
        /\ AnswersIn(messages, p[1]) = AnswersIn(history, p[2])}

\* A block as the model gave it, or with a text that was put in its place.
Versions(b) == {b} \cup {[b EXCEPT !.text = text] : text \in Rewritings}

\* An answer the harness has kept as it was comes back as the model gave it; of any
\* other, a signature stands beside the block that was signed and no other.  That block
\* may have been rewritten in place, which readReplayState and replayedAssistant do not
\* notice: they compare numbers and types.
ComesBack(a, m) ==
    /\ m = Kept(m.origin) => a.content = m.origin.content /\ a.stop = m.origin.stop
    /\ \A i \in DOMAIN a.content :
          a.content[i].sig # "" =>
              \E j \in DOMAIN m.origin.content : a.content[i] \in Versions(m.origin.content[j])

AnswersComeBack == \A p \in Pairs : ComesBack(messages[p[1]], history[p[2]])

\* Text, reasoning and calls survive in their order whatever became of the metadata.
Survives(a, m) ==
    [i \in DOMAIN a.content |-> Recorded(a.content[i])] = OfType(m.content, DOMAIN NativeType)

\* Every answer converted so far is in the context, with all the harness kept of it.
NothingIsLost ==
    /\ AnswersIn(messages, Len(messages)) = AnswersIn(history, next - 1)
    /\ \A p \in Pairs : Survives(messages[p[1]], history[p[2]])

\* The two converters make the same of what holds no image, however deep.
ConvertersAgree ==
    /\ \A t \in Turns : ~HasImage(t) => UserContent(Apart(t), ResultContent) = FlattenText(t)
    /\ \A r \in Results : ~ShowsImage[r] => ResultContent[r] = AsBlocks(ToolResultText[r])

\* While the conversation only grows, what a model has been sent stays the beginning
\* of what it is sent next, also when the first image changes the converter.
PrefixIsStable == [][sent' # sent => IsPrefix(sent, sent')]_vars
=============================================================================
