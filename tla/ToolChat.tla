------------------------------- MODULE ToolChat -------------------------------
(***************************************************************************)
(* A conversation with tools that several models take part in.  The client   *)
(* keeps its history and sends all of it with every request; routes/proxy.ts *)
(* checks and maps it, the adapter of the provider that the request is       *)
(* routed to translates it, and translates the answer back (google.ts; the   *)
(* others nearly pass it on).  What Gemini has said must come back to it as  *)
(* it was, through all of these, whoever else has answered in between.       *)
(***************************************************************************)
EXTENDS Positions, Functions

CONSTANTS
    GeminiCalls,    \* calls that Gemini may make: [given, name, args, sig]
    OtherCalls,     \* those that the other models may make
    UserForms,      \* forms of what the user says
    MaxAnswers      \* bound: answers in the conversation

Absent == "none"
\* What "content" may be: a string, blocks with a text, blocks without one (an
\* image), the empty string, null.
Forms == {"string", "blocks", "image", "empty", "null"}
\* Arguments: an object, the empty one, other JSON, no JSON; none in Gemini's JSON.
Arguments == {"object", "{}", "other", "broken", Absent}

ASSUME CallAssumption ==
    \A c \in GeminiCalls \cup OtherCalls :
        /\ DOMAIN c = {"given", "name", "args", "sig"}
        /\ c.given \in BOOLEAN /\ c.args \in Arguments
ASSUME OtherAssumption == \A c \in OtherCalls : c.given /\ c.args # Absent
ASSUME BoundAssumption == MaxAnswers \in Nat /\ UserForms \subseteq Forms \ {"null"}

VARIABLES
    history,   \* the messages that the client has
    naming,    \* whether it names the function in a tool message
    stage,     \* of the request: "client", "asked", "refused"
    request,   \* what has last been sent to a provider: to whom, and the turns
    said       \* what the models have said, in their own words

chatVars == <<history, naming, stage, request, said>>

Message(role, form, calls, id, name, ran) ==
    [role |-> role, form |-> form, calls |-> calls, id |-> id, name |-> name, ran |-> ran]
NoCallId == <<Absent, 0, 0>>
NotRun == <<0, Absent>>

\* A turn in a request: its role, whether it has a text, and its parts; a part is a
\* call or the response to one.
CallPart(c) == [kind |-> "call", id |-> c.id, name |-> c.name, args |-> c.args, sig |-> c.sig]
ResponsePart(id, name) ==
    [kind |-> "response", id |-> id, name |-> name, args |-> Absent, sig |-> Absent]
Turn(role, text, parts) == [role |-> role, text |-> text, parts |-> parts]

NoRequest == [to |-> Absent, turns |-> <<>>]

ChatInit ==
    /\ history \in {<<>>, <<Message("system", "string", <<>>, NoCallId, Absent, NotRun)>>}
    /\ naming \in BOOLEAN
    /\ stage = "client" /\ request = NoRequest /\ said = <<>>

-----------------------------------------------------------------------------
\* The way in: the schema, the mapping, the translation.

HasNonEmptyContent(form) == form \in {"string", "blocks", "image"}

\* An assistant's message must have a content or a call.
\* Mutant: it must have a content.
Accepted_content(m) == m.role # "assistant" \/ HasNonEmptyContent(m.form)
Accepted(m) == m.role # "assistant" \/ HasNonEmptyContent(m.form) \/ m.calls # <<>>

ContentToString(form) == form \in {"string", "blocks"}

\* The fields of a call that the schema knows, and that the proxy copies.
\* Mutant: the signature is not among them.
Mapped_unsigned(c) == [c EXCEPT !.sig = Absent]
Mapped(c) == c

\* safeParseObject.
Parsed(args) == IF args \in {"object", "{}"} THEN args ELSE "wrapped"

\* toolNameByCallId: the last call with the id counts.
\* Mutant: only the last assistant message is searched.
NameOf_lastMessage(messages, id) ==
    LET a == CHOOSE i \in DOMAIN messages :
                /\ messages[i].role = "assistant"
                /\ \A j \in i + 1..Len(messages) : messages[j].role # "assistant"
        named == {n \in DOMAIN messages[a].calls : messages[a].calls[n].id = id}
    IN IF named = {} THEN "tool"
       ELSE messages[a].calls[CHOOSE n \in named : \A m \in named : m <= n].name
CallsIn(messages) ==
    UNION {{i} \X DOMAIN messages[i].calls : i \in DOMAIN messages}
NameOf(messages, id) ==
    LET named == {p \in CallsIn(messages) : messages[p[1]].calls[p[2]].id = id}
        last == CHOOSE p \in named : \A q \in named : q = p \/ Before(q, p)
    IN IF named = {} THEN "tool" ELSE messages[last[1]].calls[last[2]].name

ModelTurn(m) ==
    Turn("model", ContentToString(m.form),
         [n \in DOMAIN m.calls |-> CallPart([Mapped(m.calls[n]) EXCEPT !.args = Parsed(@)])])

ToolTurn(messages, m) ==
    Turn("user", FALSE,
         <<ResponsePart(m.id, IF m.name # Absent THEN m.name ELSE NameOf(messages, m.id))>>)

UserTurn(m) == Turn("user", ContentToString(m.form), <<>>)

\* toGeminiContents: an assistant's turn without parts is left out, and the system's
\* messages are sent as an instruction beside the turns.
Kept(messages) ==
    {i \in DOMAIN messages :
        LET m == messages[i]
        IN /\ m.role # "system"
           /\ m.role = "assistant" => ContentToString(m.form) \/ m.calls # <<>>}
TurnOf(messages, m) ==
    CASE m.role = "assistant" -> ModelTurn(m)
      [] m.role = "tool" -> ToolTurn(messages, m)
      [] OTHER -> UserTurn(m)
Contents(messages) ==
    LET kept == At(messages, Kept(messages))
    IN [n \in DOMAIN kept |-> TurnOf(messages, kept[n])]

\* What the other adapters send: the messages, perhaps with their contents as strings.
Forwarded(messages) ==
    [n \in DOMAIN messages |->
        LET m == messages[n]
        IN Turn(m.role, ContentToString(m.form),
                IF m.role = "tool" THEN <<ResponsePart(m.id, m.name)>>
                ELSE [i \in DOMAIN m.calls |-> CallPart(Mapped(m.calls[i]))])]

-----------------------------------------------------------------------------
\* The client.

\* Where the client stands: its last assistant message, and the calls of it that it
\* has yet to run; it notes which one it runs.
Asking == {i \in DOMAIN history : history[i].role = "assistant"}
Unanswered ==
    IF Asking = {} THEN {}
    ELSE LET a == CHOOSE i \in Asking : \A j \in Asking : j <= i
         IN {n \in DOMAIN history[a].calls :
                \A j \in a + 1..Len(history) : history[j].ran # <<n, history[a].calls[n].name>>}

Speak ==
    /\ stage = "client" /\ Unanswered = {}
    /\ history # <<>> => history[Len(history)].role \in {"system", "assistant"}
    /\ \E f \in UserForms :
        history' = Append(history, Message("user", f, <<>>, NoCallId, Absent, NotRun))
    /\ UNCHANGED <<naming, stage, request, said>>

\* The calls of one message may finish in any order.
RunTool ==
    /\ stage = "client"
    /\ \E n \in Unanswered :
        LET c == history[CHOOSE i \in Asking : \A j \in Asking : j <= i].calls[n]
        IN history' = Append(history, Message("tool", "string", <<>>, c.id,
                                              IF naming THEN c.name ELSE Absent, <<n, c.name>>))
    /\ UNCHANGED <<naming, stage, request, said>>

\* The client sends its history; a message that the schema refuses is answered by 400.
Ask ==
    /\ stage = "client" /\ Unanswered = {} /\ history # <<>>
    /\ history[Len(history)].role \in {"user", "tool"}
    /\ stage' = IF \A i \in DOMAIN history : Accepted(history[i]) THEN "asked" ELSE "refused"
    /\ UNCHANGED <<history, naming, request, said>>

\* A pass of the retry loop, the first one or one after an error.
RouteTo(p) ==
    /\ stage = "asked" /\ request.to # p
    /\ request' = [to |-> p,
                   turns |-> IF p = "google" THEN Contents(history) ELSE Forwarded(history)]
    /\ UNCHANGED <<history, naming, stage, said>>

-----------------------------------------------------------------------------
\* The way back.

\* clash: calls got the same id; mute: why there is neither a text nor a call, or "no".
Mutes == {"no", "silent", "stream", "adapter"}
Told(calls, clash, mute) == [calls |-> calls, clash |-> clash, mute |-> mute]

Reply(form, calls, told) ==
    /\ history' = Append(history, Message("assistant", form, calls, NoCallId, Absent, NotRun))
    /\ said' = Append(said, told)
    /\ stage' = "client" /\ request' = NoRequest
    /\ UNCHANGED naming

\* Up to two calls; a stream may bring them in two lines, which are handled at
\* different times or within one millisecond.
Cuts == {"whole", "apart", "together"}
UpToTwo(S) == {<<>>} \cup {<<c>> : c \in S} \cup (S \X S)

\* extractToolCalls: the time stands for Date.now(), the place for fallbackIndex.
IdOf(calls, n, cut) ==
    LET unnamed == {j \in 1..(n - 1) : ~calls[j].given}
        time == 2 * Len(said) + (IF cut = "apart" THEN n ELSE 1)
    IN IF calls[n].given THEN <<"given", Len(said), n>>
       ELSE <<"made", time, IF cut = "whole" THEN Cardinality(unnamed) ELSE 0>>

NormalizeArgs(args) == IF args = Absent THEN "{}" ELSE args

Extracted(calls, cut) ==
    [n \in DOMAIN calls |-> [id |-> IdOf(calls, n, cut), name |-> calls[n].name,
                             args |-> NormalizeArgs(calls[n].args), sig |-> calls[n].sig]]

\* The stream does not pass on a call with the id, name and arguments of an earlier one.
Distinct(calls) ==
    IF Len(calls) = 2 /\ [calls[1] EXCEPT !.sig = calls[2].sig] = calls[2]
    THEN <<calls[1]>> ELSE calls

AnswerByGemini ==
    /\ stage = "asked" /\ request.to = "google" /\ Len(said) < MaxAnswers
    /\ \E text \in BOOLEAN, calls \in UpToTwo(GeminiCalls), cut \in Cuts :
        /\ Len(calls) < 2 => cut = "whole"
        /\ Reply(IF text THEN "string" ELSE "null", Distinct(Extracted(calls, cut)),
                 Told(calls, cut = "together" /\ \A n \in DOMAIN calls : ~calls[n].given,
                      IF text \/ calls # <<>> THEN "no" ELSE "silent"))

\* normalizeChoices: without calls, reasoning takes the place of an empty content.
Folded(form, calls, reasoned) ==
    CASE form = "blocks" -> "string"
      [] form \in {"empty", "null"} /\ calls = <<>> /\ reasoned -> "string"
      [] OTHER -> form

\* It is applied to answers that are no stream, and only by the adapter that most
\* providers share: those of Cohere and Cloudflare pass theirs on as they are.
WhyMute(reasoned, stream, compat) ==
    CASE ~reasoned -> "silent"
      [] stream -> "stream"
      [] ~compat -> "adapter"
      [] OTHER -> "no"

AnswerByOther ==
    /\ stage = "asked" /\ request.to \notin {"google", Absent} /\ Len(said) < MaxAnswers
    /\ \E form \in {"string", "blocks", "null"}, calls \in UpToTwo(OtherCalls),
          reasoned, stream, compat \in BOOLEAN :
        Reply(IF compat /\ ~stream THEN Folded(form, calls, reasoned) ELSE form,
              [n \in DOMAIN calls |-> [id |-> <<"given", Len(said), n>>, name |-> calls[n].name,
                                       args |-> calls[n].args, sig |-> calls[n].sig]],
              Told(calls, FALSE, IF form # "null" \/ calls # <<>> THEN "no"
                                 ELSE WhyMute(reasoned, stream, compat)))

ChatNext ==
    \/ Speak \/ RunTool \/ Ask
    \/ \E p \in {"google", "other"} : RouteTo(p)
    \/ AnswerByGemini \/ AnswerByOther

ChatSpec == ChatInit /\ [][ChatNext]_chatVars
-----------------------------------------------------------------------------
\* Properties.

AllCalls == GeminiCalls \cup OtherCalls
Names == {c.name : c \in AllCalls} \cup {Absent}
Sigs == {c.sig : c \in AllCalls} \cup {Absent}
Ids == {"given", "made", Absent} \X Nat \X Nat
HistoryCalls == [id : Ids, name : Names, args : Arguments, sig : Sigs]
Messages == [role : {"system", "user", "assistant", "tool"}, form : Forms,
             calls : Seq(HistoryCalls), id : Ids, name : Names, ran : Nat \X Names]
Answers == [calls : Seq(AllCalls), clash : BOOLEAN, mute : Mutes]

ChatTypeOK ==
    /\ history \in Seq(Messages) /\ naming \in BOOLEAN
    /\ stage \in {"client", "asked", "refused"}
    /\ request.to \in {Absent, "google", "other"}
    /\ said \in Seq(Answers)
    /\ Len(said) <= MaxAnswers

\* The places of the calls that models have made, of the tools that have been run,
\* and of the parts of one kind in the request.
MadeAt == UNION {{k} \X DOMAIN said[k].calls : k \in DOMAIN said}
RanAt == {i \in DOMAIN history : history[i].role = "tool"} \X {1}
PartsAt(kind) ==
    UNION {{<<t, n>> : n \in {i \in DOMAIN request.turns[t].parts :
                                 request.turns[t].parts[i].kind = kind}}
             : t \in DOMAIN request.turns}
Part(p) == request.turns[p[1]].parts[p[2]]

NoClash == \A i \in DOMAIN said : ~said[i].clash

\* Every request to Gemini holds all calls that any model has made in this
\* conversation, in order, with the arguments as they were and with the signature of
\* Gemini's thought, which it wants to have back; unless two calls came without an id
\* in two lines of one millisecond.
CallsReturned ==
    /\ ChatTypeOK
    /\ request.to = "google" /\ NoClash =>
         \E back \in Matchings(MadeAt, PartsAt("call")) :
            \A p \in MadeAt :
                LET made == said[p[1]].calls[p[2]]
                IN /\ Part(back[p]).name = made.name /\ Part(back[p]).sig = made.sig
                   /\ made.args = "object" => Part(back[p]).args = "object"

\* Every result that Gemini gets names the function that the client has run, and one
\* call only, which is of that function and stands before the result; whether the
\* client names the function or not.
ResponsesNamed ==
    request.to = "google" /\ NoClash =>
        \E response \in Matchings(RanAt, PartsAt("response")) :
            \A p \in RanAt :
                LET result == Part(response[p])
                    answered == {q \in PartsAt("call") : Part(q).id = result.id}
                IN /\ result.name = history[p[1]].ran[2]
                   /\ Cardinality(answered) = 1
                   /\ \A q \in answered :
                        Part(q).name = result.name /\ Before(q, response[p])

\* The proxy accepts again, as part of a history, every answer that it has given,
\* unless the model had nothing to say, or nothing but reasoning where nobody puts it
\* in the place of the content.
AnswersAccepted == stage = "refused" => \E i \in DOMAIN said : said[i].mute # "no"
=============================================================================
