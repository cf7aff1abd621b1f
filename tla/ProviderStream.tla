---------------------------- MODULE ProviderStream ----------------------------
(***************************************************************************)
(* One streamed answer: streamChatCompletion of a provider (google.ts, or    *)
(* openai-compat.ts, which cohere.ts and cloudflare.ts repeat), the timeouts *)
(* of base.ts under it, and the loop of routes/proxy.ts that passes its      *)
(* chunks on to the client.                                                  *)
(*                                                                          *)
(* The provider sends lines, and the network cuts them anywhere: a line is   *)
(* two units, its text and its newline, and a read returns one unit or more. *)
(***************************************************************************)
EXTENDS Positions, Functions

CONSTANTS
    Lines,      \* the lines that the provider may send, see LineAssumption
    NoId,       \* a call of a function that comes without an id
    MaxLines    \* bound: lines of the answer

\* "bare" is JSON without choices or candidates, such as {"error": ...}; "junk" is
\* what is no JSON, or no data at all.
Sorts == {"data", "bare", "junk", "done"}

ASSUME LineAssumption ==
    /\ Lines \subseteq [sort : Sorts, text : STRING,
                       calls : Seq([id : STRING, name : STRING]), fin : STRING]
    /\ NoId \in STRING
ASSUME NumberAssumption == MaxLines \in Nat

VARIABLES
    kind,     \* whose adapter it is: "google" or "openai"
    lines,    \* what the provider has sent, its last line perhaps in part
    sent,     \* units of it
    body,     \* the response body: "open", "ended", "broken"
    read,     \* units that the adapter has read
    parsed,   \* complete lines that it has handled
    phase,    \* of the handler: "fetching", "reading", "ended", "thrown"
    now,      \* Date.now(), as far as two calls see the same or not
    state,    \* the locals of the generator
    out       \* what has been written to the client

vars == <<kind, lines, sent, body, read, parsed, phase, now, state, out>>

None == ""

\* The locals that parsing changes, and the chunks that it yields.
Fresh == [seen |-> {}, saw |-> FALSE, returned |-> FALSE, failed |-> FALSE, yields |-> <<>>]

Chunk(text, calls, fin) == [tag |-> "chunk", text |-> text, calls |-> calls, fin |-> fin]
ErrorFrame == [tag |-> "error", text |-> None, calls |-> <<>>, fin |-> None]
DoneFrame == [tag |-> "done", text |-> None, calls |-> <<>>, fin |-> None]

TypeOK ==
    /\ kind \in {"google", "openai"}
    /\ lines \in Seq(Lines) /\ Len(lines) <= MaxLines
    /\ sent \in 0..(2 * Len(lines)) /\ read \in 0..sent /\ parsed \in 0..(read \div 2)
    /\ body \in {"open", "ended", "broken"}
    /\ phase \in {"fetching", "reading", "ended", "thrown"}
    /\ now \in 0..MaxLines
    /\ state.yields = <<>> /\ state.saw \in BOOLEAN /\ state.returned \in BOOLEAN
    \* An answer that has been given up for another attempt has sent nothing.
    /\ phase \in {"fetching", "thrown"} => out = <<>>
    \* One that has begun ends with [DONE].
    /\ phase = "ended" <=> out # <<>> /\ out[Len(out)] = DoneFrame

Init ==
    /\ kind \in {"google", "openai"}
    /\ lines = <<>> /\ sent = 0 /\ read = 0 /\ parsed = 0
    /\ body = "open" /\ phase = "fetching"
    /\ now = 0 /\ state = Fresh /\ out = <<>>

-----------------------------------------------------------------------------
\* The provider and the network; what they do after the answer is of no account.

SendText ==
    /\ phase = "reading" /\ body = "open" /\ sent = 2 * Len(lines) /\ Len(lines) < MaxLines
    /\ \E l \in Lines : lines' = Append(lines, l)
    /\ sent' = sent + 1
    /\ UNCHANGED <<kind, body, read, parsed, phase, now, state, out>>

SendNewline ==
    /\ phase = "reading" /\ body = "open" /\ sent < 2 * Len(lines)
    /\ sent' = sent + 1
    /\ UNCHANGED <<kind, lines, body, read, parsed, phase, now, state, out>>

\* The body ends, perhaps within a line, or the connection breaks.
EndBody ==
    /\ phase = "reading" /\ body = "open"
    /\ body' \in {"ended", "broken"}
    /\ UNCHANGED <<kind, lines, sent, read, parsed, phase, now, state, out>>

Clock ==
    /\ phase = "reading" /\ now < MaxLines /\ now < Len(lines)
    /\ now' = now + 1
    /\ UNCHANGED <<kind, lines, sent, body, read, parsed, phase, state, out>>

-----------------------------------------------------------------------------
\* One line in the adapter for Gemini.

\* extractToolCalls: a call without an id gets one from the clock and its place
\* among those of its line.
Identified(calls) ==
    [i \in DOMAIN calls |->
        [name |-> calls[i].name,
         id |-> IF calls[i].id # NoId THEN <<calls[i].id, 0, 0>>
                ELSE LET before == {j \in 1..(i - 1) : calls[j].id = NoId}
                     IN <<NoId, now, Cardinality(before)>>]]

\* The calls of a line that have not been passed on; a line may hold one twice.
\* Mutant: what has been passed on is not remembered.
Unseen_forgets(g, calls) == calls
Unseen(g, calls) ==
    LET first == {i \in DOMAIN calls :
                    calls[i] \notin g.seen /\ \A j \in 1..(i - 1) : calls[j] # calls[i]}
    IN At(calls, first)

\* toGeminiFinishReason.
FinishReason(fin) ==
    CASE fin = "MAX_TOKENS" -> "length"
      [] fin \in {"SAFETY", "RECITATION", "BLOCKLIST", "PROHIBITED_CONTENT", "SPII"} ->
           "content_filter"
      [] OTHER -> "stop"

\* Mutant: the reason of the provider is passed on, calls or not.
Finish_asGiven(g, fin) ==
    [g EXCEPT !.returned = TRUE,
              !.yields = Append(@, Chunk(None, <<>>, FinishReason(fin)))]
Finish(g, fin) ==
    [g EXCEPT !.returned = TRUE,
              !.yields = Append(@, Chunk(None, <<>>,
                  IF g.saw THEN "tool_calls" ELSE FinishReason(fin)))]

\* Text and calls of a line make one chunk.
Content(g, l) ==
    LET calls == Unseen(g, Identified(l.calls))
    IN IF l.text = None /\ calls = <<>> THEN g
       ELSE [g EXCEPT !.seen = @ \cup Range(calls),
                      !.saw = @ \/ calls # <<>>,
                      !.yields = Append(@, Chunk(l.text, calls, None))]

Gemini(g, l) ==
    CASE l.sort = "done" -> Finish(g, None)
      [] l.sort = "data" -> IF l.fin = None THEN Content(g, l) ELSE Finish(Content(g, l), l.fin)
      [] OTHER -> g

\* One line in the other adapters: what can be parsed is passed on as it is.  The
\* handler looks for choices in it, and throws when there are none.
Passed(g, l) ==
    CASE l.sort = "done" -> [g EXCEPT !.returned = TRUE]
      [] l.sort = "bare" -> [g EXCEPT !.returned = TRUE, !.failed = TRUE]
      [] l.sort = "data" -> [g EXCEPT !.yields = Append(@, Chunk(l.text, l.calls, l.fin))]
      [] OTHER -> g

Parse(g, l) == IF kind = "google" THEN Gemini(g, l) ELSE Passed(g, l)

-----------------------------------------------------------------------------
\* The handler.

\* The request is answered by headers that say ok, by an error, or not in time.
Started == phase' = "reading"
NotOk == phase' = "thrown"
TimedOut == phase' = "thrown"
Fetch ==
    /\ phase = "fetching"
    /\ Started \/ NotOk \/ TimedOut
    /\ UNCHANGED <<kind, lines, sent, body, read, parsed, now, state, out>>

\* What is left at the end of a body: the Gemini adapter makes up a finish.
AtEnd(g) == IF kind = "google" /\ ~g.returned THEN Finish(g, None) ELSE g

\* The chunks are written as they come, and [DONE] when there are no more; an error
\* before it when the handler itself has thrown: the stream counts as begun then.
Write(g, over) ==
    /\ out' = out \o (g.yields \o (IF g.failed THEN <<ErrorFrame>> ELSE <<>>)
                            \o (IF over THEN <<DoneFrame>> ELSE <<>>))
    /\ state' = [g EXCEPT !.yields = <<>>]
    /\ phase' = IF over THEN "ended" ELSE phase

\* The lines that a read completes; the text of one that is not complete stays in
\* the buffer.
Complete == read \div 2

\* The adapter reads on when it has handled them.
\* Mutant: the buffer is emptied at each read, so that a line that was cut is lost.
Read_noBuffer ==
    /\ phase = "reading" /\ parsed = Complete
    /\ \E n \in 1..(sent - read) : read' = read + n
    /\ parsed' = parsed + (read % 2)
    /\ UNCHANGED <<kind, lines, sent, body, phase, now, state, out>>
Read ==
    /\ phase = "reading" /\ parsed = Complete
    /\ \E n \in 1..(sent - read) : read' = read + n
    /\ UNCHANGED <<kind, lines, sent, body, parsed, phase, now, state, out>>

\* The generator is asked for the next chunk when the last one has been written, and
\* returns at the line that ends the answer, whatever else it has read.
NextLine ==
    /\ phase = "reading" /\ parsed < Complete
    /\ LET g == Parse(state, lines[parsed + 1]) IN Write(g, g.returned)
    /\ parsed' = parsed + 1
    /\ UNCHANGED <<kind, lines, sent, body, read, now>>

ReadEnd ==
    /\ phase = "reading" /\ parsed = Complete /\ body = "ended" /\ read = sent
    /\ Write(AtEnd(state), TRUE)
    /\ UNCHANGED <<kind, lines, sent, body, read, parsed, now>>

\* The catch around the loop: a stream that has begun ends with an error, one that
\* has not is thrown on to the loop over the models.
Interrupted ==
    IF out = <<>> THEN phase' = "thrown" /\ out' = out
    ELSE phase' = "ended" /\ out' = out \o <<ErrorFrame, DoneFrame>>

\* A connection that breaks takes with it what has not been read.
ReadBreaks ==
    /\ phase = "reading" /\ parsed = Complete /\ body = "broken"
    /\ Interrupted
    /\ UNCHANGED <<kind, lines, sent, body, read, parsed, now, state>>

\* readChunkWithIdleTimeout: nothing has come for a while.  The reader is cancelled
\* before the promise is rejected, so that the read under way is done first: for the
\* adapter the body has ended, and what may still come is lost.
\* Mutant: a read waits as long as it takes.
IdleTimeout_none == FALSE /\ UNCHANGED vars
IdleTimeout ==
    /\ phase = "reading" /\ parsed = Complete /\ body = "open"
    /\ Write(AtEnd(state), TRUE)
    /\ UNCHANGED <<kind, lines, sent, body, read, parsed, now>>

Next ==
    \/ SendText \/ SendNewline \/ EndBody \/ Clock
    \/ Fetch \/ Read \/ NextLine \/ ReadEnd \/ ReadBreaks \/ IdleTimeout

\* Nothing is asked of the provider: the timeouts and the event loop do it.
Fairness == WF_vars(Fetch) /\ WF_vars(Read \/ NextLine \/ ReadEnd \/ ReadBreaks \/ IdleTimeout)

Spec == Init /\ [][Next]_vars
FairSpec == Spec /\ Fairness

-----------------------------------------------------------------------------
\* Properties.

\* The stream of a Gemini model tells how it ended at most once, says nothing after
\* that, and tells it at least once if no error has cut it off.  It ends with
\* "tool_calls" if and only if the client has been sent a call, whatever Gemini gave
\* as its reason and wherever the calls stood.
FinishSaysCalls ==
    /\ TypeOK
    /\ kind = "google" =>
        /\ \A i, j \in DOMAIN out : i < j /\ out[i].fin # None => out[j].tag # "chunk"
        /\ (phase = "ended" /\ \A i \in DOMAIN out : out[i].tag # "error")
           => \E i \in DOMAIN out : out[i].fin # None
        /\ \A i \in DOMAIN out :
            out[i].fin # None =>
                (out[i].fin = "tool_calls" <=> \E j \in 1..i : out[j].calls # <<>>)

\* The lines of data that count: of those that have been handled, or that have arrived
\* as a whole when the answer is over, up to the one that ends it.
Arrived == IF phase = "reading" THEN parsed ELSE Complete
Ends(l) ==
    \/ l.sort = "done"
    \/ kind = "openai" /\ l.sort = "bare"
    \/ kind = "google" /\ l.sort = "data" /\ l.fin # None
Counted ==
    {i \in 1..Arrived : lines[i].sort = "data" /\ \A j \in 1..(i - 1) : ~Ends(lines[j])}

\* No call reaches the client twice, in two chunks or in one, although Gemini may
\* repeat it line by line; and each one that has an id of its own does reach it.
CallsOnce ==
    kind = "google" =>
        /\ \A i \in DOMAIN out :
            /\ IsInjective(out[i].calls)
            /\ \A j \in 1..(i - 1) : Range(out[i].calls) \cap Range(out[j].calls) = {}
        /\ \A i \in Counted : \A c \in Range(lines[i].calls) :
            c.id # NoId =>
                \E j \in DOMAIN out :
                    [name |-> c.name, id |-> <<c.id, 0, 0>>] \in Range(out[j].calls)

\* The text that the client has got is that of the lines that have arrived as a whole,
\* in order and without a gap, up to the one that ends the answer: however the
\* network has cut them.
Due == {i \in Counted : lines[i].text # None}
Got == {i \in DOMAIN out : out[i].text # None}
TextWhole ==
    \E place \in [Due -> Got] :
        /\ \A i, j \in Due : i < j => place[i] < place[j]
        /\ Range(place) = Got
        /\ \A i \in Due : out[place[i]].text = lines[i].text

\* Whatever the provider does, also when it goes silent in the middle of a line, the
\* client's stream is closed or the request goes on with another model.
StreamEnds == <>(phase \in {"ended", "thrown"})
=============================================================================
