---------------------------- MODULE ProviderStream ----------------------------
(***************************************************************************)
(* What a provider's response becomes: the incremental observer and its    *)
(* four stream parsers (model/provider-observation.ts), and the compiled   *)
(* model turn (model/attempt.ts).                                          *)
(*                                                                         *)
(* The provider has a message to say; its records arrive in pieces over a  *)
(* connection that may end anywhere, may be aborted anywhere, and passes a *)
(* relay that may lose, repeat, swap or insert one record.  A text is the  *)
(* sequence of its fragments.                                              *)
(***************************************************************************)
EXTENDS Naturals, Sequences, FiniteSets, SequencesExt

CONSTANTS
    MaxUnits,      \* MODEL_RESPONSE_LIMIT_BYTES, in thirds of a record
    MaxTokens      \* the reserved tokens of the attempt

Text(s) == [kind |-> "text", id |-> <<>>, got |-> s]
Think(s) == [kind |-> "thinking", id |-> <<>>, got |-> s]
Tool(c, s) == [kind |-> "tool", id |-> <<c>>, got |-> s]
Messages ==
    {[items |-> <<Text(<<"x", "y">>)>>, raw |-> "stop", usage |-> 1],
     [items |-> <<Text(<<"x">>)>>, raw |-> "stop", usage |-> 2],
     [items |-> <<Text(<<"x">>)>>, raw |-> "length", usage |-> 0],
     [items |-> <<Think(<<"k">>), Text(<<"x">>), Tool("c1", <<"p", "q">>)>>, raw |-> "tool", usage |-> 0],
     [items |-> <<Tool("c1", <<"p">>), Tool("c2", <<>>)>>, raw |-> "tool", usage |-> 0],
     [items |-> <<Tool("c1", <<"p">>), Tool("c1", <<"q">>)>>, raw |-> "tool", usage |-> 0],
     [items |-> <<Tool("c1", <<"p">>)>>, raw |-> "stop", usage |-> 0]}
Providers == {"openai", "anthropic", "ollama", "openrouter"}

VARIABLES
    wire,          \* what is said, by whom, in which form, and the records that are sent
    at,            \* how much arrived: whole records, and thirds of the next
    parser,        \* the state of the running parser
    events,        \* what the observer has told the user interface
    error,         \* the observer's error
    obs,           \* the observation
    turn           \* the compiled result
vars == <<wire, at, parser, events, error, obs, turn>>

-----------------------------------------------------------------------------
(* The records of a message *)

Record(type) == [type |-> type, index |-> 0, item |-> Text(<<>>), piece |-> <<>>, raw |-> "", model |-> TRUE,
                 rid |-> 1, usage |-> 0, out |-> <<>>]
IsTool(b) == b.kind = "tool"
ToolsBefore(items, i) == Len(SelectSeq(SubSeq(items, 1, i - 1), IsTool))
Each(items, F(_)) == FlattenSeq([i \in 1..Len(items) |-> F(i)])

AnthropicScript(m) ==
    LET block(i) ==
          LET b == m.items[i] IN
          <<[Record("content_block_start") EXCEPT !.index = i - 1, !.item = [b EXCEPT !.got = <<>>]]>>
          \o [j \in 1..Len(b.got) |->
                [Record("content_block_delta") EXCEPT !.index = i - 1, !.item = b, !.piece = <<b.got[j]>>]]
          \o <<[Record("content_block_stop") EXCEPT !.index = i - 1]>>
    IN <<Record("message_start")>> \o Each(m.items, block)
       \o <<[Record("message_delta") EXCEPT !.raw = m.raw, !.usage = m.usage], Record("message_stop")>>

OpenAiScript(m) ==
    LET chunks(i) ==
          LET b == m.items[i]
              to == [Record("choice") EXCEPT !.index = ToolsBefore(m.items, i), !.item = [b EXCEPT !.id = <<>>]]
          IN (IF IsTool(b) THEN <<[to EXCEPT !.item = b]>> ELSE <<>>)
             \o [j \in 1..Len(b.got) |-> [to EXCEPT !.piece = <<b.got[j]>>]]
    IN Each(m.items, chunks) \o <<[Record("finish") EXCEPT !.raw = m.raw]>>
       \o (IF m.usage = 0 THEN <<>> ELSE <<[Record("usage") EXCEPT !.usage = m.usage]>>)
       \o <<Record("[DONE]")>>

OllamaScript(m) ==
    LET entries(i) ==
          LET b == m.items[i] IN
          IF IsTool(b) THEN <<[Record("entry") EXCEPT !.item = b, !.piece = b.got]>>
          ELSE [j \in 1..Len(b.got) |-> [Record("entry") EXCEPT !.item = b, !.piece = <<b.got[j]>>]]
    IN Each(m.items, entries) \o <<[Record("done") EXCEPT !.raw = m.raw, !.usage = m.usage]>>

ResponsesScript(m) ==
    LET item(i) ==
          LET b == m.items[i]
              to(type) == [Record(type) EXCEPT !.index = i - 1, !.item = b]
          IN <<[to("output_item.added") EXCEPT !.item = [b EXCEPT !.got = <<>>]]>>
             \o [j \in 1..Len(b.got) |-> [to("delta") EXCEPT !.piece = <<b.got[j]>>]]
             \o <<to("output_item.done")>>
    IN <<Record("created")>> \o Each(m.items, item)
       \o <<[Record("completed") EXCEPT !.out = m.items, !.raw = m.raw, !.usage = m.usage]>>

Script(p, m) ==
    CASE p = "openai" -> ResponsesScript(m)
      [] p = "anthropic" -> AnthropicScript(m)
      [] p = "ollama" -> OllamaScript(m)
      [] p = "openrouter" -> OpenAiScript(m)

\* The relay: the script it passes on, and the records it harmed.
Inserted(p) == {Record("error"), Record("ping"), [Script(p, CHOOSE m \in Messages : TRUE)[1] EXCEPT !.model = FALSE]}
Relayed(p, s) ==
    {[script |-> s, harm |-> {}]}
    \cup {[script |-> RemoveAt(s, i), harm |-> {s[i]}] : i \in 1..Len(s)}
    \cup {[script |-> InsertAt(s, i, s[i]), harm |-> {s[i]}] : i \in 1..Len(s)}
    \cup {[script |-> [s EXCEPT ![i] = s[i + 1], ![i + 1] = s[i]], harm |-> {s[i], s[i + 1]}] : i \in 1..(Len(s) - 1)}
    \cup {[script |-> InsertAt(s, i, r), harm |-> {r}] : i \in 1..Len(s), r \in Inserted(p)}

-----------------------------------------------------------------------------
(* The stream parsers *)

Fresh == [rid |-> 0, n |-> 0, text |-> <<>>, raw |-> "", done |-> FALSE, usage |-> 0, blocks |-> <<>>,
          out |-> <<>>, events |-> <<>>, bad |-> ""]
Bad(s, why) == [s EXCEPT !.bad = why]
Event(type, index, got) == <<[type |-> type, index |-> index, got |-> got]>>
Emit(s, es) == [s EXCEPT !.events = @ \o es]
DeltaOf(b, index, piece) ==
    Event(CASE b.kind = "text" -> "text" [] b.kind = "thinking" -> "reasoning" [] OTHER -> "args", index, piece)

openAiStopReason(raw) ==
    CASE raw = "stop" -> "end" [] raw = "tool" -> "tool_calls" [] raw = "length" -> "length" [] OTHER -> "unknown"
anthropicStopReason(raw) == openAiStopReason(raw)
ollamaStopReason(raw, calls) == IF calls > 0 /\ raw \in {"stop", "tool"} THEN "tool_calls" ELSE openAiStopReason(raw)

\* A block is one started call, text or thought: its wire index, identity, fragments
\* and whether it ended.
Block(r, index) == [index |-> index, kind |-> r.item.kind, id |-> r.item.id, got |-> <<>>, stopped |-> FALSE]
At(s, index) == {j \in 1..Len(s.blocks) : s.blocks[j].index = index}
Grow(s, j, piece) == [s EXCEPT !.blocks[j].got = @ \o piece]
Calls(s) == SelectSeq(s.blocks, IsTool)
CallIndex(s, j) == ToolsBefore(s.blocks, j)

createOpenAiStream(s, r) ==
    LET seen == [s EXCEPT !.n = @ + 1, !.rid = r.rid]
        old == At(s, r.index)
        added == IF old = {} THEN Emit([seen EXCEPT !.blocks = Append(@, [Block(r, r.index) EXCEPT !.id = <<>>])],
                                      Event("start", r.index, <<>>)) ELSE seen
        j == CHOOSE i \in At(added, r.index) : TRUE
        named == [added EXCEPT !.blocks[j].id = @ \o r.item.id]
    IN IF r.type = "[DONE]" THEN IF s.done THEN Bad(s, "malformed") ELSE [s EXCEPT !.done = TRUE]
       ELSE IF r.type = "ping" THEN s
       ELSE IF s.done THEN Bad(s, "malformed")
       ELSE IF r.type = "error" THEN Bad(s, "provider_rejection")
       ELSE IF ~r.model THEN Bad(s, "capability_shape_mismatch")
       ELSE IF s.rid \notin {0, r.rid} THEN Bad(s, "malformed")
       ELSE IF r.usage # 0 /\ s.usage # 0 THEN Bad(s, "malformed")
       ELSE IF r.type = "usage" THEN [seen EXCEPT !.usage = r.usage]
       ELSE IF s.raw # "" THEN Bad(s, "malformed")
       ELSE IF r.type = "finish" THEN [seen EXCEPT !.raw = r.raw]
       ELSE IF ~IsTool(r.item) THEN
               Emit(IF r.item.kind = "text" THEN [seen EXCEPT !.text = @ \o r.piece] ELSE seen, DeltaOf(r.item, 0, r.piece))
       ELSE IF r.piece = <<>> THEN named ELSE Emit(Grow(named, j, r.piece), Event("args", r.index, r.piece))

createAnthropicStream(s, r) ==
    LET j == r.index + 1
        known == j \in 1..Len(s.blocks)
        stopped == \A i \in 1..Len(s.blocks) : s.blocks[i].stopped
    IN IF r.type = "error" THEN Bad(s, "provider_rejection")
       ELSE IF r.type = "ping" THEN s
       ELSE IF s.done THEN Bad(s, "malformed")
       ELSE IF r.type = "message_start" THEN
               IF s.n > 0 THEN Bad(s, "malformed")
               ELSE IF ~r.model THEN Bad(s, "capability_shape_mismatch") ELSE [s EXCEPT !.n = 1]
       ELSE IF s.n = 0 THEN Bad(s, "malformed")
       ELSE IF r.type = "content_block_start" THEN
               IF r.index # Len(s.blocks) THEN Bad(s, "malformed")
               ELSE LET t == [s EXCEPT !.blocks = Append(@, Block(r, r.index))]
                    IN IF IsTool(r.item) THEN Emit(t, Event("start", CallIndex(t, j), <<>>)) ELSE t
       ELSE IF r.type = "content_block_delta" THEN
               IF ~known THEN Bad(s, "malformed")
               ELSE IF s.blocks[j].stopped \/ s.blocks[j].kind # r.item.kind THEN Bad(s, "malformed")
               ELSE Emit(Grow(s, j, r.piece), DeltaOf(r.item, CallIndex(s, j), r.piece))
       ELSE IF r.type = "content_block_stop" THEN
               IF ~known THEN Bad(s, "malformed")
               ELSE IF s.blocks[j].stopped THEN Bad(s, "malformed")
               ELSE LET t == [s EXCEPT !.blocks[j].stopped = TRUE]
                    IN IF IsTool(t.blocks[j]) THEN Emit(t, Event("complete", CallIndex(t, j), <<>>)) ELSE t
       ELSE IF r.type = "message_delta" THEN
               IF s.raw # "" \/ ~stopped THEN Bad(s, "malformed") ELSE [s EXCEPT !.raw = r.raw, !.usage = r.usage]
       ELSE  \* message_stop
               IF s.raw = "" \/ ~stopped THEN Bad(s, "malformed") ELSE [s EXCEPT !.done = TRUE]

createOllamaStream(s, r) ==
    LET index == Len(Calls(s)) IN
    IF r.type = "ping" THEN s
    ELSE IF s.done THEN Bad(s, "malformed")
    ELSE IF r.type = "error" THEN Bad(s, "provider_rejection")
    ELSE IF ~r.model THEN Bad(s, "capability_shape_mismatch")
    ELSE IF r.type = "done" THEN [s EXCEPT !.done = TRUE, !.raw = r.raw, !.usage = r.usage]
    ELSE IF IsTool(r.item) THEN
            Emit([s EXCEPT !.blocks = Append(@, [Block(r, index) EXCEPT !.got = r.piece])],
                 Event("start", index, <<>>) \o Event("args", index, r.piece) \o Event("complete", index, <<>>))
    ELSE Emit(IF r.item.kind = "text" THEN [s EXCEPT !.text = @ \o r.piece] ELSE s, DeltaOf(r.item, 0, r.piece))

\* The terminal response repeats every item, and must agree with what was streamed.
TextOf(items) == FlattenSeq([i \in 1..Len(items) |-> IF items[i].kind = "text" THEN items[i].got ELSE <<>>])
Same(b, item) == b.kind = item.kind /\ b.id = item.id
\* Mutant: the terminal response is taken without a comparison.
Completed_Trusting(s, r) == TRUE
Completed(s, r) ==
    /\ \A j \in 1..Len(s.blocks) :
          /\ j <= Len(r.out) /\ Same(s.blocks[j], r.out[j])
          /\ IsTool(s.blocks[j]) /\ s.blocks[j].got # <<>> => r.out[j].got = s.blocks[j].got
    /\ s.text # <<>> => s.text = TextOf(r.out)
createResponsesStream(s, r) ==
    LET j == r.index + 1
        open == j \in 1..Len(s.blocks) /\ ~s.blocks[j].stopped
        response == r.type \in {"created", "completed"}
    IN IF r.type = "ping" THEN s
       ELSE IF s.done THEN Bad(s, "malformed")
       ELSE IF r.type = "error" THEN Bad(s, "provider_rejection")
       ELSE IF response /\ ~r.model THEN Bad(s, "capability_shape_mismatch")
       ELSE IF response /\ s.rid \notin {0, r.rid} THEN Bad(s, "malformed")
       ELSE IF r.type = "created" THEN [s EXCEPT !.rid = r.rid]
       ELSE IF r.type = "completed" THEN
               IF Completed(s, r) THEN [s EXCEPT !.done = TRUE, !.out = r.out, !.raw = r.raw, !.usage = r.usage]
               ELSE Bad(s, "malformed")
       ELSE IF r.type = "output_item.added" THEN
               IF r.index # Len(s.blocks) THEN Bad(s, "malformed")
               ELSE LET t == [s EXCEPT !.blocks = Append(@, Block(r, r.index))]
                    IN IF IsTool(r.item) THEN Emit(t, Event("start", CallIndex(t, j), <<>>)) ELSE t
       ELSE IF ~open THEN Bad(s, "malformed")
       ELSE IF r.type = "output_item.done" THEN
               IF Same(s.blocks[j], r.item) /\ (IsTool(r.item) /\ s.blocks[j].got # <<>> => r.item.got = s.blocks[j].got)
               THEN [s EXCEPT !.blocks[j].stopped = TRUE] ELSE Bad(s, "malformed")
       ELSE  \* delta
               IF s.blocks[j].kind # r.item.kind THEN Bad(s, "malformed")
               ELSE LET t == Grow(s, j, r.piece)
                    IN Emit(IF r.item.kind = "text" THEN [t EXCEPT !.text = @ \o r.piece] ELSE t,
                            DeltaOf(r.item, CallIndex(s, j), r.piece))

Push(p, s, r) ==
    CASE p = "openai" -> createResponsesStream(s, r)
      [] p = "anthropic" -> createAnthropicStream(s, r)
      [] p = "ollama" -> createOllamaStream(s, r)
      [] p = "openrouter" -> createOpenAiStream(s, r)

-----------------------------------------------------------------------------
(* The end of a response *)

Indexed(calls) == [k \in 1..Len(calls) |-> [index |-> k - 1, id |-> calls[k].id, got |-> calls[k].got]]
IsThought(b) == b.kind = "thinking"
Thoughts(items) == LET t == SelectSeq(items, IsThought) IN [k \in 1..Len(t) |-> t[k].got]
Decoded(stop, text, calls, cont, usage) ==
    [kind |-> "decoded", stop |-> stop, text |-> text, calls |-> calls, cont |-> cont, usage |-> usage]
Failure(kind) == [kind |-> kind, stop |-> "", text |-> <<>>, calls |-> <<>>, cont |-> <<>>, usage |-> 0]

\* A whole response in one record.
parseResponsesJson(r) ==
    LET calls == Indexed(SelectSeq(r.out, IsTool)) IN
    Decoded(IF r.raw = "length" THEN "length" ELSE IF calls # <<>> THEN "tool_calls" ELSE "end",
            TextOf(r.out), calls, Thoughts(r.out), r.usage)
parseAnthropicJson(r) ==
    Decoded(anthropicStopReason(r.raw), TextOf(r.out), Indexed(SelectSeq(r.out, IsTool)), Thoughts(r.out), r.usage)
parseOllamaJson(r) ==
    LET calls == Indexed(SelectSeq(r.out, IsTool))
    IN Decoded(ollamaStopReason(r.raw, Len(calls)), TextOf(r.out), calls, <<>>, r.usage)
parseOpenAiJson(r) ==
    Decoded(openAiStopReason(r.raw), TextOf(r.out), Indexed(SelectSeq(r.out, IsTool)), <<>>, r.usage)
parseJson(p, r) ==
    IF r.type = "error" THEN Failure("provider_rejection")
    ELSE IF ~r.model THEN Failure("capability_shape_mismatch")
    ELSE IF p = "openai" THEN parseResponsesJson(r)
    ELSE IF p = "anthropic" THEN parseAnthropicJson(r)
    ELSE IF p = "ollama" THEN parseOllamaJson(r)
    ELSE parseOpenAiJson(r)
CallEvents(c) == Event("start", c.index, <<>>) \o Event("args", c.index, c.got) \o Event("complete", c.index, <<>>)
fullResponseEvents(f) ==
    (IF f.text = <<>> THEN <<>> ELSE Event("text", 0, f.text))
    \o FlattenSeq([k \in 1..Len(f.calls) |-> CallEvents(f.calls[k])])
    \o Event("end", 0, <<>>)

Incomplete(p, s) ==
    CASE p = "openrouter" -> s.n = 0 \/ ~s.done \/ s.raw = ""
      [] OTHER -> ~s.done
Ordered(blocks) == SortSeq(blocks, LAMBDA a, b : a.index < b.index)
finishAnthropicStream(s) ==
    Decoded(anthropicStopReason(s.raw), TextOf(s.blocks), Indexed(Calls(s)), Thoughts(s.blocks), s.usage)
finishOllamaStream(s) ==
    Decoded(ollamaStopReason(s.raw, Len(s.blocks)), s.text, Indexed(Calls(s)), <<>>, s.usage)
finishOpenAiStream(s) ==
    LET calls == Ordered(s.blocks)
    IN Decoded(openAiStopReason(s.raw), s.text,
               [k \in 1..Len(calls) |-> [index |-> calls[k].index, id |-> calls[k].id, got |-> calls[k].got]],
               <<>>, s.usage)
FieldsOf(p, s) ==
    CASE p = "openai" -> parseResponsesJson(s)
      [] p = "anthropic" -> finishAnthropicStream(s)
      [] p = "ollama" -> finishOllamaStream(s)
      [] OTHER -> finishOpenAiStream(s)

\* What is still to be told; the terminal response tells only what was not streamed.
LastEvents(p, s, f) ==
    LET streamed == {CallIndex(s, j) : j \in {i \in 1..Len(s.blocks) : IsTool(s.blocks[i]) /\ s.blocks[i].got # <<>>}}
        untold(e) == \/ e.type \in {"complete", "end"}
                     \/ e.type = "text" /\ s.text = <<>>
                     \/ e.type = "start" /\ e.index >= Len(Calls(s))
                     \/ e.type = "args" /\ e.index \notin streamed
    IN CASE p = "openai" -> SelectSeq(fullResponseEvents(f), untold)
         [] p = "openrouter" ->
               FlattenSeq([k \in 1..Len(f.calls) |-> Event("complete", f.calls[k].index, <<>>)]) \o Event("end", 0, <<>>)
         [] OTHER -> Event("end", 0, <<>>)

-----------------------------------------------------------------------------
(* createProviderResponseObserver *)

InOneRecord(m) == <<[Record("whole") EXCEPT !.out = m.items, !.raw = m.raw, !.usage = m.usage]>>
None == Failure("none")
Init ==
    /\ \E p \in Providers, m \in Messages :
          \/ /\ wire \in {[provider |-> p, message |-> m, json |-> FALSE, script |-> r.script, harm |-> r.harm] :
                             r \in Relayed(p, Script(p, m))}
             /\ error = ""
          \/ /\ wire \in {[provider |-> p, message |-> m, json |-> TRUE, script |-> s, harm |-> {}] :
                             s \in {InOneRecord(m), <<Record("error")>>, <<[InOneRecord(m)[1] EXCEPT !.model = FALSE]>>}}
             /\ error = ""
          \/ /\ wire = [provider |-> p, message |-> m, json |-> FALSE, script |-> Script(p, m), harm |-> {}]
             /\ error \in {"provider_rejection", "malformed"}       \* the status; the media type
    /\ at = [n |-> 0, part |-> 0]
    /\ parser = Fresh
    /\ events = <<>>
    /\ obs = None
    /\ turn = None

Length(a) == 3 * a.n + a.part
overLimit == Length(at) > MaxUnits
started == Length(at) > 0
startEvent == IF started THEN <<>> ELSE Event("start of response", 0, <<>>)

\* One third of a record arrives; its last third ends it.
push ==
    /\ obs = None /\ ~overLimit /\ at.n < Len(wire.script)
    /\ at' = IF at.part = 2 THEN [n |-> at.n + 1, part |-> 0] ELSE [at EXCEPT !.part = @ + 1]
    /\ LET s == Push(wire.provider, parser, wire.script[at.n + 1])
           parses == at.part = 2 /\ ~wire.json /\ Length(at') <= MaxUnits /\ error = ""
       IN IF parses /\ s.bad = ""
          THEN /\ parser' = [s EXCEPT !.events = <<>>]
               /\ events' = events \o startEvent \o s.events
               /\ UNCHANGED error
          ELSE /\ error' = IF parses THEN s.bad ELSE error
               /\ events' = events \o startEvent
               /\ UNCHANGED parser
    /\ UNCHANGED <<wire, obs, turn>>

\* The response ended, was cut off or was aborted.  A record cut off inside may leave
\* a line that is ignored, one that does not parse, or half a character.
finish ==
    /\ obs = None
    /\ \E aborted \in BOOLEAN, torn \in (IF at.part = 1 THEN {"ignored", "json", "utf8"} ELSE {""}) :
          LET p == wire.provider
              last == IF aborted \/ at.part = 0 \/ torn = "ignored" THEN parser
                      ELSE IF at.part = 2 THEN Push(p, parser, wire.script[at.n + 1])
                      ELSE Bad(parser, "malformed")
              cut == IF aborted THEN Decoded("cancelled", <<>>, <<>>, <<>>, 0) ELSE Failure("malformed")
              f == FieldsOf(p, last)
              result ==
                IF overLimit THEN Failure("prefix_over_limit")
                ELSE IF error # "" THEN Failure(error)
                ELSE IF torn = "utf8" THEN cut
                ELSE IF wire.json THEN IF Length(at) >= 2 THEN parseJson(p, wire.script[1]) ELSE cut
                ELSE IF last.bad # "" THEN Failure(last.bad)
                ELSE IF Incomplete(p, last) THEN cut
                ELSE f
          IN /\ obs' = result
             /\ events' = events \o startEvent \o
                  (IF result.kind # "decoded" THEN Event("error", 0, <<>>)
                   ELSE IF result.stop = "cancelled" THEN Event("end", 0, <<>>)
                   ELSE IF wire.json THEN fullResponseEvents(result)
                   ELSE last.events \o LastEvents(p, last, f))
    /\ UNCHANGED <<wire, at, parser, error, turn>>

-----------------------------------------------------------------------------
(* compileModelObservation *)

Usable(o) == [o EXCEPT !.kind = "usable"]
stopFailureCode(stop) ==
    IF stop \in {"end", "tool_calls", "cancelled"} THEN "" ELSE "stop_reason_" \o stop
normalizeCallId(c) == IF wire.provider = "ollama" THEN <<"ollama", c.index>> ELSE c.id

\* The first call that cannot be taken decides.
CallFailure(calls) ==
    LET wrong(k) == IF calls[k].index # k - 1 THEN "malformed_transport_payload"
                    ELSE IF normalizeCallId(calls[k]) \in {<<>>} \cup {normalizeCallId(calls[j]) : j \in 1..(k - 1)} THEN
                            "missing_or_duplicate_call_id"
                    ELSE ""
        bad == {k \in 1..Len(calls) : wrong(k) # ""}
    IN IF bad = {} THEN "" ELSE wrong(Min(bad))

\* Usage that exceeds what the attempt reserved is not believed.
validatedUsage(o) == o.usage <= MaxTokens

\* A summary is text alone, and as long as its tokens allow.
SummaryFits(o, mode) ==
    /\ mode = "text-only" /\ o.stop = "end" /\ o.calls = <<>>
    /\ 2 * Len(o.text) \in 1..(3 * MaxTokens) /\ o.usage <= MaxTokens
InvalidShape(o, intent) ==
    \/ o.stop = "end" /\ (o.calls # <<>> \/ o.text = <<>>)
    \/ o.stop = "tool_calls" /\ o.calls = <<>>
    \/ o.stop = "cancelled" /\ (o.calls # <<>> \/ ~intent)
compile(o, mode, request, intent) ==
    IF o.kind = "prefix_over_limit" THEN Failure("response_too_large")
    ELSE IF o.kind # "decoded" THEN Failure(o.kind)
    ELSE IF request = "context_compaction" /\ ~SummaryFits(o, mode) THEN Failure("context_compaction_requires_end_markdown")
    ELSE IF stopFailureCode(o.stop) # "" THEN Failure(stopFailureCode(o.stop))
    ELSE IF mode = "text-only" /\ o.calls # <<>> THEN Failure("tool_calls_forbidden_by_mode")
    ELSE IF InvalidShape(o, intent) THEN Failure("invalid_stop_call_shape")
    ELSE IF CallFailure(o.calls) # "" THEN Failure(CallFailure(o.calls))
    ELSE IF ~validatedUsage(o) THEN Failure("malformed_transport_payload")
    ELSE Usable(o)

compileModelObservation ==
    /\ obs # None /\ turn = None
    /\ \E mode \in {"native", "text-only"}, request \in {"normal", "context_compaction"}, intent \in BOOLEAN :
          turn' = compile(obs, mode, request, intent)
    /\ UNCHANGED <<wire, at, parser, events, error, obs>>

Next == push \/ finish \/ compileModelObservation

Spec == Init /\ [][Next]_vars

-----------------------------------------------------------------------------
(* Properties *)

\* What the provider said.
Meant == LET i == wire.message.items
         IN <<TextOf(i), Indexed(SelectSeq(i, IsTool)),
              IF wire.provider \in {"openai", "anthropic"} THEN Thoughts(i) ELSE <<>>>>
Said(o) == <<o.text, o.calls, o.cont>>
IsDelta(r) == r.type \in {"content_block_delta", "ping"}
Checked == \/ wire.harm = {}
           \/ wire.provider = "openai"
           \/ wire.provider = "anthropic" /\ \A r \in wire.harm : IsDelta(r) => r.type = "ping"

\* A turn is what the provider said, wherever the response was cut off or aborted;
\* for the two providers whose streams carry their own structure also when the relay
\* lost, repeated, swapped or inserted a record (but a fragment of Anthropic's).  The
\* only other turn is the empty one of an abort.
TurnIsMeant ==
    turn.kind = "usable" =>
        \/ turn.stop = "cancelled" /\ Said(turn)[1] = <<>> /\ turn.calls = <<>>
        \/ Checked => Said(turn) = Meant /\ wire.message.raw # "length"

\* The calls of a turn can be answered one by one: their identities differ, and a
\* turn that waits for answers has calls.
CallsAreDistinct ==
    turn.kind = "usable" =>
        /\ Cardinality({normalizeCallId(turn.calls[k]) : k \in 1..Len(turn.calls)}) = Len(turn.calls)
        /\ (turn.stop = "tool_calls") <=> (turn.calls # <<>>)

\* A response that arrived whole is never taken for a cancelled or broken one.
Whole ==
    /\ at.n = Len(wire.script) /\ wire.harm = {} /\ ~overLimit /\ error = ""
    /\ wire.script[1].model /\ wire.script[1].type # "error"
WholeIsKept == obs # None /\ Whole => obs.kind = "decoded" /\ obs.stop # "cancelled"

\* What the user interface was told adds up to the response: the same text and
\* arguments, every call started once, before its arguments, and completed once.
Told(type, index) == SelectSeq(events, LAMBDA e : e.type = type /\ e.index = index)
Joined(es) == FlattenSeq([k \in 1..Len(es) |-> es[k].got])
Position(type, index) == {k \in 1..Len(events) : events[k].type = type /\ events[k].index = index}
EventsAgree ==
    obs.kind = "decoded" /\ obs.stop # "cancelled" =>
        /\ Joined(Told("text", 0)) = obs.text
        /\ \A k \in 1..Len(events) :
              events[k].type = "start" => events[k].index \in {obs.calls[c].index : c \in 1..Len(obs.calls)}
        /\ \A k \in 1..Len(obs.calls) :
              LET i == obs.calls[k].index IN
              /\ Joined(Told("args", i)) = obs.calls[k].got
              /\ Cardinality(Position("start", i)) = 1 /\ Cardinality(Position("complete", i)) = 1
              /\ \A a \in Position("args", i), b \in Position("start", i), c \in Position("complete", i) : b < a /\ a < c
        /\ Position("end", 0) = {Len(events)}
===============================================================================
