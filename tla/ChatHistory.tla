----------------------------- MODULE ChatHistory -----------------------------
(* How a request in the form of the Responses API becomes one in the form of *)
(* Chat Completions: the list of input items is folded into a list of chat   *)
(* messages, which then passes through four corrections. There is no state   *)
(* between requests: every request carries the whole history.                *)
(*                                                                           *)
(* An item is a record with the fields type ("call", "output", "reasoning",  *)
(* "message"), id (of a call), role, at (its position, which stands for its  *)
(* text) and image (does an output hold one). The three kinds of calls and   *)
(* of outputs the code tells apart are treated alike there and are one here. *)
EXTENDS Integers, SequencesExt

NoId == <<>>

Message(role, text) ==
    [role |-> role, text |-> text, calls |-> <<>>, reasoning |-> <<>>,
     id |-> NoId, images |-> <<>>]

Said(item)     == <<"said", item.at>>
Output(item)   == <<"output", item.at>>
Abandoned(id)  == <<"abandoned", id>>
Placeholder    == 0  \* "Calling the requested tool.", at no position of the history

Has(seq, x) == x \in ToSet(seq)

\* The elements of a sequence that are in S, and those that are not, in order.
Within(seq, S)  == FlattenSeq([n \in DOMAIN seq |-> IF seq[n] \in S THEN <<seq[n]>> ELSE <<>>])
Without(seq, S) == FlattenSeq([n \in DOMAIN seq |-> IF seq[n] \in S THEN <<>> ELSE <<seq[n]>>])

\* The loop's variables. The instructions are the first message.
Start == [messages  |-> <<Message("system", <<<<"instructions">>>>)>>,
          calls     |-> <<>>,
          reasoning |-> <<>>,
          seen      |-> {}]

EndsWithAssistant(messages) == Last(messages).role = "assistant"

\* Slip: reasoning is reset but not handed on.
FlushCallsForgets(d) ==
    LET last   == Len(d.messages)
        own    == [Message("assistant", <<>>) EXCEPT !.calls = d.calls]
        merged == [d.messages EXCEPT ![last].calls = @ \o d.calls]
    IN  IF d.calls = <<>> THEN d
        ELSE IF EndsWithAssistant(d.messages)
             THEN [d EXCEPT !.messages = merged, !.calls = <<>>]
             ELSE [d EXCEPT !.messages = Append(@, own),
                            !.calls = <<>>, !.reasoning = <<>>]

\* The calls collected so far join an assistant message that came just before,
\* or become one of their own, which takes the collected reasoning along.
FlushCalls(d) ==
    LET last   == Len(d.messages)
        fresh  == Without(d.calls, ToSet(d.messages[last].calls))
        merged == [d.messages EXCEPT ![last].calls = @ \o fresh]
        own    == [Message("assistant", <<>>) EXCEPT !.calls = d.calls,
                                                     !.reasoning = d.reasoning]
    IN  IF d.calls = <<>> THEN d
        ELSE IF EndsWithAssistant(d.messages)
             THEN [d EXCEPT !.messages = merged, !.calls = <<>>]
             ELSE [d EXCEPT !.messages = Append(@, own),
                            !.calls = <<>>, !.reasoning = <<>>]

FlushReasoning(d) ==
    LET last == Len(d.messages)
        own  == [Message("assistant", <<>>) EXCEPT !.reasoning = d.reasoning]
    IN  IF d.reasoning = <<>> THEN d
        ELSE IF EndsWithAssistant(d.messages)
             THEN [d EXCEPT !.messages[last].reasoning = @ \o d.reasoning,
                            !.reasoning = <<>>]
             ELSE [d EXCEPT !.messages = Append(@, own), !.reasoning = <<>>]

\* An output whose call the history no longer has is told as the user's words.
OrphanOutput(item) ==
    [Message("user", <<Output(item)>>)
        EXCEPT !.images = IF item.image THEN <<item.at>> ELSE <<>>]

ToolMessage(item) ==
    [Message("tool", <<Output(item)>>)
        EXCEPT !.id = item.id,
               !.images = IF item.image THEN <<item.at>> ELSE <<>>]

Push(d, message) == [d EXCEPT !.messages = Append(@, message)]

TakeOutput(d, item) ==
    IF item.id \in d.seen
    THEN Push(FlushCalls(d), ToolMessage(item))
    ELSE Push(FlushReasoning(FlushCalls(d)), OrphanOutput(item))

\* Reasoning belongs to the assistant message that follows it. Before any other
\* message it becomes, or joins, an assistant message.
TakeMessage(d, item) ==
    LET f    == FlushCalls(d)
        said == Message(item.role, <<Said(item)>>)
    IN  IF item.role = "assistant"
        THEN [f EXCEPT !.messages = Append(@, [said EXCEPT !.reasoning = f.reasoning]),
                       !.reasoning = <<>>]
        ELSE Push(FlushReasoning(f), said)

Take(d, item) ==
    CASE item.type = "call"      -> [d EXCEPT !.calls = Append(@, item.id),
                                              !.seen  = @ \union {item.id}]
      [] item.type = "output"    -> TakeOutput(d, item)
      [] item.type = "reasoning" -> [d EXCEPT !.reasoning = Append(@, item.at)]
      [] item.type = "message"   -> TakeMessage(d, item)

\* The loop over some items.
TakeAll(d, items) ==
    LET upto[n \in 0 .. Len(items)] ==
          IF n = 0 THEN d ELSE Take(upto[n - 1], items[n])
    IN  upto[Len(items)]

Folded(d) == FlushReasoning(FlushCalls(d)).messages

-----------------------------------------------------------------------------
\* The last of the tool messages that follow message i without a gap.
RunEnd(m, i) ==
    CHOOSE e \in i .. Len(m) :
        /\ \A k \in i + 1 .. e : m[k].role = "tool"
        /\ e = Len(m) \/ m[e + 1].role /= "tool"

Answered(m, i) == {m[k].id : k \in i + 1 .. RunEnd(m, i)}

\* Slip: one answer is enough for all calls of a message.
PairCallsAny(m) ==
    LET Notes(i) == [k \in DOMAIN m[i].calls |-> Abandoned(m[i].calls[k])]
    IN  [i \in DOMAIN m |->
            IF m[i].role = "assistant" /\ RunEnd(m, i) < Len(m) /\ RunEnd(m, i) = i
            THEN [m[i] EXCEPT !.calls = <<>>, !.text = @ \o Notes(i)]
            ELSE m[i]]

\* A call nobody answered before the conversation went on becomes a note.
PairCalls(m) ==
    LET Kept(i)  == Within(m[i].calls, Answered(m, i))
        Lost(i)  == Without(m[i].calls, Answered(m, i))
        Notes(i) == [k \in DOMAIN Lost(i) |-> Abandoned(Lost(i)[k])]
    IN  [i \in DOMAIN m |->
            IF m[i].role = "assistant" /\ m[i].calls /= <<>> /\ RunEnd(m, i) < Len(m)
            THEN [m[i] EXCEPT !.calls = Kept(i), !.text = @ \o Notes(i)]
            ELSE m[i]]

\* Tool messages hold text only: the images of a run of them follow it as one
\* message of the user.
MoveImages(m) ==
    LET InRun(i)  == m[i].role = "tool"
        Closes(i) == InRun(i) /\ (i = Len(m) \/ ~InRun(i + 1))
        First(i)  == CHOOSE b \in 1 .. i :
                        /\ \A k \in b .. i : InRun(k)
                        /\ b = 1 \/ ~InRun(b - 1)
        Images(i) == FlattenSeq([k \in 1 .. i - First(i) + 1 |->
                                    m[First(i) + k - 1].images])
        Text(i)   == IF InRun(i) THEN [m[i] EXCEPT !.images = <<>>] ELSE m[i]
        After(i)  == IF Closes(i) /\ Images(i) /= <<>>
                     THEN <<[Message("user", <<>>) EXCEPT !.images = Images(i)]>>
                     ELSE <<>>
    IN  FlattenSeq([i \in DOMAIN m |-> <<Text(i)>> \o After(i)])

\* Some relays refuse calls that come without any words or reasoning.
FillReasoning(m) ==
    [i \in DOMAIN m |->
        IF /\ m[i].role = "assistant" /\ m[i].calls /= <<>>
           /\ m[i].text = <<>> /\ m[i].reasoning = <<>>
        THEN [m[i] EXCEPT !.reasoning = <<Placeholder>>]
        ELSE m[i]]

\* What the system said anywhere is said once, at the head.
CollapseSystem(m) ==
    LET System(i) == m[i].role = "system"
        texts == FlattenSeq([i \in DOMAIN m |-> IF System(i) THEN m[i].text ELSE <<>>])
        rest  == FlattenSeq([i \in DOMAIN m |-> IF System(i) THEN <<>> ELSE <<m[i]>>])
    IN  <<Message("system", texts)>> \o rest

ChatMessages(d) ==
    CollapseSystem(FillReasoning(MoveImages(PairCalls(Folded(d)))))
=============================================================================
