-------------------------- MODULE ProxyConversation --------------------------
(* Both directions of the protocol proxy put together: the app holds the     *)
(* history of a conversation, the relay streams an answer, the app adds the  *)
(* answer's items to the history, and the next request tells the relay what  *)
(* it said itself.                                                           *)
EXTENDS ChatStream

CONSTANTS
    Vocabulary, \* words of an answer's text
    MaxItems,   \* items of the history
    TurnAfter   \* the history has at most so many items when an answer begins

\* Reasoning that comes apart from the text is told from it by its words.
ASSUME TalkAssumption ==
    /\ MaxItems \in Nat /\ TurnAfter \in Nat
    /\ Vocabulary \subseteq STRING \ {"<th", "</th", "ink>", Space}
    /\ \A chunk \in Chunks : ToSet(chunk.reasoning) \intersect Vocabulary = {}

VARIABLES
    items,      \* the history
    draft,      \* the converter's loop after these items
    turn        \* "app" writes the history, "relay" answers; the answer is "over"

talkVars == <<sent, wire, conv, app, items, draft, turn>>

H == INSTANCE ChatHistory

Here == Len(items) + 1

Item(type, role, id, image, at) ==
    [type |-> type, role |-> role, id |-> id, image |-> image, at |-> at]

Reasoning(at)  == Item("reasoning", "assistant", NoId, FALSE, at)
Says(role, at) == Item("message", role, NoId, FALSE, at)
CallOf(id, at)   == Item("call", "assistant", id, FALSE, at)
OutputOf(id, image, at) == Item("output", "tool", id, image, at)

AppItems ==
    {Reasoning(Here)}
    \union {Says(role, Here) : role \in {"user", "assistant", "system"}}
    \union {CallOf(id, Here) : id \in Ids}
    \union {OutputOf(id, image, Here) : id \in Ids, image \in BOOLEAN}

TalkInit ==
    /\ StreamInit
    /\ items = <<>>
    /\ draft = H!Start
    /\ turn = "app"

\* The history grows. It may be of any shape: turns are interrupted, rolled
\* back and shortened, and other providers wrote parts of it.
AddItem ==
    /\ turn = "app" /\ Len(items) < MaxItems
    /\ \E item \in AppItems :
        /\ items' = Append(items, item)
        /\ draft' = H!Take(draft, item)
    /\ UNCHANGED <<streamVars, turn>>

\* The user has spoken and the relay answers.
BeginTurn ==
    /\ turn = "app" /\ items /= <<>> /\ Len(items) <= TurnAfter
    /\ Last(items) = Says("user", Len(items))
    /\ turn' = "relay"
    /\ UNCHANGED <<streamVars, items, draft>>

Answering ==
    /\ turn = "relay"
    /\ StreamNext
    /\ UNCHANGED <<items, draft, turn>>

\* The app keeps a finished answer in the history, carries out its calls and
\* adds what they gave.
Kept(item, at) ==
    CASE item.kind = "reasoning" -> Reasoning(at)
      [] item.kind = "message"   -> Says("assistant", at)
      [] item.kind = "call"      -> CallOf(item.id[2], at)

EndTurn ==
    /\ turn = "relay" /\ app.end \in {"completed", "incomplete"}
    /\ turn' = "over"
    /\ \E image \in BOOLEAN :
        LET n       == Len(items)
            kept    == [k \in DOMAIN app.items |-> Kept(app.items[k], n + k)]
            calls   == H!Within(kept, {item \in ToSet(kept) : item.type = "call"})
            outputs == [k \in DOMAIN calls |->
                           OutputOf(calls[k].id, image, n + Len(kept) + k)]
        IN  /\ items' = items \o kept \o outputs
            /\ draft' = H!TakeAll(draft, kept \o outputs)
    /\ UNCHANGED streamVars

TalkNext == AddItem \/ BeginTurn \/ Answering \/ EndTurn

TalkSpec == TalkInit /\ [][TalkNext]_talkVars

-----------------------------------------------------------------------------
TalkTypeOK ==
    /\ wire \in {"open", "done", "error", "eof", "broken"}
    /\ conv.mode \in {"detecting", "reasoning", "text"}
    /\ conv.next \in 0 .. 2 + Cardinality(ToolSlots)
    /\ conv.mode = "text" => conv.buffer = <<>>
    /\ app.end \in {"none", "completed", "incomplete", "failed"}
    /\ turn \in {"app", "relay", "over"}

Count(s, x) == Cardinality({k \in DOMAIN s : s[k] = x})

AllTexts(m)     == FlattenSeq([k \in DOMAIN m |-> m[k].text])
AllThoughts(m)  == FlattenSeq([k \in DOMAIN m |-> m[k].reasoning])
AllPictures(m)  == FlattenSeq([k \in DOMAIN m |-> m[k].images])
AllCalls(m)     == FlattenSeq([k \in DOMAIN m |-> m[k].calls])

\* Nothing but calls, outputs and reasoning follows item k: the turn it belongs
\* to may still be going on.
Pending(k) == \A j \in k + 1 .. Len(items) : items[j].type /= "message"

\* Once the conversation has gone on, calls in a message of the assistant are
\* followed at once by a tool message for each, whatever was interrupted, moved
\* for its images or collapsed into the head (enforce_tool_call_pairing,
\* relocate_tool_output_images, collapse_system_messages_to_head).
CallsAnswered ==
    LET m == H!ChatMessages(draft)
    IN  \A i \in DOMAIN m : \A k \in DOMAIN m[i].calls :
            \/ m[i].calls[k] \in H!Answered(m, i)
            \/ \E j \in DOMAIN items :
                items[j].type = "call" /\ items[j].id = m[i].calls[k] /\ Pending(j)

\* What the history holds reaches the relay once: words, outputs, reasoning,
\* images; and a call at least as a note. Words and outputs keep their order.
NothingLost ==
    LET m == H!ChatMessages(draft)
        told(item) == IF item.type = "output" THEN H!Output(item) ELSE H!Said(item)
        spoken == AllTexts(SelectSeq(m, LAMBDA x : x.role /= "system"))
        order   == SelectSeq(spoken, LAMBDA t : t[1] \in {"said", "output"})
    IN  /\ \A k \in DOMAIN items :
            /\ items[k].type \in {"message", "output"} => Count(AllTexts(m), told(items[k])) = 1
            /\ items[k].type = "reasoning" => Count(AllThoughts(m), k) = 1
            /\ items[k].type = "call" =>
                H!Has(AllCalls(m), items[k].id) \/ H!Has(AllTexts(m), H!Abandoned(items[k].id))
            /\ items[k].image => Count(AllPictures(m), k) = 1
        /\ \A a, b \in DOMAIN order : a < b => order[a][2] < order[b][2]

-----------------------------------------------------------------------------
\* Properties of an answer that has ended well.

Complete == app.end \in {"completed", "incomplete"}

Content   == FlattenSeq([k \in DOMAIN sent |-> sent[k].content])
Reasoned  == FlattenSeq([k \in DOMAIN sent |-> sent[k].reasoning])
Words(s)  == H!Within(s, Vocabulary)

\* The text of the items of a kind, of which there is one at most.
Got(kind) ==
    LET of == H!Within(app.output, {item \in ToSet(app.output) : item.kind = kind})
    IN  FlattenSeq([k \in DOMAIN of |-> of[k].text])

\* What the app saw grow is what it was given in the end: items are announced
\* in the order of the answer, each is finished once, under the id it was
\* announced with, and its pieces add up to its text (add, delta and finalize
\* functions of ChatSseState; arguments may come in one piece at the end).
ItemsConsistent ==
    Complete =>
        /\ Len(app.output) = Len(app.live)
        /\ Len(app.items) = Len(app.live)
        /\ ToSet(app.items) = ToSet(app.output)
        /\ \A k \in DOMAIN app.live :
            LET seen == app.live[k]
                item == app.output[k]
            IN  /\ seen.at = k - 1 /\ seen.done
                /\ seen.id = item.id /\ seen.kind = item.kind
                /\ \/ seen.text = item.text
                   \/ item.kind = "call" /\ seen.text = <<>>

\* No word of the relay is lost, told twice or told out of order, wherever the
\* tags of reasoning were cut (push_content_delta_into and what it calls).
ContentKept ==
    Complete => LET thoughts == Got("reasoning") IN
                Words(thoughts) \o Words(Got("message")) = Words(Content)

\* What the app was shown is what it was given, and every word of it is there.
StreamSound == TalkTypeOK /\ ItemsConsistent /\ ContentKept

\* A list of calls, perhaps empty, comes while it is still open whether the
\* text begins with reasoning.
CallInDoubt ==
    \E k \in DOMAIN sent :
        LET before == FlattenSeq([j \in 1 .. k |-> sent[j].content])
        IN  sent[k].called /\ ~Closed(before) /\ (Opens(before) \/ MayOpen(before))
            /\ Opens(Content)

\* Reasoning goes on after it was closed by text or by a list of calls.
ReasonsAgain ==
    \E j, k \in DOMAIN sent :
        /\ k < j /\ sent[j].reasoning /= <<>>
        /\ sent[k].called \/ sent[k].content /= <<>>

Comparable ==
    /\ Complete
    /\ Opens(Content) => Closed(Content) /\ Reasoned = <<>> /\ ~CallInDoubt
    /\ ~ReasonsAgain

\* Arguments as the whole answer gives them (responses_arguments_to_chat).
NoArguments == <<"{}">>
Normal(args) == IF Trim(args) = <<>> THEN NoArguments ELSE Trim(args)

\* The same answer sent as a whole (chat_completion_to_response).
WholeReasoning ==
    IF Reasoned /= <<>> \/ ~Closed(Content) THEN Reasoned ELSE Thought(Content)
WholeText == IF Closed(Content) THEN Rest(Content) ELSE Content
WholeCalls ==
    LET all   == FlattenSeq([k \in DOMAIN sent |-> sent[k].tools])
        of(i) == SelectSeq(all, LAMBDA d : d.index = i)
        args(i) == FlattenSeq([k \in DOMAIN of(i) |-> of(i)[k].args])
        given(i) == {of(i)[k].id : k \in DOMAIN of(i)} \intersect Ids
        named(i) == {of(i)[k].name : k \in DOMAIN of(i)} \ {NoName}
        call(i) ==
            [id   |-> IF given(i) = {} THEN <<"call", i>> ELSE CHOOSE x \in given(i) : TRUE,
             name |-> IF named(i) = {} THEN NoName ELSE CHOOSE x \in named(i) : TRUE,
             args |-> Normal(args(i))]
    IN  {call(i) : i \in {all[k].index : k \in DOMAIN all}}
WholeStatus ==
    LET given == SelectSeq(sent, LAMBDA chunk : chunk.finish /= "none")
    IN  IF given /= <<>> /\ Last(given).finish = "length" THEN "incomplete" ELSE "completed"

GotCalls ==
    {[id   |-> item.id[2],
      name |-> IF item.name = UnknownTool THEN NoName ELSE item.name,
      args |-> Normal(item.text)] : item \in {x \in ToSet(app.output) : x.kind = "call"}}

\* What a stream tells is what the relay would have told with the answer sent
\* as a whole: the reasoning, the text up to the white space before its first
\* word, the calls with their ids, names and arguments, and whether the answer
\* was cut short. Only a stream gives a name to a call that has none
\* ("unknown_tool"), and only the whole answer has arguments that are empty
\* made an empty object. The order of the items is not compared: the whole
\* answer has the reasoning, the text and the calls, always in this order.
StreamAgreesWithWhole ==
    Comparable =>
        /\ Got("reasoning") = WholeReasoning
        /\ TrimStart(Got("message")) = TrimStart(WholeText)
        /\ GotCalls = WholeCalls
        /\ app.end = WholeStatus

\* The same without the exception: the app is given the text of the answer.
StreamedTextIsTheText == Comparable => Got("message") = WholeText

\* When an answer comes back with the next request, the relay recognises its
\* own turn: one message with its text, its reasoning and its calls, followed
\* at once by the output of each.
RoundTrip ==
    turn = "over" /\ app.items /= <<>> =>
        LET m     == H!ChatMessages(draft)
            mine  == SelectLastInSeq(m, LAMBDA x : x.role = "assistant")
            calls == SelectSeq(app.items, LAMBDA x : x.kind = "call")
            of(type) == {k \in DOMAIN items :
                            items[k].type = type /\ items[k].role = "assistant"}
        IN  /\ m[mine].calls = [k \in DOMAIN calls |-> calls[k].id[2]]
            /\ ToSet(m[mine].text) = {H!Said(items[k]) : k \in of("message")}
            /\ ToSet(m[mine].reasoning) \ {H!Placeholder} = of("reasoning")
            /\ m[mine - 1].role = "user"
            /\ \A k \in DOMAIN calls :
                m[mine + k].role = "tool" /\ m[mine + k].id = calls[k].id[2]

\* The conversation comes back to the relay as it was, its own turn included.
HistoryWhole == NothingLost /\ RoundTrip
=============================================================================
