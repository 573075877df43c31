----------------------------- MODULE ChatStream ------------------------------
(* A streamed answer on its way from a Chat Completions relay to the app,    *)
(* which speaks the Responses API. The relay sends chunks; the converter     *)
(* turns each into events; the app rebuilds the answer from the events.      *)
(*                                                                           *)
(* Text is a sequence of tokens. "<th" and "</th" are the first halves of    *)
(* the tags that enclose inline reasoning and "ink>" is their second half,   *)
(* so that a tag may be cut in two; " " is white space.                      *)
EXTENDS Integers, SequencesExt

CONSTANTS
    Chunks,       \* what the relay may send at once
    CustomNames,  \* the tools of the request that are no functions
    Slots,        \* how many calls the relay may number
    Ids,          \* the ids it may give them
    MaxChunks

ToolSlots == 0 .. Slots - 1
NoId      == <<>>
NoName    == "none"

\* An id that is given and is empty.
Blank     == <<"">>

\* What a chunk says of a call. A relay speaks of a call once in a chunk.
ToolDelta == [index : ToolSlots, id : Ids \union {NoId, Blank}, name : STRING,
              args : Seq(STRING)]

ASSUME StreamAssumption ==
    /\ Slots \in Nat /\ MaxChunks \in Nat /\ NoId \notin Ids /\ Blank \notin Ids
    /\ Chunks \subseteq [reasoning : Seq(STRING), content : Seq(STRING), called : BOOLEAN,
                          tools : Seq(ToolDelta), finish : STRING]
    /\ \A chunk \in Chunks : chunk.tools /= <<>> => chunk.called
    /\ \A chunk \in Chunks : \A j, k \in DOMAIN chunk.tools :
          chunk.tools[j].index = chunk.tools[k].index => j = k

VARIABLES
    sent,   \* history: the chunks of the relay
    wire,   \* what the relay did last: "open", "done", "error", "eof", "broken"
    conv,   \* the converter; conv.out is what its last step wrote
    app     \* the app: calls and texts under way, finished items, the end

streamVars == <<sent, wire, conv, app>>

UnknownTool == "unknown_tool"

-----------------------------------------------------------------------------
\* Inline reasoning.

Open  == <<"<th", "ink>">>
Close == <<"</th", "ink>">>

Space == " "

TrimStart(s) ==
    LET k == SelectInSeq(s, LAMBDA t : t /= Space)
    IN  IF k = 0 THEN <<>> ELSE SubSeq(s, k, Len(s))

Trim(s) ==
    LET t == TrimStart(s)
        k == SelectLastInSeq(t, LAMBDA x : x /= Space)
    IN  SubSeq(t, 1, k)

Opens(s)  == IsPrefix(Open, TrimStart(s))
MayOpen(s) == IsPrefix(TrimStart(s), Open)
Body(s)   == SubSeq(TrimStart(s), 3, Len(TrimStart(s)))

CloseAt(b) == {k \in 1 .. Len(b) - 1 : SubSeq(b, k, k + 1) = Close}
Closed(s)  == Opens(s) /\ CloseAt(Body(s)) /= {}
SplitAt(s) == CHOOSE k \in CloseAt(Body(s)) : \A j \in CloseAt(Body(s)) : k <= j

\* The two parts of a text with a closed leading block of reasoning.
Thought(s) == Trim(SubSeq(Body(s), 1, SplitAt(s) - 1))
Rest(s)    == TrimStart(SubSeq(Body(s), SplitAt(s) + 2, Len(Body(s))))

-----------------------------------------------------------------------------
\* The converter's state and the events it writes.

NoItem == [at |-> -1, text |-> <<>>, done |-> FALSE]
NoTool == [here |-> FALSE, at |-> -1, item |-> <<>>, id |-> NoId, name |-> NoName,
           args |-> <<>>, done |-> FALSE]

NewStream == [started |-> FALSE, completed |-> FALSE, failed |-> FALSE, next |-> 0,
             mode |-> "detecting", buffer |-> <<>>,
             reasoning |-> NoItem, message |-> NoItem,
             tools |-> [i \in ToolSlots |-> NoTool],
             items |-> <<>>, finish |-> "none", out |-> <<>>]

Emit(c, event) == [c EXCEPT !.out = Append(@, event)]

Added(at, id, kind)    == [ev |-> "added", at |-> at, id |-> id, kind |-> kind]
Delta(at, id, text)    == [ev |-> "delta", at |-> at, id |-> id, text |-> text]
Finished(at, item)     == [ev |-> "done", at |-> at, item |-> item]
Closing(status, output)  == [ev |-> status, output |-> output]

EnsureStarted(c) ==
    IF c.started THEN c
    ELSE Emit([c EXCEPT !.started = TRUE], [ev |-> "created"])

\* A piece of reasoning or of the answer; the first one announces its item.
PushDelta(c, kind, text) ==
    LET announced == IF c[kind].at >= 0 THEN c
                     ELSE Emit([c EXCEPT ![kind].at = c.next, !.next = @ + 1],
                               Added(c.next, <<kind>>, kind))
    IN  Emit([announced EXCEPT ![kind].text = @ \o text],
             Delta(announced[kind].at, <<kind>>, text))

PushSome(c, kind, text) == IF text = <<>> THEN c ELSE PushDelta(c, kind, text)

FinalizeItem(c, kind) ==
    LET item == [kind |-> kind, id |-> <<kind>>, text |-> c[kind].text]
    IN  IF c[kind].at < 0 \/ c[kind].done THEN c
        ELSE Emit([c EXCEPT ![kind].done = TRUE,
                            !.items = Append(@, [at |-> c[kind].at, item |-> item])],
                  Finished(c[kind].at, item))

\* Reasoning taken from the text is pushed and closed at once.
PushThought(c, text) ==
    IF text = <<>> THEN c
    ELSE FinalizeItem(PushDelta(c, "reasoning", text), "reasoning")

PushAnswer(c, text) == PushDelta(FinalizeItem(c, "reasoning"), "message", text)

Decided(c) == [c EXCEPT !.mode = "text", !.buffer = <<>>]

DrainThink(c) ==
    IF ~Closed(c.buffer) THEN c
    ELSE PushSome(PushThought(Decided(c), Thought(c.buffer)),
                  "message", Rest(c.buffer))

\* Slip: half a tag is taken for text.
PushContentEager(c, text) ==
    LET b == [c EXCEPT !.buffer = @ \o text]
    IN  CASE c.mode = "text"      -> PushAnswer(c, text)
          [] c.mode = "reasoning" -> DrainThink(b)
          [] c.mode = "detecting" ->
                IF Opens(b.buffer) THEN DrainThink([b EXCEPT !.mode = "reasoning"])
                ELSE PushAnswer(Decided(b), b.buffer)

PushContent(c, text) ==
    LET b == [c EXCEPT !.buffer = @ \o text]
    IN  CASE c.mode = "text"      -> PushAnswer(c, text)
          [] c.mode = "reasoning" -> DrainThink(b)
          [] c.mode = "detecting" ->
                IF Opens(b.buffer) THEN DrainThink([b EXCEPT !.mode = "reasoning"])
                ELSE IF MayOpen(b.buffer) THEN b
                ELSE PushAnswer(Decided(b), b.buffer)

\* Slip: a thought that is never closed is dropped.
FlushThinkDrops(c) ==
    LET d == Decided(c)
    IN  CASE c.mode = "text"      -> c
          [] c.mode = "detecting" -> IF c.buffer = <<>> THEN d ELSE PushAnswer(d, c.buffer)
          [] c.mode = "reasoning" -> IF Closed(c.buffer) THEN DrainThink(c) ELSE d

FlushThink(c) ==
    LET d == Decided(c)
    IN  CASE c.mode = "text"      -> c
          [] c.mode = "detecting" -> IF c.buffer = <<>> THEN d ELSE PushAnswer(d, c.buffer)
          [] c.mode = "reasoning" ->
                IF Closed(c.buffer) THEN DrainThink(c)
                ELSE PushThought(d, Trim(Body(c.buffer)))

IsCustom(name) == name \in CustomNames
ItemId(tool)   == <<IF IsCustom(tool.name) THEN "ctc" ELSE "fc", tool.id>>
CallItem(tool) ==
    [kind |-> "call", id |-> ItemId(tool), text |-> tool.args, name |-> tool.name]

AddTool(c, i) ==
    LET t == c.tools[i]
        u == [t EXCEPT !.at   = c.next,
                       !.id   = IF t.id = NoId THEN <<"call", i>> ELSE t.id,
                       !.name = IF t.name = NoName THEN UnknownTool ELSE t.name]
    IN  Emit([c EXCEPT !.tools[i] = [u EXCEPT !.item = ItemId(u)], !.next = @ + 1],
             Added(u.at, ItemId(u), "call"))

PushArgs(c, i, args) ==
    LET t == c.tools[i]
    IN  IF args = <<>> \/ IsCustom(t.name) THEN c
        ELSE Emit(c, Delta(t.at, t.item, args))

GivenId(id, new) ==
    CASE new = NoId -> id
      [] new = Blank -> NoId
      [] OTHER -> new

\* A call is announced once it has an id or a name; if the request has tools
\* that are no functions, its name is waited for, since the kind depends on it.
\* An empty id replaces the one before, an empty name does not.
PushTool(c, delta) ==
    LET i == delta.index
        t == [c.tools[i] EXCEPT !.here = TRUE,
                                !.id   = GivenId(@, delta.id),
                                !.name = IF delta.name = NoName THEN @ ELSE delta.name,
                                !.args = @ \o delta.args]
        d == [c EXCEPT !.tools[i] = t]
        waits == CustomNames /= {} /\ t.name = NoName
    IN  IF t.at >= 0 THEN PushArgs(d, i, delta.args)
        ELSE IF (t.id /= NoId \/ t.name /= NoName) /\ ~waits
             THEN PushArgs(AddTool(d, i), i, t.args)
             ELSE d

FinalizeTool(c, i) ==
    LET d    == IF c.tools[i].at >= 0 THEN c ELSE AddTool(c, i)
        t    == d.tools[i]
    IN  IF ~c.tools[i].here \/ c.tools[i].done THEN c
        ELSE Emit([d EXCEPT !.tools[i].done = TRUE,
                            !.items = Append(@, [at |-> t.at, item |-> CallItem(t)])],
                  Finished(t.at, CallItem(t)))

FinalizeTools(c) ==
    LET upto[n \in 0 .. Slots] ==
          IF n = 0 THEN c ELSE FinalizeTool(upto[n - 1], n - 1)
    IN  upto[Slots]

\* The finished items by their place in the answer.
OutputItems(c) ==
    LET upto[n \in 0 .. c.next] ==
          IF n = 0 THEN <<>>
          ELSE IF \E x \in ToSet(c.items) : x.at = n - 1
               THEN Append(upto[n - 1],
                           (CHOOSE x \in ToSet(c.items) : x.at = n - 1).item)
               ELSE upto[n - 1]
    IN  upto[c.next]

Status(c) == IF c.finish = "length" THEN "incomplete" ELSE "completed"

Finalize(c) ==
    LET flushed == FinalizeItem(FlushThink(EnsureStarted(c)), "reasoning")
        all     == FinalizeTools(FinalizeItem(flushed, "message"))
    IN  IF c.completed THEN c
        ELSE Emit([all EXCEPT !.completed = TRUE], Closing(Status(all), OutputItems(all)))

Failed(c) == Emit([c EXCEPT !.completed = TRUE], Closing("failed", OutputItems(c)))

\* A list of calls ends reasoning even if it is empty.
TakeTools(c, deltas) ==
    LET upto[n \in 0 .. Len(deltas)] ==
          IF n = 0 THEN FinalizeItem(FlushThink(c), "reasoning")
          ELSE PushTool(upto[n - 1], deltas[n])
    IN  upto[Len(deltas)]

TakeChunk(c, chunk) ==
    LET r == PushSome(EnsureStarted(c), "reasoning", chunk.reasoning)
        t == IF chunk.content = <<>> THEN r ELSE PushContent(r, chunk.content)
        u == IF chunk.called THEN TakeTools(t, chunk.tools) ELSE t
    IN  IF chunk.finish = "none" THEN u ELSE [u EXCEPT !.finish = chunk.finish]

-----------------------------------------------------------------------------
\* The app reads events until the answer has ended.

NoAnswer == [live |-> <<>>, items |-> <<>>, end |-> "none", output |-> <<>>]

Receive(a, e) ==
    IF a.end /= "none" THEN a
    ELSE CASE e.ev = "created" -> a
           [] e.ev = "added" ->
                [a EXCEPT !.live = Append(@, [at |-> e.at, id |-> e.id, kind |-> e.kind,
                                              text |-> <<>>, done |-> FALSE])]
           [] e.ev = "delta" ->
                [a EXCEPT !.live = [k \in DOMAIN a.live |->
                    IF a.live[k].at = e.at /\ a.live[k].id = e.id /\ ~a.live[k].done
                    THEN [a.live[k] EXCEPT !.text = @ \o e.text] ELSE a.live[k]]]
           [] e.ev = "done" ->
                [a EXCEPT !.items = Append(@, e.item),
                          !.live  = [k \in DOMAIN a.live |->
                    IF a.live[k].at = e.at THEN [a.live[k] EXCEPT !.done = TRUE]
                    ELSE a.live[k]]]
           [] OTHER -> [a EXCEPT !.end = e.ev, !.output = e.output]

ReceiveAll(a, events) ==
    LET upto[n \in 0 .. Len(events)] ==
          IF n = 0 THEN a ELSE Receive(upto[n - 1], events[n])
    IN  upto[Len(events)]

Write(c) ==
    /\ conv' = [c EXCEPT !.out = <<>>]
    /\ app'  = ReceiveAll(app, c.out)

StreamInit ==
    /\ sent = <<>>
    /\ wire = "open"
    /\ conv = NewStream
    /\ app  = NoAnswer

\* A relay names the id of a call when it first speaks of it, or never; no
\* empty id follows it. It does not rename a call, and numbers its calls from
\* 0 on.
KeepsItsWord(deltas) ==
    \A k \in DOMAIN deltas :
        LET d == deltas[k]
            t == conv.tools[d.index]
        IN  /\ d.id \in Ids => ~t.here \/ t.id = d.id
            /\ d.id = Blank => t.id = NoId
            /\ d.name /= NoName => t.name \in {NoName, d.name}
            /\ \A i \in ToolSlots : i < d.index =>
                conv.tools[i].here \/ \E j \in 1 .. k - 1 : deltas[j].index = i

\* A chunk of the relay.
Chunk ==
    /\ wire = "open" /\ Len(sent) < MaxChunks
    /\ \E chunk \in Chunks :
        /\ KeepsItsWord(chunk.tools)
        /\ sent' = Append(sent, chunk)
        /\ Write(TakeChunk(conv, chunk))
    /\ UNCHANGED wire

\* The marker that ends a stream. It also follows an error.
DoneMarker ==
    /\ wire \in {"open", "error"}
    /\ wire' = "done"
    /\ Write(Finalize(conv))
    /\ UNCHANGED sent

\* The relay reports an error inside the stream.
ErrorEvent ==
    /\ wire = "open"
    /\ wire' = "error"
    /\ Write([Failed(conv) EXCEPT !.failed = TRUE])
    /\ UNCHANGED sent

\* The connection ends in an orderly way: with the marker, after an error, or
\* before either.
Eof ==
    /\ wire \in {"open", "done", "error"}
    /\ wire' = "eof"
    /\ Write(IF conv.failed THEN conv ELSE Finalize(conv))
    /\ UNCHANGED sent

\* The connection breaks.
Broken ==
    /\ wire \in {"open", "done", "error"}
    /\ wire' = "broken"
    /\ Write([Failed(conv) EXCEPT !.failed = TRUE])
    /\ UNCHANGED sent

StreamNext == Chunk \/ DoneMarker \/ ErrorEvent \/ Eof \/ Broken
=============================================================================
