------------------------- MODULE WeixinConnectProofs -------------------------
(***************************************************************************)
(* Proofs about WeixinConnect for any inbox, contacts, names for runs,     *)
(* faults and cuts.                                                        *)
(***************************************************************************)
EXTENDS WeixinConnect, SequenceTheorems, FiniteSetTheorems, TLAPS

Points == {"off", "begin", "poll", "pick", "server", "thread", "turn", "read", "send",
           "ok", "error", "saveOne", "saveAll", "close", "failed", "over"}
InTurn == {"turn", "read", "send"}
Busy == InTurn \cup {"server", "thread", "ok", "error"}

Mems == [cursor : 0 .. Len(Inbox), thread : [Peers -> Nat], done : Seq(Message)]
Turns == [accepted : BOOLEAN, ended : BOOLEAN, parts : Seq(Message)]
Events == [kind : {"response", "item", "idle", "completed"}, msg : Message]
Loops == [pc : Points, stop : BOOLEAN, mem : Mems, batch : Seq(Message),
          msg : Message \cup {0}, up : BOOLEAN, pipe : Seq(Events), turn : Turns]

(* What a contact is told, and the events of a turn that are left to read: *)
(* none holds text, or the first that is no response does and no other.    *)
Answer(m) == IF Inbox[m].kind = "silent" THEN <<>> ELSE <<m>>
NoItem(s) == \A k \in 1 .. Len(s) : s[k].kind # "item"
ItemAhead(s, m) ==
    \E j \in 1 .. Len(s) :
       /\ s[j].kind = "item" /\ s[j].msg = m
       /\ \A k \in 1 .. Len(s) : /\ k # j => s[k].kind # "item"
                                 /\ k < j => s[k].kind = "response"

Reading(m, turn, pipe) ==
    \/ turn.parts = Answer(m) /\ NoItem(pipe)
    \/ /\ Inbox[m].kind # "silent" /\ turn.parts = <<>> /\ ~turn.ended
       /\ ItemAhead(pipe, m)

GoodLoops ==
    {l \in Loops :
        /\ l.pc \in Busy => l.msg \in Message
        /\ l.pc \in InTurn => l.mem.thread[Inbox[l.msg].from] # 0
        /\ l.pc = "turn" => l.pipe = <<>> /\ l.turn = NoTurn
        /\ l.pc = "read" => Reading(l.msg, l.turn, l.pipe)
        /\ l.pc = "send" => l.turn.parts = Answer(l.msg)}

Replies == [to : Peers, msg : Message, parts : Seq(Message), thread : Nat \ {0}]
GoodReplies == {y \in Replies : y.parts = Answer(y.msg) /\ y.to = Inbox[y.msg].from}

(* Every run, the state file and the replies are of their kinds.           *)
Shape == /\ loop \in [Runs -> GoodLoops] /\ disk \in Mems /\ threads \in Nat
         /\ replies \in Seq(GoodReplies)

LEMMA InboxFacts ==
    /\ Message = 1 .. Len(Inbox) /\ Len(Inbox) \in Nat
    /\ \A m \in Message : Inbox[m].from \in Peers
<1>1. Message = 1 .. Len(Inbox) /\ Len(Inbox) \in Nat
  BY InboxOfMessages, LenProperties DEF Message
<1>2. \A m \in 1 .. Len(Inbox) : Inbox[m] \in [from : Peers, kind : Kinds]
  BY InboxOfMessages, ElementOfSeq
<1>3. QED
  BY <1>1, <1>2

LEMMA NoStateType == NoState \in Mems /\ \A p \in Peers : NoState.thread[p] = 0
<1>1. <<>> \in Seq(Message) /\ 0 \in 0 .. Len(Inbox) /\ [p \in Peers |-> 0] \in [Peers -> Nat]
  BY EmptySeq, InboxFacts
<1>2. QED
  BY <1>1 DEF NoState, Mems

LEMMA NoTurnType == NoTurn \in Turns
<1>1. <<>> \in Seq(Message)
  BY EmptySeq
<1>2. QED
  BY <1>1 DEF NoTurn, Turns

LEMMA GoodOutsideTurn ==
    ASSUME NEW l \in Loops, l.pc \notin InTurn, l.pc \in Busy => l.msg \in Message
    PROVE  l \in GoodLoops
  BY DEF GoodLoops, InTurn

LEMMA OffGood == Off \in GoodLoops /\ Off.pc = "off" /\ Off.mem = NoState /\ ~Off.stop
<1>1. <<>> \in Seq(Message) /\ <<>> \in Seq(Events)
  BY EmptySeq
<1>2. Off \in Loops /\ Off.pc = "off" /\ Off.mem = NoState /\ Off.stop = FALSE
  BY <1>1, NoStateType, NoTurnType DEF Off, Loops, Points
<1>3. QED
  BY <1>2, GoodOutsideTurn DEF Busy, InTurn

(* What most steps of a loop do: outside the turn, with the threads it had *)
(* or those of the state file, and perhaps one forgotten.                  *)
Quiet(r) ==
    \E l \in GoodLoops :
       /\ loop' = [loop EXCEPT ![r] = l]
       /\ \A p \in Peers : l.mem.thread[p] \in {0, loop[r].mem.thread[p], disk.thread[p]}
       /\ disk' \in {disk, loop[r].mem}
       /\ UNCHANGED <<threads, replies, runtime>>

LEMMA LoopType ==
    ASSUME Shape, NEW r \in Runs
    PROVE  /\ loop[r] \in Loops /\ loop[r].mem \in Mems
           /\ loop[r].pc \in Busy => loop[r].msg \in Message
  BY DEF Shape, GoodLoops, Loops

LEMMA GotoQuiet ==
    ASSUME Shape, NEW r \in Runs, NEW pc \in Points \ InTurn, Goto(r, pc),
           pc \in Busy => loop[r].msg \in Message,
           disk' \in {disk, loop[r].mem}, UNCHANGED <<threads, replies, runtime>>
    PROVE  Quiet(r)
<1> DEFINE me == loop[r]
           l == [me EXCEPT !.pc = pc]
<1>1. me \in Loops
  BY LoopType
<1>2. l \in Loops /\ l.pc = pc /\ l.mem = me.mem /\ l.msg = me.msg
  BY <1>1 DEF Loops
<1>3. loop' = [loop EXCEPT ![r] = l]
  BY DEF Goto, Put
<1> HIDE DEF l
<1>4. l \in GoodLoops
  BY <1>2, GoodOutsideTurn
<1>5. QED
  BY <1>2, <1>3, <1>4 DEF Quiet

LEMMA BeginQuiet == ASSUME Shape, NEW r \in Runs, Begin(r) PROVE Quiet(r)
<1> DEFINE me == loop[r]
           l == [me EXCEPT !.pc = "poll", !.mem = disk]
<1>1. me \in Loops /\ disk \in Mems /\ disk' = disk /\ UNCHANGED <<threads, replies, runtime>>
  BY LoopType DEF Shape, Begin, outside
<1>2. CASE Put(r, l)
  <2>1. l \in Loops /\ l.pc = "poll" /\ l.mem = disk
    BY <1>1 DEF Loops, Points
  <2>2. loop' = [loop EXCEPT ![r] = l]
    BY <1>2 DEF Put
  <2> HIDE DEF l
  <2>3. l \in GoodLoops
    BY <2>1, GoodOutsideTurn DEF Busy, InTurn
  <2>4. QED
    BY <1>1, <2>1, <2>2, <2>3 DEF Quiet
<1>3. CASE Goto(r, "poll") \/ Goto(r, "failed")
  BY <1>1, <1>3, GotoQuiet DEF Points, InTurn, Busy
<1>4. QED
  BY <1>2, <1>3 DEF Begin, Goto

LEMMA PollQuiet == ASSUME Shape, NEW r \in Runs, Poll(r) PROVE Quiet(r)
<1> DEFINE me == loop[r]
<1>1. /\ me \in Loops /\ me.mem \in Mems /\ me \in GoodLoops /\ disk' = disk
      /\ UNCHANGED <<threads, replies, runtime>> /\ loop \in [Runs -> GoodLoops]
  BY LoopType DEF Shape, Poll, outside
<1>2. CASE Goto(r, "close")
  BY <1>1, <1>2, GotoQuiet DEF Points, InTurn, Busy
<1>3. CASE UNCHANGED loop
  <2>1. loop' = [loop EXCEPT ![r] = me]
    BY <1>1, <1>3
  <2>2. QED
    BY <1>1, <2>1 DEF Quiet
<1>4. ASSUME NEW first \in 1 .. me.mem.cursor + 1, NEW last \in me.mem.cursor .. Len(Inbox),
             first <= last,
             Put(r, [me EXCEPT !.pc = "pick", !.mem.cursor = last,
                               !.batch = [k \in 1 .. last - first + 1 |-> first + k - 1]])
      PROVE  Quiet(r)
  <2> DEFINE b == [k \in 1 .. last - first + 1 |-> first + k - 1]
             mem == [me.mem EXCEPT !.cursor = last]
             l == [me EXCEPT !.pc = "pick", !.mem = mem, !.batch = b]
  <2>1. me.mem.cursor \in 0 .. Len(Inbox) /\ Len(Inbox) \in Nat
    BY <1>1, InboxFacts DEF Mems
  <2>2. b \in Seq(Message)
    <3>1. last - first + 1 \in Nat /\ \A k \in 1 .. last - first + 1 : first + k - 1 \in Message
      BY <2>1, <1>4, InboxFacts
    <3>2. QED
      BY <3>1, IsASeq
  <2>3. mem \in Mems /\ mem.thread = me.mem.thread
    BY <1>1, <2>1, <1>4 DEF Mems
  <2>4. loop' = [loop EXCEPT ![r] = l]
    BY <1>4 DEF Put
  <2> HIDE DEF b, mem
  <2>5. l \in Loops /\ l.pc = "pick" /\ l.mem = mem
    BY <1>1, <2>2, <2>3 DEF Loops, Points
  <2> HIDE DEF l
  <2>6. l \in GoodLoops
    BY <2>5, GoodOutsideTurn DEF Busy, InTurn
  <2>7. QED
    BY <1>1, <2>3, <2>4, <2>5, <2>6 DEF Quiet
<1>5. QED
  BY <1>2, <1>3, <1>4 DEF Poll

LEMMA MarkedType ==
    ASSUME NEW mem \in Mems, NEW m \in Message
    PROVE  Marked(mem, m) \in Mems /\ Marked(mem, m).thread = mem.thread
<1> DEFINE d == IF Len(mem.done) < History THEN Append(mem.done, m)
                                           ELSE Append(Tail(mem.done), m)
           new == [mem EXCEPT !.done = d]
<1>1. mem.done \in Seq(Message)
  BY DEF Mems
<1>2. d \in Seq(Message)
  <2>1. CASE Len(mem.done) < History
    BY <1>1, <2>1, AppendProperties
  <2>2. CASE ~(Len(mem.done) < History)
    <3>1. mem.done # <<>>
      BY <2>2, HistoryCoversOverlap, EmptySeq
    <3>2. QED
      BY <1>1, <2>2, <3>1, HeadTailProperties, AppendProperties
  <2>3. QED
    BY <2>1, <2>2
<1>3. Marked(mem, m) = mem \/ Marked(mem, m) = new
  BY DEF Marked
<1> HIDE DEF d
<1>4. new \in Mems /\ new.thread = mem.thread
  BY <1>2 DEF Mems
<1>5. QED
  BY <1>3, <1>4

LEMMA PickQuiet == ASSUME Shape, NEW r \in Runs, Pick(r) PROVE Quiet(r)
<1> DEFINE me == loop[r]
           m == Head(me.batch)
<1>1. /\ me \in Loops /\ me.mem \in Mems /\ disk' = disk /\ UNCHANGED <<threads, replies, runtime>>
      /\ me.batch \in Seq(Message) /\ me.pc = "pick"
  BY LoopType DEF Pick, outside, Loops, At
<1>2. ASSUME NEW l \in Loops, Put(r, l), l.pc \in {"saveAll", "pick", "server"},
             l.pc = "server" => l.msg \in Message, l.mem.thread = me.mem.thread
      PROVE  Quiet(r)
  <2>1. l \in GoodLoops
    BY <1>2, GoodOutsideTurn DEF Busy, InTurn
  <2>2. QED
    BY <1>1, <1>2, <2>1 DEF Quiet, Put
<1>3. CASE Put(r, [me EXCEPT !.pc = "saveAll", !.batch = <<>>])
  <2> DEFINE l == [me EXCEPT !.pc = "saveAll", !.batch = <<>>]
  <2>1. <<>> \in Seq(Message)
    BY EmptySeq
  <2>2. l \in Loops /\ l.pc = "saveAll" /\ l.mem = me.mem
    BY <1>1, <2>1 DEF Loops, Points
  <2> HIDE DEF l
  <2>3. QED
    BY <1>2, <1>3, <2>2 DEF l
<1>4. ASSUME me.batch # <<>>
      PROVE  m \in Message /\ Tail(me.batch) \in Seq(Message)
  BY <1>1, <1>4, HeadTailProperties
<1>5. CASE me.batch # <<>> /\ Put(r, [me EXCEPT !.batch = Tail(@)])
  <2> DEFINE l == [me EXCEPT !.batch = Tail(@)]
  <2>1. l \in Loops /\ l.pc = "pick" /\ l.mem = me.mem
    BY <1>1, <1>4, <1>5 DEF Loops, Points
  <2> HIDE DEF l
  <2>2. QED
    BY <1>2, <1>5, <2>1 DEF l
<1>6. CASE me.batch # <<>> /\ Put(r, [me EXCEPT !.batch = Tail(@), !.mem = Marked(@, m)])
  <2> DEFINE mem == Marked(me.mem, m)
             l == [me EXCEPT !.batch = Tail(@), !.mem = mem]
  <2>1. mem \in Mems /\ mem.thread = me.mem.thread
    BY <1>1, <1>4, <1>6, MarkedType
  <2> HIDE DEF mem
  <2>2. l \in Loops /\ l.pc = "pick" /\ l.mem = mem
    BY <1>1, <1>4, <1>6, <2>1 DEF Loops, Points
  <2>3. Put(r, l)
    BY <1>6 DEF mem
  <2> HIDE DEF l
  <2>4. QED
    BY <1>2, <2>1, <2>2, <2>3
<1>7. CASE me.batch # <<>> /\ Put(r, [me EXCEPT !.batch = Tail(@), !.msg = m, !.pc = "server"])
  <2> DEFINE l == [me EXCEPT !.batch = Tail(@), !.msg = m, !.pc = "server"]
  <2>1. l \in Loops /\ l.pc = "server" /\ l.mem = me.mem /\ l.msg = m
    BY <1>1, <1>4, <1>7 DEF Loops, Points
  <2>2. Put(r, l)
    BY <1>7
  <2> HIDE DEF l
  <2>3. QED
    BY <1>2, <1>4, <1>7, <2>1, <2>2
<1>8. QED
  BY <1>3, <1>5, <1>6, <1>7 DEF Pick

LEMMA EnsureServerQuiet == ASSUME Shape, NEW r \in Runs, EnsureServer(r) PROVE Quiet(r)
<1> DEFINE me == loop[r]
           a == [me EXCEPT !.pc = "thread"]
           b == [me EXCEPT !.pc = "thread", !.up = TRUE, !.pipe = <<>>]
<1>1. /\ me \in Loops /\ disk' = disk /\ UNCHANGED <<threads, replies, runtime>>
      /\ me.pc = "server" /\ me.msg \in Message
  BY LoopType DEF EnsureServer, outside, At, Busy
<1>2. CASE Goto(r, "error")
  BY <1>1, <1>2, GotoQuiet DEF Points, InTurn
<1>3. ASSUME NEW l \in Loops, Put(r, l), l.pc = "thread", l.msg = me.msg, l.mem = me.mem
      PROVE  Quiet(r)
  <2>1. l \in GoodLoops
    BY <1>1, <1>3, GoodOutsideTurn DEF Busy, InTurn
  <2>2. QED
    BY <1>1, <1>3, <2>1 DEF Quiet, Put
<1>4. a \in Loops /\ a.pc = "thread" /\ a.msg = me.msg /\ a.mem = me.mem
  BY <1>1 DEF Loops, Points
<1>5. b \in Loops /\ b.pc = "thread" /\ b.msg = me.msg /\ b.mem = me.mem
  <2>1. <<>> \in Seq(Events)
    BY EmptySeq
  <2>2. QED
    BY <1>1, <2>1 DEF Loops, Points
<1>6. Goto(r, "error") \/ Put(r, a) \/ Put(r, b)
  BY DEF EnsureServer
<1> HIDE DEF a, b
<1>7. QED
  BY <1>2, <1>3, <1>4, <1>5, <1>6

LEMMA SaveCloseQuiet == ASSUME Shape, NEW r \in Runs, Save(r) \/ Close(r) PROVE Quiet(r)
<1> DEFINE me == loop[r]
<1>1. me \in Loops /\ UNCHANGED <<threads, replies, runtime>> /\ disk' \in {disk, me.mem}
  BY LoopType DEF Save, Close, outside
<1>2. CASE Save(r)
  BY <1>1, <1>2, GotoQuiet DEF Save, Points, InTurn, Busy
<1>3. CASE Close(r)
  <2> DEFINE l == [me EXCEPT !.pc = "over", !.up = FALSE]
  <2>1. l \in Loops /\ l.pc = "over" /\ l.mem = me.mem /\ l.msg = me.msg
    BY <1>1 DEF Loops, Points
  <2>2. Put(r, l)
    BY <1>3 DEF Close
  <2> HIDE DEF l
  <2>3. l \in GoodLoops
    BY <2>1, GoodOutsideTurn DEF Busy, InTurn
  <2>4. QED
    BY <1>1, <2>1, <2>2, <2>3 DEF Quiet, Put
<1>4. QED
  BY <1>2, <1>3

LEMMA ConcludeQuiet == ASSUME Shape, NEW r \in Runs, Conclude(r) PROVE Quiet(r)
<1> DEFINE me == loop[r]
           well == At(r, "ok")
           mem == Marked(me.mem, me.msg)
           a == [me EXCEPT !.pc = "saveAll", !.msg = 0, !.up = FALSE, !.batch = <<>>]
           u == me.up /\ well
           b == [me EXCEPT !.pc = "saveOne", !.msg = 0, !.up = u, !.mem = mem]
<1>1. /\ me \in Loops /\ me.mem \in Mems /\ disk' = disk /\ UNCHANGED <<threads, replies, runtime>>
      /\ me.msg \in Message
  BY LoopType DEF Conclude, outside, At, Busy
<1>2. mem \in Mems /\ mem.thread = me.mem.thread
  BY <1>1, MarkedType
<1>3. Put(r, a) \/ Put(r, b)
  BY DEF Conclude
<1>4. <<>> \in Seq(Message) /\ u \in BOOLEAN
  BY EmptySeq
<1>5. a \in Loops /\ a.pc = "saveAll" /\ a.mem = me.mem
  BY <1>1, <1>4 DEF Loops, Points
<1> HIDE DEF mem, u
<1>6. b \in Loops /\ b.pc = "saveOne" /\ b.mem = mem
  BY <1>1, <1>2, <1>4 DEF Loops, Points
<1> HIDE DEF a, b
<1>7. a \in GoodLoops /\ b \in GoodLoops
  BY <1>5, <1>6, GoodOutsideTurn DEF Busy, InTurn
<1>8. QED
  BY <1>1, <1>2, <1>3, <1>5, <1>6, <1>7 DEF Quiet, Put

-----------------------------------------------------------------------------
(* The turn.  What the child will write for a message can be read from the *)
(* beginning of a turn, and reading keeps it so.                           *)
LEMMA ScriptReads ==
    ASSUME NEW m \in Message, NEW s \in Scripts(m)
    PROVE  s \in Seq(Events) /\ Reading(m, NoTurn, s)
<1> DEFINE of(kinds) == [k \in DOMAIN kinds |-> Event(kinds[k], m)]
<1>1. NoTurn.parts = <<>> /\ NoTurn.ended = FALSE
  BY DEF NoTurn
<1>2. CASE Inbox[m].kind = "silent"
  <2>1. s = of(<<"response", "idle", "completed">>) \/ s = of(<<"idle", "response">>)
    BY <1>2 DEF Scripts
  <2>2. ASSUME NEW n \in Nat, s \in [1 .. n -> Events], \A k \in 1 .. n : s[k].kind # "item"
        PROVE  s \in Seq(Events) /\ Reading(m, NoTurn, s)
    <3>1. s \in Seq(Events) /\ Len(s) = n
      BY <2>2
    <3>2. QED
      BY <1>1, <1>2, <2>2, <3>1 DEF Reading, Answer, NoItem
  <2>3. CASE s = of(<<"response", "idle", "completed">>)
    <3>1. /\ s \in [1 .. 3 -> Events] /\ (\A k \in 1 .. 3 : s[k].msg = m)
          /\ s[1].kind = "response" /\ s[2].kind = "idle" /\ s[3].kind = "completed"
      BY <2>3 DEF Event, Events
    <3>2. QED
      BY <2>2, <3>1
  <2>4. CASE s = of(<<"idle", "response">>)
    <3>1. /\ s \in [1 .. 2 -> Events] /\ (\A k \in 1 .. 2 : s[k].msg = m)
          /\ s[1].kind = "idle" /\ s[2].kind = "response"
      BY <2>4 DEF Event, Events
    <3>2. QED
      BY <2>2, <3>1
  <2>5. QED
    BY <2>1, <2>3, <2>4
<1>3. CASE Inbox[m].kind # "silent"
  <2>1. \/ s = of(<<"item", "completed", "response">>)
        \/ s = of(<<"response", "item", "completed", "idle">>)
        \/ s = of(<<"response", "item", "idle", "completed">>)
    BY <1>3 DEF Scripts
  <2>2. ASSUME NEW n \in Nat, NEW j \in 1 .. n, s \in [1 .. n -> Events],
               s[j].kind = "item", s[j].msg = m,
               \A k \in 1 .. n : /\ k # j => s[k].kind # "item"
                                 /\ k < j => s[k].kind = "response"
        PROVE  s \in Seq(Events) /\ Reading(m, NoTurn, s)
    <3>1. s \in Seq(Events) /\ Len(s) = n
      BY <2>2
    <3>2. 1 .. Len(s) = 1 .. n
      BY <3>1
    <3>3. ItemAhead(s, m)
      BY <2>2, <3>2 DEF ItemAhead
    <3>4. QED
      BY <1>1, <1>3, <3>1, <3>3 DEF Reading
  <2>3. CASE s = of(<<"item", "completed", "response">>)
    <3>1. /\ s \in [1 .. 3 -> Events] /\ (\A k \in 1 .. 3 : s[k].msg = m)
          /\ s[1].kind = "item" /\ s[2].kind = "completed" /\ s[3].kind = "response"
      BY <2>3 DEF Event, Events
    <3>2. QED
      BY <2>2, <3>1
  <2>4. CASE s = of(<<"response", "item", "completed", "idle">>)
    <3>1. /\ s \in [1 .. 4 -> Events] /\ (\A k \in 1 .. 4 : s[k].msg = m)
          /\ s[1].kind = "response" /\ s[2].kind = "item"
          /\ s[3].kind = "completed" /\ s[4].kind = "idle"
      BY <2>4 DEF Event, Events
    <3>2. QED
      BY <2>2, <3>1
  <2>5. CASE s = of(<<"response", "item", "idle", "completed">>)
    <3>1. /\ s \in [1 .. 4 -> Events] /\ (\A k \in 1 .. 4 : s[k].msg = m)
          /\ s[1].kind = "response" /\ s[2].kind = "item"
          /\ s[3].kind = "idle" /\ s[4].kind = "completed"
      BY <2>5 DEF Event, Events
    <3>2. QED
      BY <2>2, <3>1
  <2>6. QED
    BY <2>1, <2>3, <2>4, <2>5
<1>4. QED
  BY <1>2, <1>3

LEMMA TakenReads ==
    ASSUME NEW m \in Message, NEW turn \in Turns, NEW pipe \in Seq(Events), pipe # <<>>,
           Reading(m, turn, pipe)
    PROVE  /\ Taken(turn, Head(pipe)) \in Turns /\ Tail(pipe) \in Seq(Events)
           /\ Reading(m, Taken(turn, Head(pipe)), Tail(pipe))
<1> DEFINE e == Head(pipe)
           rest == Tail(pipe)
           new == Taken(turn, e)
<1>1. /\ e \in Events /\ rest \in Seq(Events) /\ Len(rest) = Len(pipe) - 1 /\ Len(rest) \in Nat
      /\ \A k \in 1 .. Len(rest) : rest[k] = pipe[k + 1]
      /\ e = pipe[1] /\ Len(pipe) \in Nat
  BY HeadTailProperties, LenProperties
<1>2. e.kind \in {"response", "item", "idle", "completed"} /\ e.msg \in Message
      /\ turn.parts \in Seq(Message)
  BY <1>1 DEF Events, Turns
<1> HIDE DEF e, rest
<1>3. /\ e.kind = "response" => new = [turn EXCEPT !.accepted = TRUE]
      /\ e.kind = "item" => new = [turn EXCEPT !.parts = Append(turn.parts, e.msg)]
      /\ e.kind \in {"idle", "completed"} => new = [turn EXCEPT !.ended = TRUE]
  BY DEF Taken
<1>4. /\ new \in Turns
      /\ e.kind # "item" => new.parts = turn.parts
      /\ e.kind = "response" => new.ended = turn.ended
      /\ e.kind = "item" => new.parts = Append(turn.parts, e.msg)
  <2>1. Append(turn.parts, e.msg) \in Seq(Message)
    BY <1>2, AppendProperties
  <2>2. QED
    BY <1>2, <1>3, <2>1 DEF Turns
<1> HIDE DEF new
<1>5. CASE turn.parts = Answer(m) /\ NoItem(pipe)
  <2>1. e.kind # "item" /\ NoItem(rest)
    BY <1>1, <1>5 DEF NoItem
  <2>2. QED
    BY <1>1, <1>4, <1>5, <2>1 DEF Reading, e, rest, new
<1>6. CASE /\ Inbox[m].kind # "silent" /\ turn.parts = <<>> /\ ~turn.ended
           /\ ItemAhead(pipe, m)
  <2>1. PICK j \in 1 .. Len(pipe) :
           /\ pipe[j].kind = "item" /\ pipe[j].msg = m
           /\ \A k \in 1 .. Len(pipe) : /\ k # j => pipe[k].kind # "item"
                                        /\ k < j => pipe[k].kind = "response"
    BY <1>6 DEF ItemAhead
  <2>2. CASE j = 1
    <3>1. NoItem(rest)
      BY <1>1, <2>1, <2>2 DEF NoItem
    <3>2. new.parts = Append(<<>>, m)
      BY <1>1, <1>4, <1>6, <2>1, <2>2
    <3>3. new.parts = Answer(m)
      BY <1>6, <3>2 DEF Answer
    <3>4. QED
      BY <1>1, <1>4, <3>1, <3>3 DEF Reading, e, rest, new
  <2>3. CASE j # 1
    <3>1. e.kind = "response"
      BY <1>1, <2>1, <2>3
    <3>2. new.parts = <<>> /\ ~new.ended
      BY <1>4, <1>6, <3>1
    <3>3. ItemAhead(rest, m)
      <4>1. j - 1 \in 1 .. Len(rest) /\ rest[j - 1] = pipe[j]
        BY <1>1, <2>1, <2>3
      <4>2. \A k \in 1 .. Len(rest) : /\ k # j - 1 => rest[k].kind # "item"
                                      /\ k < j - 1 => rest[k].kind = "response"
        BY <1>1, <2>1
      <4>3. QED
        BY <2>1, <4>1, <4>2 DEF ItemAhead
    <3>4. QED
      BY <1>1, <1>4, <1>6, <3>2, <3>3 DEF Reading, e, rest, new
  <2>4. QED
    BY <2>2, <2>3
<1>7. QED
  BY <1>5, <1>6 DEF Reading

(* The other steps: a thread is made for a contact, a contact is told.     *)
Fresh(r) ==
    \E l \in GoodLoops, p \in Peers :
       /\ loop' = [loop EXCEPT ![r] = l]
       /\ l.mem.thread[p] = threads + 1
       /\ \A q \in Peers \ {p} : l.mem.thread[q] = loop[r].mem.thread[q]
       /\ threads' = threads + 1
       /\ UNCHANGED <<disk, replies, runtime>>

Told(r) ==
    \E l \in GoodLoops, y \in GoodReplies :
       /\ loop' = [loop EXCEPT ![r] = l]
       /\ l.mem = loop[r].mem
       /\ y.thread = loop[r].mem.thread[y.to]
       /\ replies' = Append(replies, y)
       /\ UNCHANGED <<disk, threads, runtime>>

LEMMA PrepareMoves ==
    ASSUME ~LateEnd, Shape, NEW r \in Runs, Prepare(r)
    PROVE  Quiet(r) \/ Fresh(r)
<1> DEFINE me == loop[r]
           p == Inbox[me.msg].from
           old == me.mem.thread[p]
<1>1. /\ me \in Loops /\ me.mem \in Mems /\ UNCHANGED <<disk, replies, runtime>>
      /\ me.msg \in Message /\ p \in Peers /\ threads \in Nat /\ me.mem.thread \in [Peers -> Nat]
  BY LoopType, InboxFacts DEF Prepare, outside, At, Busy, Shape, Mems
<1>2. ASSUME NEW t \in Nat,
             NEW pc \in {"turn", "error"}, NEW pipe \in Seq(Events), NEW turn \in Turns,
             pc = "turn" => t # 0 /\ pipe = <<>> /\ turn = NoTurn,
             Put(r, [me EXCEPT !.pc = pc, !.mem.thread[p] = t, !.pipe = pipe, !.turn = turn])
      PROVE  \E l \in GoodLoops :
                /\ loop' = [loop EXCEPT ![r] = l] /\ l.mem.thread[p] = t
                /\ \A q \in Peers \ {p} : l.mem.thread[q] = me.mem.thread[q]
  <2> DEFINE th == [me.mem.thread EXCEPT ![p] = t]
             mem == [me.mem EXCEPT !.thread = th]
             l == [me EXCEPT !.pc = pc, !.mem = mem, !.pipe = pipe, !.turn = turn]
  <2>1. th \in [Peers -> Nat] /\ th[p] = t /\ \A q \in Peers \ {p} : th[q] = me.mem.thread[q]
    BY <1>1
  <2>2. loop' = [loop EXCEPT ![r] = l]
    BY <1>2 DEF Put
  <2> HIDE DEF th
  <2>3. mem \in Mems /\ mem.thread = th
    BY <1>1, <2>1 DEF Mems
  <2> HIDE DEF mem
  <2>4. l \in Loops /\ l.pc = pc /\ l.mem = mem /\ l.msg = me.msg /\ l.pipe = pipe /\ l.turn = turn
    BY <1>1, <1>2, <2>3 DEF Loops, Points
  <2> HIDE DEF l
  <2>5. l \in GoodLoops
    BY <1>1, <1>2, <2>1, <2>3, <2>4 DEF GoodLoops, InTurn, Busy
  <2>6. QED
    BY <2>1, <2>2, <2>3, <2>4, <2>5
<1>3. <<>> \in Seq(Events) /\ NoTurn \in Turns /\ me.pipe \in Seq(Events) /\ me.turn \in Turns
  BY <1>1, EmptySeq, NoTurnType DEF Loops
<1>4. CASE /\ old # 0 /\ UNCHANGED threads
           /\ Put(r, [me EXCEPT !.pc = "turn", !.mem.thread[p] = old, !.pipe = <<>>, !.turn = NoTurn])
  <2>1. old \in Nat
    BY <1>1
  <2>2. \E l \in GoodLoops :
           /\ loop' = [loop EXCEPT ![r] = l] /\ l.mem.thread[p] = old
           /\ \A q \in Peers \ {p} : l.mem.thread[q] = me.mem.thread[q]
    BY <1>2, <1>3, <1>4, <2>1
  <2>3. QED
    BY <1>1, <1>4, <2>2 DEF Quiet
<1>5. CASE /\ threads' = threads + 1
           /\ Put(r, [me EXCEPT !.pc = "turn", !.mem.thread[p] = threads + 1, !.pipe = <<>>,
                                !.turn = NoTurn])
  <2>1. threads + 1 \in Nat /\ threads + 1 # 0
    BY <1>1
  <2>2. \E l \in GoodLoops :
           /\ loop' = [loop EXCEPT ![r] = l] /\ l.mem.thread[p] = threads + 1
           /\ \A q \in Peers \ {p} : l.mem.thread[q] = me.mem.thread[q]
    BY <1>2, <1>3, <1>5, <2>1
  <2>3. QED
    BY <1>1, <1>5, <2>2 DEF Fresh
<1>6. CASE /\ Put(r, [me EXCEPT !.pc = "error", !.mem.thread[p] = 0]) /\ UNCHANGED threads
  <2> DEFINE a == [me EXCEPT !.pc = "error", !.mem.thread[p] = 0]
             b == [me EXCEPT !.pc = "error", !.mem.thread[p] = 0, !.pipe = me.pipe,
                             !.turn = me.turn]
  <2>1. a = b
    BY <1>1 DEF Loops
  <2>2. Put(r, b)
    <3>1. Put(r, a)
      BY <1>6
    <3> HIDE DEF a, b
    <3>2. QED
      BY <2>1, <3>1
  <2>3. \E l \in GoodLoops :
           /\ loop' = [loop EXCEPT ![r] = l] /\ l.mem.thread[p] = 0
           /\ \A q \in Peers \ {p} : l.mem.thread[q] = me.mem.thread[q]
    <3> DEFINE pc == "error"
               t == 0
    <3>1. pc \in {"turn", "error"} /\ pc # "turn" /\ t \in Nat
      OBVIOUS
    <3>2. Put(r, [me EXCEPT !.pc = pc, !.mem.thread[p] = t, !.pipe = me.pipe, !.turn = me.turn])
      BY <2>2
    <3> HIDE DEF pc
    <3>3. QED
      BY <1>2, <1>3, <3>1, <3>2
  <2>4. QED
    BY <1>1, <1>6, <2>3 DEF Quiet
<1>7. QED
  BY <1>4, <1>5, <1>6 DEF Prepare, Peer

LEMMA StartTurnQuiet == ASSUME Shape, NEW r \in Runs, StartTurn(r) PROVE Quiet(r)
<1> DEFINE me == loop[r]
<1>1. /\ me \in GoodLoops /\ me \in Loops /\ disk' = disk /\ UNCHANGED <<threads, replies, runtime>>
      /\ me.pc = "turn"
  BY LoopType DEF Shape, StartTurn, outside, At
<1>2. /\ me.msg \in Message /\ me.pipe = <<>> /\ me.turn = NoTurn
      /\ me.mem.thread[Inbox[me.msg].from] # 0
  BY <1>1 DEF GoodLoops, Busy, InTurn
<1>3. PICK s \in Scripts(me.msg) : Put(r, [me EXCEPT !.pc = "read", !.pipe = @ \o s])
  BY DEF StartTurn
<1>4. s \in Seq(Events) /\ Reading(me.msg, NoTurn, s)
  BY <1>2, <1>3, ScriptReads
<1>5. me.pipe \o s = s
  BY <1>2, <1>4, ConcatEmptySeq
<1> DEFINE l == [me EXCEPT !.pc = "read", !.pipe = s]
<1>6. l \in Loops /\ l.pc = "read" /\ l.msg = me.msg /\ l.mem = me.mem /\ l.pipe = s /\ l.turn = me.turn
  BY <1>1, <1>4 DEF Loops, Points
<1>7. Put(r, l)
  BY <1>3, <1>5
<1> HIDE DEF l
<1>8. l \in GoodLoops
  BY <1>2, <1>4, <1>6 DEF GoodLoops
<1>9. QED
  BY <1>1, <1>6, <1>7, <1>8 DEF Quiet, Put

LEMMA ReadQuiet == ASSUME Shape, NEW r \in Runs, Read(r) PROVE Quiet(r)
<1> DEFINE me == loop[r]
           turn == Taken(me.turn, Head(me.pipe))
           rest == Tail(me.pipe)
           pc == IF turn.accepted /\ turn.ended THEN "send" ELSE "read"
           l == [me EXCEPT !.turn = turn, !.pipe = rest, !.pc = pc]
<1>1. /\ me \in GoodLoops /\ me \in Loops /\ disk' = disk /\ UNCHANGED <<threads, replies, runtime>>
      /\ me.pc = "read"
  BY LoopType DEF Shape, Read, outside, At
<1>2. /\ me.msg \in Message /\ Reading(me.msg, me.turn, me.pipe)
      /\ me.mem.thread[Inbox[me.msg].from] # 0 /\ me.turn \in Turns /\ me.pipe \in Seq(Events)
  BY <1>1 DEF GoodLoops, Busy, InTurn, Loops
<1>3. CASE Goto(r, "error")
  BY <1>1, <1>2, <1>3, GotoQuiet DEF Points, InTurn
<1>4. CASE me.pipe # <<>> /\ Put(r, l)
  <2>1. turn \in Turns /\ rest \in Seq(Events) /\ Reading(me.msg, turn, rest)
    BY <1>2, <1>4, TakenReads
  <2>2. pc \in {"send", "read"} /\ (pc = "send" => turn.ended)
    OBVIOUS
  <2> HIDE DEF turn, rest, pc
  <2>3. /\ l \in Loops /\ l.pc = pc /\ l.msg = me.msg /\ l.mem = me.mem /\ l.pipe = rest
        /\ l.turn = turn
    BY <1>1, <2>1, <2>2 DEF Loops, Points
  <2>4. pc = "send" => turn.parts = Answer(me.msg)
    BY <2>1, <2>2 DEF Reading
  <2> HIDE DEF l
  <2>5. l \in GoodLoops
    BY <1>2, <2>1, <2>2, <2>3, <2>4 DEF GoodLoops
  <2>6. QED
    BY <1>1, <1>4, <2>3, <2>5 DEF Quiet, Put
<1>5. QED
  BY <1>3, <1>4 DEF Read

LEMMA SendMoves == ASSUME Shape, NEW r \in Runs, Send(r) PROVE Quiet(r) \/ Told(r)
<1> DEFINE me == loop[r]
           y == [to |-> Peer(r), msg |-> me.msg, parts |-> me.turn.parts,
                 thread |-> me.mem.thread[Peer(r)]]
<1>1. /\ me \in GoodLoops /\ me \in Loops /\ UNCHANGED <<threads, disk, runtime>>
      /\ me.pc = "send"
  BY LoopType DEF Shape, Send, outside, At
<1>2. /\ me.msg \in Message /\ me.turn.parts = Answer(me.msg) /\ me.turn.parts \in Seq(Message)
      /\ me.mem.thread[Inbox[me.msg].from] # 0 /\ me.mem.thread \in [Peers -> Nat]
      /\ Peer(r) = Inbox[me.msg].from /\ Peer(r) \in Peers
  BY <1>1, InboxFacts DEF GoodLoops, Busy, InTurn, Loops, Mems, Turns, Peer
<1>3. y \in Replies /\ y.parts = Answer(y.msg) /\ y.to = Inbox[y.msg].from
      /\ y.thread = me.mem.thread[y.to]
  BY <1>2 DEF Replies
<1>4. CASE (Goto(r, "ok") \/ Goto(r, "error")) /\ UNCHANGED replies
  BY <1>1, <1>2, <1>4, GotoQuiet DEF Points, InTurn
<1>5. ASSUME NEW pc \in {"ok", "error"}, Goto(r, pc), replies' = Append(replies, y)
      PROVE  Told(r)
  <2> DEFINE l == [me EXCEPT !.pc = pc]
  <2>1. l \in Loops /\ l.pc = pc /\ l.mem = me.mem /\ l.msg = me.msg
    BY <1>1, <1>5 DEF Loops, Points
  <2>2. loop' = [loop EXCEPT ![r] = l]
    BY <1>5 DEF Goto, Put
  <2> HIDE DEF l, y
  <2>3. l \in GoodLoops
    BY <1>2, <2>1, GoodOutsideTurn DEF InTurn
  <2>4. y \in GoodReplies
    BY <1>3 DEF GoodReplies
  <2>5. QED
    BY <1>1, <1>3, <1>5, <2>1, <2>2, <2>3, <2>4 DEF Told
<1>6. QED
  BY <1>4, <1>5 DEF Send

-----------------------------------------------------------------------------
(* Every step of a run is one of the three, or its end.                    *)
LEMMA LoopMoves ==
    ASSUME ~LateEnd, Shape, NEW r \in Runs, LoopNext(r)
    PROVE  Quiet(r) \/ Fresh(r) \/ Told(r) \/ Leave(r)
  BY BeginQuiet, PollQuiet, PickQuiet, EnsureServerQuiet, PrepareMoves, StartTurnQuiet,
     ReadQuiet, SendMoves, ConcludeQuiet, SaveCloseQuiet DEF LoopNext

(* A thread is a contact's if the state file, a run or a reply says so.    *)
Holds(p, t) ==
    \/ disk.thread[p] = t
    \/ \E r \in Runs : loop[r].mem.thread[p] = t
    \/ \E i \in 1 .. Len(replies) : replies[i].to = p /\ replies[i].thread = t

(* A thread is held by one contact only, and the child has made it.        *)
Apart ==
    \A p \in Peers : \A t \in Nat \ {0} : Holds(p, t) =>
       t <= threads /\ \A q \in Peers : Holds(q, t) => p = q

LEMMA ApartKept ==
    ASSUME Apart, threads \in Nat, threads' \in Nat, threads' >= threads, NEW p0,
           \A p \in Peers : \A t \in Nat \ {0} : Holds(p, t)' =>
              Holds(p, t) \/ (p = p0 /\ t = threads + 1 /\ threads' = threads + 1)
    PROVE  Apart'
  BY DEF Apart

LEMMA LoopKeeps ==
    ASSUME Shape, Apart, NEW r \in Runs, Quiet(r) \/ Fresh(r) \/ Told(r) \/ Leave(r)
    PROVE  Shape' /\ Apart'
<1>1. /\ loop \in [Runs -> GoodLoops] /\ loop[r] \in GoodLoops /\ disk \in Mems /\ threads \in Nat
      /\ replies \in Seq(GoodReplies) /\ loop[r].mem \in Mems
  BY LoopType DEF Shape
<1>2. CASE Quiet(r)
  <2>1. PICK l \in GoodLoops :
           /\ loop' = [loop EXCEPT ![r] = l]
           /\ \A p \in Peers : l.mem.thread[p] \in {0, loop[r].mem.thread[p], disk.thread[p]}
    BY <1>2 DEF Quiet
  <2>2. disk' \in {disk, loop[r].mem} /\ UNCHANGED <<threads, replies>>
    BY <1>2 DEF Quiet
  <2>3. loop' \in [Runs -> GoodLoops] /\ \A q \in Runs : loop'[q] = IF q = r THEN l ELSE loop[q]
    BY <1>1, <2>1
  <2>4. ASSUME NEW p \in Peers, NEW t \in Nat \ {0}, Holds(p, t)' PROVE Holds(p, t)
    BY <2>1, <2>2, <2>3, <2>4 DEF Holds
  <2>5. QED
    BY <1>1, <2>2, <2>3, <2>4, ApartKept DEF Shape
<1>3. CASE Fresh(r)
  <2>1. PICK l \in GoodLoops, p0 \in Peers :
           /\ loop' = [loop EXCEPT ![r] = l]
           /\ l.mem.thread[p0] = threads + 1
           /\ \A q \in Peers \ {p0} : l.mem.thread[q] = loop[r].mem.thread[q]
    BY <1>3 DEF Fresh
  <2>2. threads' = threads + 1 /\ UNCHANGED <<disk, replies>>
    BY <1>3 DEF Fresh
  <2>3. loop' \in [Runs -> GoodLoops] /\ \A q \in Runs : loop'[q] = IF q = r THEN l ELSE loop[q]
    BY <1>1, <2>1
  <2>4. ASSUME NEW p \in Peers, NEW t \in Nat \ {0}, Holds(p, t)'
        PROVE  Holds(p, t) \/ (p = p0 /\ t = threads + 1)
    BY <2>1, <2>2, <2>3, <2>4 DEF Holds
  <2>5. QED
    BY <1>1, <2>2, <2>3, <2>4, ApartKept DEF Shape
<1>4. CASE Told(r)
  <2>1. PICK l \in GoodLoops, y \in GoodReplies :
           /\ loop' = [loop EXCEPT ![r] = l]
           /\ l.mem = loop[r].mem
           /\ y.thread = loop[r].mem.thread[y.to]
           /\ replies' = Append(replies, y)
    BY <1>4 DEF Told
  <2>2. UNCHANGED <<disk, threads>>
    BY <1>4 DEF Told
  <2>3. loop' \in [Runs -> GoodLoops] /\ \A q \in Runs : loop'[q].mem = loop[q].mem
    BY <1>1, <2>1
  <2>4. /\ replies' \in Seq(GoodReplies) /\ Len(replies) \in Nat /\ Len(replies') = Len(replies) + 1
        /\ \A i \in 1 .. Len(replies) : replies'[i] = replies[i]
        /\ replies'[Len(replies) + 1] = y
    BY <1>1, <2>1, AppendProperties, LenProperties
  <2>5. ASSUME NEW p \in Peers, NEW t \in Nat \ {0}, Holds(p, t)' PROVE Holds(p, t)
    <3>1. CASE \E i \in 1 .. Len(replies') : replies'[i].to = p /\ replies'[i].thread = t
      BY <2>1, <2>4, <3>1 DEF Holds
    <3>2. CASE disk'.thread[p] = t \/ \E q \in Runs : loop'[q].mem.thread[p] = t
      BY <2>2, <2>3, <3>2 DEF Holds
    <3>3. QED
      BY <2>5, <3>1, <3>2 DEF Holds
  <2>6. QED
    BY <1>1, <2>2, <2>3, <2>4, <2>5, ApartKept DEF Shape
<1>5. CASE Leave(r)
  <2>1. loop' = [loop EXCEPT ![r] = Off] /\ UNCHANGED <<disk, threads, replies>>
    BY <1>5 DEF Leave, Put
  <2>2. loop' \in [Runs -> GoodLoops] /\ \A q \in Runs : loop'[q] = IF q = r THEN Off ELSE loop[q]
    BY <1>1, <2>1, OffGood
  <2>3. ASSUME NEW p \in Peers, NEW t \in Nat \ {0}, Holds(p, t)' PROVE Holds(p, t)
    BY <2>1, <2>2, <2>3, OffGood, NoStateType DEF Holds
  <2>4. QED
    BY <1>1, <2>1, <2>2, <2>3, ApartKept DEF Shape
<1>6. QED
  BY <1>2, <1>3, <1>4, <1>5

-----------------------------------------------------------------------------
(* What the window and the manager do to the runs: one begins, one is told *)
(* to stop, or all are gone.                                               *)
LEMMA CommandMoves ==
    ASSUME Shape, Start \/ Stop \/ ShowStop \/ Restart
    PROVE  /\ loop' \in [Runs -> GoodLoops]
           /\ \A q \in Runs : loop'[q].mem \in {loop[q].mem, NoState}
           /\ UNCHANGED <<disk, threads, replies>>
<1>1. UNCHANGED <<disk, threads, replies>> /\ loop \in [Runs -> GoodLoops]
  BY DEF Start, Stop, ShowStop, Restart, Shape
<1>2. \A q \in Runs : loop[q] \in Loops
  BY LoopType
<1>3. CASE UNCHANGED loop
  BY <1>1, <1>3
<1>4. ASSUME NEW r \in Runs, Spawn(r)
      PROVE  /\ loop' \in [Runs -> GoodLoops]
             /\ \A q \in Runs : loop'[q].mem \in {loop[q].mem, NoState}
  <2> DEFINE l == [loop[r] EXCEPT !.pc = "begin"]
  <2>1. l \in Loops /\ l.pc = "begin" /\ l.mem = loop[r].mem
    BY <1>2 DEF Loops, Points
  <2>2. loop' = [loop EXCEPT ![r] = l]
    BY <1>4 DEF Spawn, Goto, Put
  <2> HIDE DEF l
  <2>3. l \in GoodLoops
    BY <2>1, GoodOutsideTurn DEF Busy, InTurn
  <2>4. QED
    BY <1>1, <2>1, <2>2, <2>3
<1>5. CASE loop' = [loop EXCEPT ![runtime].stop = TRUE]
  <2>1. CASE runtime \in Runs
    <3> DEFINE me == loop[runtime]
               l == [me EXCEPT !.stop = TRUE]
    <3>1. me \in GoodLoops /\ me \in Loops
      BY <1>1, <1>2, <2>1
    <3>2. l \in GoodLoops /\ l.mem = me.mem
      BY <3>1 DEF GoodLoops, Loops
    <3>3. loop' = [loop EXCEPT ![runtime] = l]
      BY <1>5
    <3> HIDE DEF l
    <3>4. QED
      BY <1>1, <2>1, <3>2, <3>3
  <2>2. CASE runtime \notin Runs
    <3>1. loop' \in [Runs -> GoodLoops] /\ \A q \in Runs : loop'[q] = loop[q]
      BY <1>1, <1>5, <2>2
    <3>2. QED
      BY <1>1, <3>1
  <2>3. QED
    BY <2>1, <2>2
<1>6. CASE Restart
  <2> DEFINE none == [s \in Runs |-> Off]
             l == [Off EXCEPT !.pc = "begin"]
  <2>1. none \in [Runs -> GoodLoops] /\ \A q \in Runs : none[q] = Off
    BY OffGood
  <2>2. Off \in Loops /\ Off.mem = NoState
    BY OffGood DEF GoodLoops
  <2>3. l \in Loops /\ l.pc = "begin" /\ l.mem = NoState
    BY <2>2 DEF Loops, Points
  <2>4. loop' = none \/ \E r \in Runs : loop' = [none EXCEPT ![r] = l]
    <3>1. loop' = none \/ \E r \in Runs : loop' = [none EXCEPT ![r].pc = "begin"]
      BY <1>6 DEF Restart
    <3>2. \A r \in Runs : [none EXCEPT ![r].pc = "begin"] = [none EXCEPT ![r] = l]
      BY <2>1
    <3>3. QED
      BY <3>1, <3>2
  <2> HIDE DEF none, l
  <2>5. l \in GoodLoops
    BY <2>3, GoodOutsideTurn DEF Busy, InTurn
  <2>6. QED
    BY <1>1, <2>1, <2>2, <2>3, <2>4, <2>5
<1>7. QED
  BY <1>1, <1>3, <1>4, <1>5, <1>6 DEF Start, Stop, ShowStop

(* Both parts together are inductive.                                      *)
LEMMA InvStep ==
    ASSUME ~LateEnd, Shape, Apart, [Next]_vars
    PROVE  Shape' /\ Apart'
<1>1. CASE Start \/ Stop \/ ShowStop \/ Restart
  <2>1. /\ loop' \in [Runs -> GoodLoops] /\ UNCHANGED <<disk, threads, replies>>
        /\ \A q \in Runs : loop'[q].mem \in {loop[q].mem, NoState}
    BY <1>1, CommandMoves
  <2>2. ASSUME NEW p \in Peers, NEW t \in Nat \ {0}, Holds(p, t)' PROVE Holds(p, t)
    BY <2>1, <2>2, NoStateType DEF Holds
  <2>3. QED
    BY <2>1, <2>2, ApartKept DEF Shape
<1>2. CASE \E r \in Runs : LoopNext(r)
  BY <1>2, LoopMoves, LoopKeeps
<1>3. CASE UNCHANGED vars
  <2>1. UNCHANGED <<loop, disk, threads, replies>>
    BY <1>3 DEF vars
  <2>2. QED
    BY <2>1 DEF Shape, Apart, Holds
<1>4. QED
  BY <1>1, <1>2, <1>3 DEF Next

LEMMA InvInit == Init => Shape /\ Apart
<1> SUFFICES ASSUME Init PROVE Shape /\ Apart
  OBVIOUS
<1>1. loop = [r \in Runs |-> Off] /\ disk = NoState /\ threads = 0 /\ replies = <<>>
  BY DEF Init
<1>2. /\ loop \in [Runs -> GoodLoops] /\ (\A r \in Runs : loop[r].mem = NoState)
      /\ disk \in Mems /\ threads \in Nat
  BY <1>1, OffGood, NoStateType
<1>3. replies \in Seq(GoodReplies) /\ Len(replies) = 0
  BY <1>1, EmptySeq
<1>4. Apart
  BY <1>1, <1>2, <1>3, NoStateType DEF Apart, Holds
<1>5. QED
  BY <1>2, <1>3, <1>4 DEF Shape

(* Contacts have threads of their own, and what a contact is told is the   *)
(* answer to the message it sent, however runs, stops, faults and deaths   *)
(* of the manager follow each other -- if the child has written all of a   *)
(* turn before it answers the next request.                                *)
THEOREM ContactsStayApart ==
    ASSUME ~LateEnd
    PROVE  Spec => []ContactsApart
<1>1. Shape /\ Apart /\ [Next]_vars => (Shape /\ Apart)'
  BY InvStep
<1>2. Shape /\ Apart => ContactsApart
  <2> SUFFICES ASSUME Shape, Apart PROVE ContactsApart
    OBVIOUS
  <2>1. /\ disk.thread \in [Peers -> Nat] /\ replies \in Seq(GoodReplies)
        /\ DOMAIN replies = 1 .. Len(replies)
        /\ \A i \in 1 .. Len(replies) : replies[i] \in GoodReplies
    BY LenProperties, ElementOfSeq DEF Shape, Mems
  <2>2. ASSUME NEW p \in Peers, NEW q \in Peers,
               disk.thread[p] # 0, disk.thread[p] = disk.thread[q]
        PROVE  p = q
    BY <2>1, <2>2 DEF Apart, Holds
  <2>3. ASSUME NEW i \in DOMAIN replies
        PROVE  replies[i].parts = IF Inbox[replies[i].msg].kind = "silent"
                                  THEN <<>> ELSE <<replies[i].msg>>
    BY <2>1, <2>3 DEF GoodReplies, Answer
  <2>4. ASSUME NEW i \in DOMAIN replies, NEW j \in DOMAIN replies,
               replies[i].thread = replies[j].thread
        PROVE  replies[i].to = replies[j].to
    <3> DEFINE t == replies[i].thread
               p == replies[i].to
               q == replies[j].to
    <3>1. t \in Nat \ {0} /\ p \in Peers /\ q \in Peers
      BY <2>1, <2>4 DEF GoodReplies, Replies
    <3>2. Holds(p, t) /\ Holds(q, t)
      BY <2>1, <2>4 DEF Holds
    <3>3. QED
      BY <3>1, <3>2 DEF Apart
  <2>5. QED
    BY <2>2, <2>3, <2>4 DEF ContactsApart
<1>3. QED
  BY <1>1, <1>2, InvInit, PTL DEF Spec

-----------------------------------------------------------------------------
(* One run.  The commands know of it as long as it is there, and a new one *)
(* is started only when they know of none.                                 *)
Single == /\ runtime \in Runs \cup {0}
          /\ loop = [r \in Runs |-> loop[r]]
          /\ \A r \in Runs : loop[r] # Off => r = runtime

(* A run that moves is there, and moves itself only; the commands forget it*)
(* when it is over.                                                        *)
LEMMA LoopRuns == ASSUME NEW r \in Runs, LoopNext(r) PROVE loop[r] # Off
<1>1. loop[r].pc # "off"
  BY DEF LoopNext, Begin, Poll, Pick, EnsureServer, Prepare, StartTurn, Read, Send,
         Conclude, Save, Close, Leave, At
<1>2. QED
  BY <1>1, OffGood

LEMMA LoopOwn ==
    ASSUME Single, NEW r \in Runs, LoopNext(r)
    PROVE  /\ loop' = [loop EXCEPT ![r] = loop'[r]]
           /\ UNCHANGED runtime \/ Leave(r)
<1>1. ASSUME NEW l, Put(r, l) PROVE loop' = [loop EXCEPT ![r] = loop'[r]]
  BY <1>1 DEF Put, Single
<1>2. ASSUME UNCHANGED loop PROVE loop' = [loop EXCEPT ![r] = loop'[r]]
  BY <1>2 DEF Single
<1>3. CASE Begin(r)
  BY <1>1, <1>3 DEF Begin, Goto, outside
<1>4. CASE Poll(r)
  BY <1>1, <1>2, <1>4 DEF Poll, Goto, outside
<1>5. CASE Pick(r)
  BY <1>1, <1>5 DEF Pick, outside
<1>6. CASE EnsureServer(r)
  BY <1>1, <1>6 DEF EnsureServer, Goto, outside
<1>7. CASE Prepare(r)
  BY <1>1, <1>7 DEF Prepare, outside
<1>8. CASE StartTurn(r)
  BY <1>1, <1>8 DEF StartTurn, outside
<1>9. CASE Read(r)
  BY <1>1, <1>9 DEF Read, Goto, outside
<1>10. CASE Send(r)
  BY <1>1, <1>10 DEF Send, Goto, outside
<1>11. CASE Conclude(r)
  BY <1>1, <1>11 DEF Conclude, outside
<1>12. CASE Save(r) \/ Close(r)
  BY <1>1, <1>12 DEF Save, Close, Goto, outside
<1>13. CASE Leave(r)
  BY <1>1, <1>13 DEF Leave
<1>14. QED
  BY <1>3, <1>4, <1>5, <1>6, <1>7, <1>8, <1>9, <1>10, <1>11, <1>12, <1>13 DEF LoopNext

LEMMA SingleStep == ASSUME Single, [Next]_vars PROVE Single'
<1>1. loop = [r \in Runs |-> loop[r]]
  BY DEF Single
<1>2. CASE \E r \in Runs : LoopNext(r)
  <2>1. PICK r \in Runs : LoopNext(r)
    BY <1>2
  <2>2. r = runtime
    BY <2>1, LoopRuns DEF Single
  <2>3. loop' = [loop EXCEPT ![r] = loop'[r]] /\ (UNCHANGED runtime \/ Leave(r))
    BY <2>1, LoopOwn
  <2>4. loop' = [q \in Runs |-> loop'[q]] /\ \A q \in Runs : q # r => loop'[q] = loop[q]
    BY <1>1, <2>3
  <2>5. CASE UNCHANGED runtime
    BY <2>2, <2>4, <2>5 DEF Single
  <2>6. CASE Leave(r)
    <3>1. loop' = [loop EXCEPT ![r] = Off] /\ runtime' = 0
      BY <2>2, <2>6 DEF Leave, Put
    <3>2. loop'[r] = Off
      BY <1>1, <3>1
    <3>3. QED
      BY <2>2, <2>4, <3>1, <3>2 DEF Single
  <2>7. QED
    BY <2>3, <2>5, <2>6
<1>3. ASSUME NEW r \in Runs, Spawn(r), runtime = 0 PROVE Single'
  <2>1. \A q \in Runs : loop[q] = Off
    BY <1>3, RunsAssumption DEF Single
  <2>2. /\ runtime' = r /\ loop' = [q \in Runs |-> loop'[q]]
        /\ \A q \in Runs : q # r => loop'[q] = loop[q]
    BY <1>1, <1>3 DEF Spawn, Goto, Put
  <2>3. QED
    BY <2>1, <2>2 DEF Single
<1>4. CASE UNCHANGED <<loop, runtime>>
  BY <1>4 DEF Single
<1>5. CASE Start
  BY <1>3, <1>4, <1>5 DEF Start
<1>6. CASE Stop
  <2>1. CASE loop' = [loop EXCEPT ![runtime].stop = TRUE] /\ UNCHANGED runtime
    <3>1. loop' = [q \in Runs |-> loop'[q]] /\ \A q \in Runs : q # runtime => loop'[q] = loop[q]
      BY <1>1, <2>1
    <3>2. QED
      BY <2>1, <3>1 DEF Single
  <2>2. QED
    BY <1>4, <1>6, <2>1 DEF Stop
<1>7. CASE ShowStop \/ UNCHANGED vars
  BY <1>4, <1>7 DEF ShowStop, vars
<1>8. CASE Restart
  <2>1. CASE loop' = [s \in Runs |-> Off] /\ runtime' = 0
    BY <2>1 DEF Single
  <2>2. ASSUME NEW r \in Runs, loop' = [[s \in Runs |-> Off] EXCEPT ![r].pc = "begin"],
               runtime' = r
        PROVE  Single'
    <3>1. loop' = [q \in Runs |-> loop'[q]] /\ \A q \in Runs : q # r => loop'[q] = Off
      BY <2>2
    <3>2. QED
      BY <2>2, <3>1 DEF Single
  <2>3. QED
    BY <1>8, <2>1, <2>2 DEF Restart
<1>9. QED
  BY <1>2, <1>5, <1>6, <1>7, <1>8 DEF Next

(* At most one run polls the account, however starts, stops and deaths of  *)
(* the manager follow each other, and whatever the child does.             *)
THEOREM OneRunHolds == Spec => []OneRun
<1>1. Init => Single
  BY DEF Init, Single
<1>2. Single => OneRun
  BY DEF Single, OneRun
<1>3. QED
  BY <1>1, <1>2, SingleStep, PTL DEF Spec

-----------------------------------------------------------------------------
(* Messages are handled once.  The window of the gateway must fit twice    *)
(* into what is remembered: a message that was passed over by a stop may   *)
(* come late, when newer ones are marked already, and pushes marks out     *)
(* that are still in the window.                                           *)
WindowFits == 2 * Overlap <= History + 1

(* The marks of a state file or a run: none twice, none beyond the cursor, *)
(* and none later than one it is Overlap or more behind.                   *)
Memory(mem) ==
    /\ Len(mem.done) <= History
    /\ \A i \in 1 .. Len(mem.done) : mem.done[i] <= mem.cursor
    /\ \A i, j \in 1 .. Len(mem.done) :
          i < j => mem.done[i] # mem.done[j] /\ mem.done[i] - mem.done[j] < Overlap

(* A message that is handled next is no further behind the marks.          *)
Due(mem, m) ==
    /\ m <= mem.cursor
    /\ \A i \in 1 .. Len(mem.done) : mem.done[i] - m < Overlap

Queue(l) ==
    /\ \A k \in 1 .. Len(l.batch) : Due(l.mem, l.batch[k])
    /\ \A j, k \in 1 .. Len(l.batch) : j < k => l.batch[j] < l.batch[k]
    /\ l.pc \in Busy => /\ l.msg \in Message /\ Due(l.mem, l.msg)
                        /\ \A k \in 1 .. Len(l.batch) : l.msg < l.batch[k]

Orderly(l) ==
    /\ Memory(l.mem)
    /\ Queue(l)
    /\ l.pc = "begin" => l.mem = NoState
    /\ l.pc \notin Busy => l.msg = 0
    /\ l.pc \in {"begin", "poll", "saveAll"} => l.batch = <<>>
    /\ l.pc = "close" => l.stop

(* The messages a run may still answer, and how often each may have been   *)
(* answered: once more when this run has done so.  A cut pays for a run.   *)
Unanswered == {"server", "thread", "turn", "read", "send"}
Past == {"close", "failed", "over"}
In(m, s) == \E k \in 1 .. Len(s) : s[k] = m
Open(l, m) ==
    \/ l.pc = "begin"
    \/ l.pc \in Unanswered /\ l.msg = m
    \/ /\ ~l.stop /\ ~In(m, l.mem.done)
       /\ m > l.mem.cursor - Overlap \/ In(m, l.batch)
       /\ l.pc \in {"ok", "error"} => l.msg # m
Allowed(l, m, c) ==
    IF l.pc \in Past THEN c
    ELSE (IF l.stop THEN c - 1 ELSE c) + (IF Open(l, m) THEN 0 ELSE 1)
Count(s, m) == Cardinality({i \in DOMAIN s : s[i].msg = m})

(* A message before the cursor, while no run was cut: not for Codex,       *)
(* handled, or still to come.                                              *)
Passed(l, m, h) == Inbox[m].kind = "skip" \/ m \in h \/ In(m, l.batch) \/ l.msg = m
Before == {"off", "begin", "failed", "over"}

Answers == [to : Peers, msg : Message, parts : Seq(Message), thread : Nat]
Kept == /\ loop \in [Runs -> Loops] /\ disk \in Mems /\ threads \in Nat
        /\ replies \in Seq(Answers) /\ handled \subseteq Message /\ cuts \in Nat
Marks == /\ Memory(disk) /\ \A i \in 1 .. Len(disk.done) : disk.done[i] \in handled
         /\ \A r \in Runs : /\ Orderly(loop[r])
                            /\ \A i \in 1 .. Len(loop[r].mem.done) : loop[r].mem.done[i] \in handled
Counts == /\ \A r \in Runs : loop[r] # Off =>
                \A m \in Message : Count(replies, m) <= Allowed(loop[r], m, cuts)
          /\ (\A r \in Runs : loop[r] = Off) => \A m \in Message : Count(replies, m) <= cuts
Skips == cuts = 0 =>
            /\ \A r \in Runs : /\ ~loop[r].stop
                               /\ \A m \in 1 .. loop[r].mem.cursor : Passed(loop[r], m, handled)
            /\ (\A r \in Runs : loop[r].pc \in Before) => disk.cursor = 0

LEMMA RangeIn == ASSUME NEW S, NEW s \in Seq(S), NEW m PROVE m \in Range(s) <=> In(m, s)
  BY LenProperties DEF Range, In

(* Marking appends, and forgets the first mark when there are too many.    *)
LEMMA MarkedDone ==
    ASSUME NEW mem \in Mems, Len(mem.done) <= History, NEW m \in Message, ~In(m, mem.done)
    PROVE  \E k \in {0, 1} :
              LET d == mem.done
                  n == Marked(mem, m)
              IN  /\ n \in Mems /\ n.cursor = mem.cursor
                  /\ Len(n.done) = Len(d) + 1 - k /\ Len(n.done) <= History
                  /\ k = 1 => Len(n.done) = History
                  /\ \A i \in 1 .. Len(n.done) - 1 : n.done[i] = d[i + k]
                  /\ n.done[Len(n.done)] = m
<1> DEFINE d == mem.done
           n == Marked(mem, m)
<1>1. d \in Seq(Message) /\ Len(d) \in Nat /\ History \in Nat \ {0}
  BY LenProperties, HistoryCoversOverlap DEF Mems
<1>2. m \notin Range(d)
  BY <1>1, RangeIn
<1>3. n \in Mems
  BY MarkedType
<1>4. CASE Len(d) < History
  <2> DEFINE e == Append(d, m)
  <2>1. /\ e \in Seq(Message) /\ Len(e) = Len(d) + 1 /\ e[Len(e)] = m
        /\ \A i \in 1 .. Len(d) : e[i] = d[i]
    BY <1>1, AppendProperties
  <2> HIDE DEF e
  <2>2. n = [mem EXCEPT !.done = e]
    BY <1>2, <1>4 DEF Marked, e
  <2>3. n.cursor = mem.cursor /\ n.done = e
    BY <2>2 DEF Mems
  <2>4. QED
    BY <1>1, <1>3, <1>4, <2>1, <2>3
<1>5. CASE ~(Len(d) < History)
  <2> DEFINE t == Tail(d)
             e == Append(t, m)
  <2>1. Len(d) = History /\ d # <<>>
    BY <1>1, <1>5, EmptySeq
  <2>2. /\ t \in Seq(Message) /\ Len(t) = Len(d) - 1
        /\ \A i \in 1 .. Len(t) : t[i] = d[i + 1]
    BY <1>1, <2>1, HeadTailProperties
  <2> HIDE DEF t
  <2>3. /\ e \in Seq(Message) /\ Len(e) = Len(t) + 1 /\ e[Len(e)] = m
        /\ \A i \in 1 .. Len(t) : e[i] = t[i]
    BY <2>2, AppendProperties
  <2> HIDE DEF e
  <2>4. n = [mem EXCEPT !.done = e]
    BY <1>2, <1>5 DEF Marked, e, t
  <2>5. n.cursor = mem.cursor /\ n.done = e
    BY <2>4 DEF Mems
  <2>6. QED
    BY <1>1, <1>3, <2>1, <2>2, <2>3, <2>5
<1>6. QED
  BY <1>4, <1>5

LEMMA Crowded ==
    ASSUME NEW n \in Nat, NEW T, IsFiniteSet(T), Cardinality(T) < n, NEW f \in [1 .. n -> T]
    PROVE  \E i, j \in 1 .. n : i # j /\ f[i] = f[j]
<1>1. 1 \in Int /\ n \in Int /\ Cardinality(T) \in Nat
  BY FS_CardinalityType
<1>2. IsFiniteSet(1 .. n) /\ Cardinality(1 .. n) = IF 1 > n THEN 0 ELSE n - 1 + 1
  BY <1>1, FS_Interval
<1>3. Cardinality(T) < Cardinality(1 .. n)
  BY <1>1, <1>2
<1> DEFINE S == 1 .. n
<1>4. IsFiniteSet(S) /\ Cardinality(T) < Cardinality(S) /\ f \in [S -> T]
  BY <1>2, <1>3
<1> HIDE DEF S
<1>5. \E i, j \in S : i # j /\ f[i] = f[j]
  BY <1>4, FS_PigeonHole, Zenon
<1>6. QED
  BY <1>5 DEF S

(* What is forgotten is behind the window, and not due behind m either.    *)
LEMMA MarkedFacts ==
    ASSUME WindowFits, NEW mem \in Mems, Memory(mem), NEW m \in Message, Due(mem, m)
    PROVE  LET n == Marked(mem, m)
           IN  /\ n \in Mems /\ Memory(n) /\ n.cursor = mem.cursor /\ In(m, n.done)
               /\ \A i \in 1 .. Len(n.done) : n.done[i] = m \/ In(n.done[i], mem.done)
               /\ \A h \in Message : In(h, mem.done) /\ ~In(h, n.done) =>
                     h <= mem.cursor - Overlap /\ ~(Due(mem, h) /\ m < h)
<1> DEFINE d == mem.done
           n == Marked(mem, m)
<1>1. /\ d \in Seq(Message) /\ Len(d) \in Nat /\ Overlap \in Nat /\ History \in Nat \ {0}
      /\ mem.cursor \in Nat /\ Message \subseteq Int /\ \A i \in 1 .. Len(d) : d[i] \in Message
  BY LenProperties, ElementOfSeq, HistoryCoversOverlap, InboxFacts DEF Mems
<1>2. CASE In(m, d)
  <2>1. n = mem
    BY <1>1, <1>2, RangeIn DEF Marked
  <2>2. QED
    BY <1>1, <1>2, <2>1 DEF In
<1>3. CASE ~In(m, d)
  <2>1. PICK k \in {0, 1} :
              /\ n \in Mems /\ n.cursor = mem.cursor
              /\ Len(n.done) = Len(d) + 1 - k /\ Len(n.done) <= History
              /\ k = 1 => Len(n.done) = History
              /\ \A i \in 1 .. Len(n.done) - 1 : n.done[i] = d[i + k]
              /\ n.done[Len(n.done)] = m
    BY <1>3, MarkedDone DEF Memory
  <2> DEFINE e == n.done
             L == Len(e)
  <2> HIDE DEF n
  <2>2. /\ L \in Nat /\ L = Len(d) + 1 - k /\ L >= 1 /\ e \in Seq(Message)
        /\ \A i \in 1 .. L : e[i] \in Message
    BY <1>1, <2>1, LenProperties, ElementOfSeq DEF Mems
  <2> HIDE DEF L
  <2>8. ASSUME NEW i \in 1 .. L, i # L PROVE e[i] = d[i + k] /\ i + k \in 1 .. Len(d)
    <3>1. i \in 1 .. Len(n.done) - 1
      BY <2>2, <2>8 DEF L
    <3>2. e[i] = d[i + k]
      BY <2>1, <3>1
    <3>3. i + k \in 1 .. Len(d)
      BY <1>1, <2>2, <2>8
    <3>4. QED
      BY <3>2, <3>3
  <2>9. e[L] = m /\ L <= History /\ (k = 1 => L = History) /\ n.cursor = mem.cursor
    BY <2>1 DEF L
  <2>3. \A i \in 1 .. L : e[i] <= mem.cursor /\ (e[i] = m \/ In(e[i], d))
    <3> SUFFICES ASSUME NEW i \in 1 .. L PROVE e[i] <= mem.cursor /\ (e[i] = m \/ In(e[i], d))
      OBVIOUS
    <3>1. CASE i = L
      BY <2>9, <3>1 DEF Due
    <3>2. CASE i # L
      BY <2>8, <3>2 DEF Memory, In
    <3>3. QED
      BY <3>1, <3>2
  <2>4. ASSUME NEW i \in 1 .. L, NEW j \in 1 .. L, i < j
        PROVE  e[i] # e[j] /\ e[i] - e[j] < Overlap
    <3>1. e[i] = d[i + k] /\ i + k \in 1 .. Len(d)
      BY <2>2, <2>4, <2>8
    <3>2. CASE j = L
      BY <1>1, <1>3, <2>9, <3>1, <3>2 DEF Due, In
    <3>3. CASE j # L
      <4>1. e[j] = d[j + k] /\ j + k \in 1 .. Len(d)
        BY <2>8, <3>3
      <4>3. i + k < j + k
        BY <2>2, <2>4
      <4>2. QED
        BY <3>1, <4>1, <4>3 DEF Memory
    <3>4. QED
      BY <3>2, <3>3
  <2>5. Memory(n) /\ In(m, e)
    BY <2>2, <2>3, <2>4, <2>9 DEF Memory, In, L
  <2>6. ASSUME NEW h \in Message, In(h, d), ~In(h, e),
               h > mem.cursor - Overlap \/ (Due(mem, h) /\ m < h)
        PROVE  FALSE
    <3>1. PICK a \in 1 .. Len(d) : d[a] = h
      BY <2>6 DEF In
    <3>2. k = 1 /\ a = 1 /\ L = History
      <4>1. CASE a - k \in 1 .. L - 1
        <5>1. a - k \in 1 .. L /\ a - k # L /\ (a - k) + k = a
          BY <2>2, <3>1, <4>1
        <5>2. e[a - k] = d[(a - k) + k]
          BY <2>8, <5>1
        <5>3. QED
          BY <2>6, <3>1, <5>1, <5>2 DEF In, L
      <4>2. CASE a - k \notin 1 .. L - 1
        BY <1>1, <2>2, <2>9, <3>1, <4>2
      <4>3. QED
        BY <4>1, <4>2
    <3> DEFINE lo == h - Overlap + 1
               hi == h + Overlap - 1
               T == (lo .. hi) \ {h}
    <3>3. \A i \in 1 .. L : e[i] \in T
      <4> SUFFICES ASSUME NEW i \in 1 .. L PROVE e[i] \in T
        OBVIOUS
      <4>1. e[i] # h /\ e[i] \in Int /\ h \in Int
        BY <1>1, <2>2, <2>6 DEF In, L
      <4>2. h - e[i] < Overlap
        <5>1. CASE i = L
          BY <1>1, <2>9, <3>1, <5>1 DEF Due
        <5>2. CASE i # L
          <6>1. e[i] = d[i + 1] /\ i + 1 \in 1 .. Len(d) /\ 1 < i + 1 /\ 1 \in 1 .. Len(d)
            BY <1>1, <2>2, <2>8, <3>1, <3>2, <5>2
          <6>2. d[1] - d[i + 1] < Overlap
            BY <6>1 DEF Memory
          <6>3. QED
            BY <3>1, <3>2, <6>1, <6>2
        <5>3. QED
          BY <5>1, <5>2
      <4>3. e[i] - h < Overlap
        <5>1. CASE h > mem.cursor - Overlap
          BY <1>1, <2>3, <4>1, <5>1
        <5>2. CASE Due(mem, h) /\ m < h
          <6>1. CASE e[i] = m
            BY <1>1, <4>1, <5>2, <6>1
          <6>2. CASE In(e[i], d)
            BY <5>2, <6>2 DEF Due, In
          <6>3. QED
            BY <2>3, <6>1, <6>2
        <5>3. QED
          BY <2>6, <5>1, <5>2
      <4>4. QED
        BY <1>1, <4>1, <4>2, <4>3
    <3>4. IsFiniteSet(T) /\ Cardinality(T) < History
      <4>1. lo \in Int /\ hi \in Int /\ (h \in lo .. hi <=> Overlap >= 1)
        BY <1>1
      <4>2. IsFiniteSet(lo .. hi) /\ Cardinality(lo .. hi) = IF lo > hi THEN 0 ELSE hi - lo + 1
        BY <4>1, FS_Interval
      <4>3. /\ IsFiniteSet(T)
            /\ Cardinality(T) = IF h \in lo .. hi THEN Cardinality(lo .. hi) - 1
                                                  ELSE Cardinality(lo .. hi)
        BY <4>2, FS_RemoveElement
      <4>4. CASE Overlap >= 1
        BY <1>1, <4>1, <4>2, <4>3, <4>4 DEF WindowFits
      <4>5. CASE ~(Overlap >= 1)
        <5>1. lo > hi /\ h \notin lo .. hi
          BY <1>1, <4>1, <4>5
        <5>2. Cardinality(T) = 0
          BY <4>2, <4>3, <5>1
        <5>3. QED
          BY <1>1, <4>3, <5>2
      <4>6. QED
        BY <4>3, <4>4, <4>5
    <3> HIDE DEF T
    <3> DEFINE f == [i \in 1 .. L |-> e[i]]
    <3>6. f \in [1 .. L -> T]
      BY <3>3
    <3>7. \E i, j \in 1 .. L : i # j /\ f[i] = f[j]
      <4> HIDE DEF f
      <4>1. QED
        BY <2>2, <3>4, <3>2, <3>6, Crowded
    <3>8. PICK i \in 1 .. L, j \in 1 .. L : i # j /\ e[i] = e[j]
      BY <3>7
    <3>9. i < j \/ j < i
      BY <2>2, <3>8
    <3>10. QED
      BY <2>4, <3>8, <3>9
  <2>7. ASSUME NEW h \in Message, In(h, d), ~In(h, e)
        PROVE  h <= mem.cursor - Overlap /\ ~(Due(mem, h) /\ m < h)
    BY <1>1, <2>6, <2>7
  <2>10. \A i \in 1 .. Len(n.done) : n.done[i] = m \/ In(n.done[i], mem.done)
    BY <2>3 DEF L
  <2>11. QED
    BY <2>1, <2>5, <2>7, <2>10 DEF n
<1>4. QED
  BY <1>2, <1>3

-----------------------------------------------------------------------------
(* What a step of a run does to the marks, the counts and the messages it  *)
(* has passed.                                                             *)
Keeps(l, n, c, d, h, hh) ==
    /\ n.stop = l.stop
    /\ ~l.stop /\ (l.pc = "begin" => d.cursor = 0) /\ (\A m \in 1 .. l.mem.cursor : Passed(l, m, h))
          => \A m \in 1 .. n.mem.cursor : Passed(n, m, hh)
    /\ ~l.stop /\ n.pc \in Before /\ c = 0 => l.pc \in Before

Moves(r) ==
    \E n \in Loops :
       /\ loop' = [loop EXCEPT ![r] = n] /\ n.pc # "off"
       /\ Orderly(n)
       /\ \A i \in 1 .. Len(n.mem.done) : n.mem.done[i] \in handled'
       /\ disk' \in {disk, loop[r].mem} /\ (n.pc \in Before /\ cuts' = 0 => disk' = disk)
       /\ handled \subseteq handled' /\ handled' \subseteq Message
       /\ replies' \in Seq(Answers) /\ threads' \in Nat /\ cuts' \in {cuts, cuts + 1}
       /\ \A m \in Message : Count(replies, m) <= Allowed(loop[r], m, cuts)
                                => Count(replies', m) <= Allowed(n, m, cuts')
       /\ Keeps(loop[r], n, cuts', disk, handled, handled')
       /\ UNCHANGED runtime

LEMMA CountType ==
    ASSUME NEW s \in Seq(Answers), NEW m
    PROVE  IsFiniteSet({i \in DOMAIN s : s[i].msg = m}) /\ Count(s, m) \in Nat
<1>1. DOMAIN s = 1 .. Len(s) /\ Len(s) \in Int /\ 1 \in Int
  BY LenProperties
<1>2. IsFiniteSet(1 .. Len(s))
  BY <1>1, FS_Interval
<1>3. {i \in DOMAIN s : s[i].msg = m} \in SUBSET (1 .. Len(s))
  BY <1>1
<1>4. IsFiniteSet({i \in DOMAIN s : s[i].msg = m})
  BY <1>2, <1>3, FS_Subset
<1>5. QED
  BY <1>4, FS_CardinalityType DEF Count

LEMMA CountAppend ==
    ASSUME NEW s \in Seq(Answers), NEW y \in Answers, NEW m
    PROVE  /\ Append(s, y) \in Seq(Answers)
           /\ Count(Append(s, y), m) <= Count(s, m) + 1
           /\ y.msg # m => Count(Append(s, y), m) = Count(s, m)
<1> DEFINE e == Append(s, y)
           n == Len(s)
           S == {i \in DOMAIN s : s[i].msg = m}
           T == {i \in DOMAIN e : e[i].msg = m}
<1>1. /\ e \in Seq(Answers) /\ n \in Nat /\ DOMAIN s = 1 .. n /\ DOMAIN e = 1 .. n + 1
      /\ \A i \in 1 .. n : e[i] = s[i]
      /\ e[n + 1] = y
  BY AppendProperties, LenProperties
<1>2. IsFiniteSet(S) /\ Cardinality(S) \in Nat
  BY CountType DEF Count
<1> HIDE DEF e
<1>3. T = IF y.msg = m THEN S \cup {n + 1} ELSE S
  BY <1>1
<1>4. Cardinality(S \cup {n + 1}) <= Cardinality(S) + 1
  <2> HIDE DEF S, n
  <2>1. Cardinality(S \cup {n + 1}) = IF n + 1 \in S THEN Cardinality(S) ELSE Cardinality(S) + 1
    BY <1>2, FS_AddElement
  <2>2. QED
    BY <1>2, <2>1
<1>5. Cardinality(T) <= Cardinality(S) + 1 /\ (y.msg # m => Cardinality(T) = Cardinality(S))
  <2> HIDE DEF S, T
  <2>1. QED
    BY <1>2, <1>3, <1>4
<1>6. QED
  BY <1>1, <1>5 DEF Count, e

LEMMA RunFacts ==
    ASSUME Kept, Marks, NEW r \in Runs
    PROVE  /\ loop \in [Runs -> Loops] /\ loop[r] \in Loops /\ loop[r].mem \in Mems /\ disk \in Mems
           /\ Orderly(loop[r]) /\ Memory(loop[r].mem) /\ Queue(loop[r]) /\ Memory(disk)
           /\ \A i \in 1 .. Len(loop[r].mem.done) : loop[r].mem.done[i] \in handled
           /\ replies \in Seq(Answers) /\ handled \subseteq Message /\ cuts \in Nat /\ threads \in Nat
           /\ loop[r].mem.cursor \in Nat /\ disk.cursor \in Nat /\ Len(loop[r].batch) \in Nat
           /\ loop[r].batch \in Seq(Message) /\ loop[r].stop \in BOOLEAN
           /\ loop[r].msg \in Message \cup {0}
<1>1. loop[r] \in Loops /\ loop[r].mem \in Mems /\ disk \in Mems
  BY DEF Kept, Loops
<1>2. loop[r].mem.cursor \in Nat /\ disk.cursor \in Nat
  BY <1>1, InboxFacts DEF Mems
<1>3. loop[r].batch \in Seq(Message) /\ loop[r].stop \in BOOLEAN /\ loop[r].msg \in Message \cup {0}
  BY <1>1 DEF Loops
<1>4. QED
  BY <1>1, <1>2, <1>3, LenProperties DEF Kept, Marks, Orderly

(* The steps of a turn: the message is at hand until its reply is sent.    *)
LEMMA TurnMoves ==
    ASSUME Kept, Marks, NEW r \in Runs, NEW n \in Loops,
           loop' = [loop EXCEPT ![r] = n],
           loop[r].pc \in Unanswered, n.pc \in Busy,
           n.stop = loop[r].stop, n.batch = loop[r].batch, n.msg = loop[r].msg,
           n.mem.cursor = loop[r].mem.cursor, n.mem.done = loop[r].mem.done,
           \/ replies' = replies
           \/ n.pc \in {"ok", "error"} /\ \E y \in Answers : /\ y.msg = n.msg
                                                           /\ replies' = Append(replies, y),
           UNCHANGED <<disk, handled, cuts, runtime>>, threads' \in Nat
    PROVE  Moves(r)
<1> DEFINE l == loop[r]
<1> USE RunFacts
<1>1. l \in Loops /\ n.mem \in Mems /\ Orderly(l) /\ l.pc \in Busy
  BY DEF Unanswered, Busy, InTurn, Loops
<1>2. Orderly(n)
  <2>1. Memory(n.mem)
    BY <1>1 DEF Memory, Orderly
  <2>2. Queue(n)
    BY <1>1 DEF Queue, Due, Orderly
  <2>3. QED
    BY <2>1, <2>2 DEF Orderly, Busy, InTurn
<1>3. \A m \in Message : Open(n, m) => Open(l, m)
  BY <1>1 DEF Open, Busy, InTurn, Unanswered
<1>4. \A m \in Message : n.pc \in {"ok", "error"} /\ m = n.msg => ~Open(n, m) /\ Open(l, m)
  BY DEF Open, Unanswered
<1>5. n.pc \notin Past /\ l.pc \notin Past /\ n.pc # "off" /\ n.pc \notin Before /\ l.pc # "begin"
  BY DEF Past, Before, Busy, InTurn, Unanswered
<1>6. replies' \in Seq(Answers)
  BY CountAppend
<1>7. ASSUME NEW m \in Message, Count(replies, m) <= Allowed(l, m, cuts)
      PROVE  Count(replies', m) <= Allowed(n, m, cuts)
  <2> DEFINE b == IF l.stop THEN cuts - 1 ELSE cuts
  <2>1. /\ Allowed(l, m, cuts) = b + (IF Open(l, m) THEN 0 ELSE 1)
        /\ Allowed(n, m, cuts) = b + (IF Open(n, m) THEN 0 ELSE 1)
        /\ b \in Int
    BY <1>5 DEF Allowed
  <2>2. Count(replies, m) \in Nat
    BY CountType
  <2> HIDE DEF b
  <2>3. CASE replies' = replies
    BY <1>3, <1>7, <2>1, <2>2, <2>3
  <2>4. ASSUME n.pc \in {"ok", "error"}, NEW y \in Answers, y.msg = n.msg,
               replies' = Append(replies, y)
        PROVE  Count(replies', m) <= Allowed(n, m, cuts)
    <3>1. /\ Count(replies', m) \in Nat /\ Count(replies', m) <= Count(replies, m) + 1
          /\ y.msg # m => Count(replies', m) = Count(replies, m)
      BY <1>6, <2>4, CountType, CountAppend
    <3>2. CASE m = n.msg
      BY <1>4, <1>7, <2>1, <2>2, <2>4, <3>1, <3>2
    <3>3. CASE m # n.msg
      BY <1>3, <1>7, <2>1, <2>2, <2>4, <3>1, <3>3
    <3>4. QED
      BY <3>2, <3>3
  <2>5. QED
    BY <2>3, <2>4
<1>8. Keeps(l, n, cuts, disk, handled, handled)
  BY <1>5 DEF Keeps, Passed
<1>9. QED
  BY <1>2, <1>5, <1>6, <1>7, <1>8 DEF Moves

LEMMA AllowedKept ==
    ASSUME Kept, Marks, NEW r \in Runs, NEW n \in Loops, NEW c \in {cuts, cuts + 1},
           n.stop = loop[r].stop,
           n.pc \notin Past => /\ loop[r].pc \notin Past
                               /\ \A m \in Message : Open(n, m) => Open(loop[r], m),
           n.pc \in Past => \/ loop[r].pc \in Past \/ loop[r].stop
                            \/ loop[r].pc = "begin" \/ c = cuts + 1
    PROVE  \A m \in Message : Count(replies, m) <= Allowed(loop[r], m, cuts)
                                 => Count(replies, m) <= Allowed(n, m, c)
<1> SUFFICES ASSUME NEW m \in Message, Count(replies, m) <= Allowed(loop[r], m, cuts)
             PROVE  Count(replies, m) <= Allowed(n, m, c)
  OBVIOUS
<1> DEFINE l == loop[r]
<1>1. Count(replies, m) \in Nat /\ cuts \in Nat /\ l.stop \in BOOLEAN
  BY RunFacts, CountType
<1>2. CASE n.pc \in Past
  <2>1. Allowed(n, m, c) = c
    BY <1>2 DEF Allowed
  <2>2. Allowed(l, m, cuts) <= c
    <3>1. CASE l.pc \in Past
      BY <1>1, <3>1 DEF Allowed
    <3>2. CASE l.pc \notin Past /\ l.stop
      BY <1>1, <3>2 DEF Allowed
    <3>3. CASE l.pc = "begin"
      <4>1. Open(l, m) /\ l.pc \notin Past
        BY <3>3 DEF Open, Past
      <4>2. QED
        BY <1>1, <4>1 DEF Allowed
    <3>4. CASE l.pc \notin Past /\ c = cuts + 1
      BY <1>1, <3>4 DEF Allowed
    <3>5. QED
      BY <1>2, <3>1, <3>2, <3>3, <3>4
  <2>3. Allowed(l, m, cuts) \in Int
    BY <1>1 DEF Allowed
  <2>4. QED
    BY <1>1, <2>1, <2>2, <2>3
<1>3. CASE n.pc \notin Past
  <2>1. Open(n, m) => Open(l, m)
    BY <1>3
  <2>2. Allowed(l, m, cuts) \in Int /\ Allowed(n, m, c) \in Int
    BY <1>1 DEF Allowed
  <2>3. Allowed(l, m, cuts) <= Allowed(n, m, c)
    BY <1>1, <1>3, <2>1 DEF Allowed
  <2>4. QED
    BY <1>1, <2>2, <2>3
<1>4. QED
  BY <1>2, <1>3

LEMMA RestMoves ==
    ASSUME Kept, Marks, NEW r \in Runs, NEW n \in Loops,
           loop' = [loop EXCEPT ![r] = n], n.pc # "off", Orderly(n),
           \A i \in 1 .. Len(n.mem.done) : n.mem.done[i] \in handled',
           disk' \in {disk, loop[r].mem}, n.pc \in Before /\ cuts' = 0 => disk' = disk,
           handled \subseteq handled', handled' \subseteq Message,
           UNCHANGED <<replies, runtime, threads>>, cuts' \in {cuts, cuts + 1},
           n.pc \notin Past => /\ loop[r].pc \notin Past
                               /\ \A m \in Message : Open(n, m) => Open(loop[r], m),
           n.pc \in Past => \/ loop[r].pc \in Past \/ loop[r].stop
                            \/ loop[r].pc = "begin" \/ cuts' = cuts + 1,
           Keeps(loop[r], n, cuts', disk, handled, handled')
    PROVE  Moves(r)
<1>1. n.stop = loop[r].stop
  BY DEF Keeps
<1>2. \A m \in Message : Count(replies, m) <= Allowed(loop[r], m, cuts)
                            => Count(replies, m) <= Allowed(n, m, cuts')
  BY <1>1, AllowedKept
<1>3. QED
  BY <1>2, RunFacts DEF Moves

LEMMA BeginMoves == ASSUME Kept, Marks, NEW r \in Runs, Begin(r) PROVE Moves(r)
<1> DEFINE l == loop[r]
<1> USE RunFacts
<1>1. /\ l.pc = "begin" /\ l.mem = NoState /\ l.batch = <<>> /\ l.msg = 0
      /\ UNCHANGED <<disk, handled, replies, runtime, threads, cuts>>
  BY DEF Begin, outside, At, Orderly, Busy, InTurn
<1>2. NoState.cursor = 0 /\ NoState.done = <<>> /\ Len(l.batch) = 0 /\ Memory(NoState)
  BY <1>1 DEF NoState, Orderly
<1>3. \A m \in Message : Open(l, m)
  BY <1>1 DEF Open
<1>4. ASSUME NEW n \in Loops, Put(r, n), n.pc \in {"poll", "failed"}, n.stop = l.stop,
             n.batch = <<>>, n.msg = 0, n.mem \in {disk, NoState},
             n.pc = "failed" => n.mem = NoState
      PROVE  Moves(r)
  <2>1. Orderly(n)
    <3>1. Memory(n.mem) /\ Len(n.batch) = 0
      BY <1>2, <1>4
    <3>2. QED
      BY <1>4, <3>1 DEF Orderly, Queue, Busy, InTurn
  <2>2. \A i \in 1 .. Len(n.mem.done) : n.mem.done[i] \in handled
    BY <1>2, <1>4 DEF Marks
  <2>3. Keeps(l, n, cuts, disk, handled, handled)
    BY <1>1, <1>2, <1>4 DEF Keeps, Before
  <2>4. QED
    BY <1>1, <1>3, <1>4, <2>1, <2>2, <2>3, RestMoves DEF Put, Past
<1>5. CASE Put(r, [l EXCEPT !.pc = "poll", !.mem = disk])
  <2> DEFINE n == [l EXCEPT !.pc = "poll", !.mem = disk]
  <2>1. /\ n \in Loops /\ n.pc = "poll" /\ n.stop = l.stop /\ n.batch = l.batch
        /\ n.msg = l.msg /\ n.mem = disk
    BY DEF Loops, Points
  <2>2. Put(r, n)
    BY <1>5
  <2> HIDE DEF n
  <2>3. QED
    BY <1>1, <1>4, <2>1, <2>2
<1>6. ASSUME NEW pc \in {"poll", "failed"}, Goto(r, pc) PROVE Moves(r)
  <2> DEFINE n == [l EXCEPT !.pc = pc]
  <2>1. /\ n \in Loops /\ n.pc = pc /\ n.stop = l.stop /\ n.batch = l.batch
        /\ n.msg = l.msg /\ n.mem = l.mem
    BY DEF Loops, Points
  <2>2. Put(r, n)
    BY <1>6 DEF Goto
  <2> HIDE DEF n
  <2>3. QED
    BY <1>1, <1>4, <2>1, <2>2
<1>7. QED
  BY <1>5, <1>6 DEF Begin, Goto

LEMMA PollMoves == ASSUME Kept, Marks, NEW r \in Runs, Poll(r) PROVE Moves(r)
<1> DEFINE l == loop[r]
<1>0. /\ l \in Loops /\ l.mem \in Mems /\ l.mem.cursor \in Nat /\ Orderly(l) /\ Memory(l.mem)
      /\ \A i \in 1 .. Len(l.mem.done) : l.mem.done[i] \in handled
      /\ l.stop \in BOOLEAN /\ loop \in [Runs -> Loops] /\ cuts \in Nat /\ handled \subseteq Message
  BY RunFacts
<1>1. /\ l.pc = "poll" /\ l.batch = <<>> /\ l.msg = 0
      /\ UNCHANGED <<disk, handled, replies, runtime, threads, cuts>>
  BY <1>0 DEF Poll, outside, At, Orderly, Busy, InTurn
<1>2. CASE l.stop /\ Goto(r, "close")
  <2> DEFINE n == [l EXCEPT !.pc = "close"]
  <2>1. /\ n \in Loops /\ n.pc = "close" /\ n.stop = l.stop /\ n.batch = l.batch
        /\ n.msg = l.msg /\ n.mem = l.mem
    BY <1>0 DEF Loops, Points
  <2>2. loop' = [loop EXCEPT ![r] = n]
    BY <1>2 DEF Goto, Put
  <2> HIDE DEF n
  <2>3. Orderly(n)
    BY <1>0, <1>1, <1>2, <2>1 DEF Orderly, Queue, Busy, InTurn
  <2>4. Keeps(l, n, cuts, disk, handled, handled)
    BY <1>2, <2>1 DEF Keeps, Before
  <2>5. QED
    BY <1>0, <1>1, <1>2, <2>1, <2>2, <2>3, <2>4, RestMoves DEF Past, Before
<1>3. CASE UNCHANGED loop
  <2>1. loop' = [loop EXCEPT ![r] = l] /\ l \in Loops
    BY <1>0, <1>3
  <2>2. Keeps(l, l, cuts, disk, handled, handled)
    BY DEF Keeps, Passed
  <2>3. QED
    BY <1>0, <1>1, <2>1, <2>2, RestMoves DEF Past, Before
<1>4. ASSUME NEW first \in 1 .. l.mem.cursor + 1, NEW last \in l.mem.cursor .. Len(Inbox),
             ~l.stop, l.mem.cursor - first < Overlap, first <= last,
             Put(r, [l EXCEPT !.pc = "pick", !.mem.cursor = last,
                              !.batch = [k \in 1 .. last - first + 1 |-> first + k - 1]])
      PROVE  Moves(r)
  <2> DEFINE b == [k \in 1 .. last - first + 1 |-> first + k - 1]
             mem == [l.mem EXCEPT !.cursor = last]
             n == [l EXCEPT !.pc = "pick", !.mem = mem, !.batch = b]
  <2>14. l.mem.cursor \in 0 .. Len(Inbox) /\ Len(Inbox) \in Nat
    BY <1>0, InboxFacts DEF Mems
  <2>1. /\ Len(Inbox) \in Nat /\ Overlap \in Nat /\ first \in Nat /\ last \in Nat
        /\ Message = 1 .. Len(Inbox) /\ 1 <= first /\ last \in 0 .. Len(Inbox)
        /\ l.mem.cursor <= last /\ l.mem.cursor \in Nat
    BY <1>0, <1>4, <2>14, InboxFacts, HistoryCoversOverlap
  <2>2. /\ b \in Seq(Message) /\ Len(b) = last - first + 1
        /\ \A k \in 1 .. Len(b) : b[k] = first + k - 1
    <3>1. last - first + 1 \in Nat /\ \A k \in 1 .. last - first + 1 : first + k - 1 \in Message
      <4> SUFFICES ASSUME NEW k \in 1 .. last - first + 1
                   PROVE  last - first + 1 \in Nat /\ first + k - 1 \in 1 .. Len(Inbox)
        BY <1>4, <2>1
      <4>1. QED
        BY <1>4, <2>1
    <3>2. QED
      BY <3>1, IsASeq
  <2>3. mem \in Mems /\ mem.done = l.mem.done /\ mem.cursor = last
    BY <1>0, <2>1 DEF Mems
  <2>4. loop' = [loop EXCEPT ![r] = n]
    BY <1>4 DEF Put
  <2> HIDE DEF b, mem
  <2>5. /\ n \in Loops /\ n.pc = "pick" /\ n.mem = mem /\ n.batch = b /\ n.stop = l.stop
        /\ n.msg = l.msg
    BY <1>0, <2>2, <2>3 DEF Loops, Points
  <2> HIDE DEF n
  <2>6. /\ l.mem.done \in Seq(Message) /\ Len(l.mem.done) \in Nat
        /\ \A i \in 1 .. Len(l.mem.done) : /\ l.mem.done[i] \in Message
                                            /\ l.mem.done[i] <= l.mem.cursor
    BY <1>0, LenProperties, ElementOfSeq DEF Mems, Memory
  <2>7. Memory(mem)
    <3>1. \A i \in 1 .. Len(l.mem.done) : l.mem.done[i] <= last
      BY <2>1, <2>6, InboxFacts
    <3>2. QED
      BY <1>0, <2>3, <3>1 DEF Memory
  <2>8. Queue(n)
    <3>1. ASSUME NEW k \in 1 .. Len(b) PROVE Due(mem, b[k])
      <4>1. b[k] = first + k - 1 /\ b[k] \in Int /\ b[k] >= first /\ b[k] <= last
        BY <2>1, <2>2, <3>1
      <4>2. \A i \in 1 .. Len(l.mem.done) : l.mem.done[i] - b[k] < Overlap
        <5> SUFFICES ASSUME NEW i \in 1 .. Len(l.mem.done)
                     PROVE  l.mem.done[i] - b[k] < Overlap
          OBVIOUS
        <5> DEFINE x == l.mem.done[i]
                   c == l.mem.cursor
        <5>1. x \in Int /\ x <= c /\ c \in Nat /\ c - first < Overlap
          <6>1. x \in Int
            BY <2>1, <2>6
          <6>2. QED
            BY <1>4, <2>1, <2>6, <6>1
        <5> HIDE DEF x, c
        <5>2. x - b[k] < Overlap
          BY <2>1, <4>1, <5>1
        <5>3. QED
          BY <5>2 DEF x
      <4>3. QED
        BY <2>3, <4>1, <4>2 DEF Due
    <3>2. ASSUME NEW j \in 1 .. Len(b), NEW k \in 1 .. Len(b), j < k PROVE b[j] < b[k]
      BY <2>1, <2>2, <3>2
    <3>3. QED
      BY <2>5, <3>1, <3>2 DEF Queue, Busy, InTurn
  <2>9. Orderly(n)
    BY <1>0, <1>1, <2>5, <2>7, <2>8 DEF Orderly, Busy, InTurn
  <2>10. ASSUME NEW m \in Message PROVE In(m, b) <=> first <= m /\ m <= last
    <3>1. CASE first <= m /\ m <= last
      <4>1. m - first + 1 \in 1 .. Len(b)
        BY <2>1, <2>2, <3>1
      <4>2. b[m - first + 1] = m
        BY <2>1, <2>2, <4>1
      <4>3. QED
        BY <3>1, <4>1, <4>2 DEF In
    <3>2. CASE In(m, b)
      BY <2>1, <2>2, <3>2 DEF In
    <3>3. QED
      BY <3>1, <3>2
  <2>11. ASSUME NEW m \in Message, Open(n, m) PROVE Open(l, m)
    <3>1. ~In(m, l.mem.done) /\ (m > last - Overlap \/ In(m, b))
      BY <2>3, <2>5, <2>11 DEF Open, Unanswered
    <3>2. m > l.mem.cursor - Overlap
      <4> DEFINE c == l.mem.cursor
      <4>1. c \in Nat /\ c <= last /\ c - first < Overlap /\ m \in Int
        BY <1>4, <2>1
      <4> HIDE DEF c
      <4>2. m > last - Overlap \/ first <= m
        BY <2>10, <3>1
      <4>3. m > c - Overlap
        BY <2>1, <4>1, <4>2
      <4>4. QED
        BY <4>3 DEF c
    <3>3. QED
      BY <1>1, <1>4, <3>1, <3>2 DEF Open
  <2>12. Keeps(l, n, cuts, disk, handled, handled)
    <3>1. ASSUME NEW m \in 1 .. n.mem.cursor, \A x \in 1 .. l.mem.cursor : Passed(l, x, handled)
          PROVE  Passed(n, m, handled)
      <4>1. m \in Message
        BY <1>4, <2>1, <2>3, <2>5
      <4>2. CASE m <= l.mem.cursor
        <5>1. m \in 1 .. l.mem.cursor
          BY <2>1, <2>3, <2>5, <4>2
        <5>2. Passed(l, m, handled)
          BY <3>1, <5>1
        <5>3. ~In(m, l.batch)
          BY <1>1 DEF In
        <5>4. QED
          BY <2>5, <5>2, <5>3 DEF Passed
      <4>3. CASE m > l.mem.cursor
        BY <1>4, <2>1, <2>3, <2>5, <2>10, <4>1, <4>3 DEF Passed
      <4>4. QED
        BY <2>1, <2>3, <2>5, <4>1, <4>2, <4>3
    <3>2. QED
      BY <2>5, <3>1 DEF Keeps, Before
  <2>13. QED
    BY <1>0, <1>1, <2>3, <2>4, <2>5, <2>9, <2>11, <2>12, RestMoves DEF Past, Before
<1>5. QED
  BY <1>2, <1>3, <1>4 DEF Poll

LEMMA TailFacts ==
    ASSUME NEW l \in Loops, Queue(l), l.batch # <<>>
    PROVE  LET h == Head(l.batch)
               t == Tail(l.batch)
           IN  /\ h \in Message /\ t \in Seq(Message) /\ Due(l.mem, h)
               /\ \A k \in 1 .. Len(t) : Due(l.mem, t[k]) /\ h < t[k]
               /\ \A j, k \in 1 .. Len(t) : j < k => t[j] < t[k]
               /\ \A m : In(m, l.batch) <=> m = h \/ In(m, t)
<1> DEFINE b == l.batch
           h == Head(b)
           t == Tail(b)
<1>1. b \in Seq(Message) /\ b # <<>>
  BY DEF Loops
<1>2. /\ Len(b) \in Nat /\ Len(b) >= 1 /\ Len(t) = Len(b) - 1 /\ h = b[1] /\ t \in Seq(Message)
      /\ h \in Message
      /\ \A k \in 1 .. Len(t) : t[k] = b[k + 1]
  BY <1>1, HeadTailProperties, LenProperties, EmptySeq
<1> HIDE DEF h, t
<1>3. \A k \in 1 .. Len(t) : k + 1 \in 1 .. Len(b) /\ 1 < k + 1
  BY <1>2
<1>4. 1 \in 1 .. Len(b) /\ \A j, k \in 1 .. Len(b) : j < k => b[j] < b[k]
  BY <1>2 DEF Queue
<1>5. \A k \in 1 .. Len(t) : Due(l.mem, t[k]) /\ h < t[k]
  BY <1>2, <1>3, <1>4 DEF Queue
<1>6. ASSUME NEW j \in 1 .. Len(t), NEW k \in 1 .. Len(t), j < k PROVE t[j] < t[k]
  <2>1. j + 1 < k + 1
    BY <1>2, <1>6
  <2>2. QED
    BY <1>2, <1>3, <1>4, <2>1
<1>7. ASSUME NEW m PROVE In(m, b) <=> m = h \/ In(m, t)
  <2>1. ASSUME NEW k \in 1 .. Len(b), b[k] = m PROVE m = h \/ In(m, t)
    <3>1. CASE k = 1
      BY <1>2, <2>1, <3>1
    <3>2. CASE k # 1
      <4>1. k - 1 \in 1 .. Len(t) /\ (k - 1) + 1 = k
        BY <1>2, <3>2
      <4>2. QED
        BY <1>2, <2>1, <4>1 DEF In
    <3>3. QED
      BY <3>1, <3>2
  <2>2. QED
    BY <1>2, <1>3, <1>4, <2>1 DEF In
<1>8. QED
  BY <1>2, <1>4, <1>5, <1>6, <1>7 DEF h, t, Queue

(* Marking the message at hand does not open one that was closed.          *)
LEMMA MarkOrder ==
    ASSUME WindowFits, NEW mem \in Mems, Memory(mem), NEW h \in Message, Due(mem, h),
           NEW b \in Seq(Message), \A k \in 1 .. Len(b) : Due(mem, b[k]) /\ h < b[k]
    PROVE  LET n == Marked(mem, h)
           IN  /\ n \in Mems /\ Memory(n) /\ n.cursor = mem.cursor
               /\ \A k \in 1 .. Len(b) : Due(n, b[k])
               /\ \A i \in 1 .. Len(n.done) : n.done[i] = h \/ In(n.done[i], mem.done)
               /\ \A m \in Message :
                     ~In(m, n.done) /\ (m > n.cursor - Overlap \/ In(m, b))
                        => ~In(m, mem.done) /\ m # h
<1> DEFINE n == Marked(mem, h)
<1>1. /\ n \in Mems /\ Memory(n) /\ n.cursor = mem.cursor /\ In(h, n.done)
      /\ \A i \in 1 .. Len(n.done) : n.done[i] = h \/ In(n.done[i], mem.done)
      /\ \A m \in Message : In(m, mem.done) /\ ~In(m, n.done) =>
            m <= mem.cursor - Overlap /\ ~(Due(mem, m) /\ h < m)
  BY MarkedFacts
<1> HIDE DEF n
<1>2. /\ Overlap \in Nat /\ Message \subseteq Int /\ mem.cursor \in Nat
      /\ \A k \in 1 .. Len(b) : b[k] \in Message
  BY HistoryCoversOverlap, InboxFacts, ElementOfSeq DEF Mems
<1>3. ASSUME NEW k \in 1 .. Len(b) PROVE Due(n, b[k])
  <2>1. Due(mem, b[k]) /\ h < b[k] /\ b[k] \in Int /\ h \in Int
    BY <1>2
  <2>2. ASSUME NEW i \in 1 .. Len(n.done) PROVE n.done[i] - b[k] < Overlap
    <3>1. CASE n.done[i] = h
      BY <1>2, <2>1, <3>1
    <3>2. CASE In(n.done[i], mem.done)
      BY <2>1, <3>2 DEF In, Due
    <3>3. QED
      BY <1>1, <3>1, <3>2
  <2>3. QED
    BY <1>1, <2>1, <2>2 DEF Due
<1>4. ASSUME NEW m \in Message, ~In(m, n.done), m > n.cursor - Overlap \/ In(m, b)
      PROVE  ~In(m, mem.done) /\ m # h
  <2>1. m # h
    BY <1>1, <1>4
  <2>2. CASE m > n.cursor - Overlap
    BY <1>1, <1>2, <1>4, <2>1, <2>2
  <2>3. CASE In(m, b)
    <3>1. Due(mem, m) /\ h < m
      BY <2>3 DEF In
    <3>2. QED
      BY <1>1, <1>4, <2>1, <3>1
  <2>4. QED
    BY <1>4, <2>2, <2>3
<1>5. QED
  BY <1>1, <1>3, <1>4 DEF n

LEMMA PickMoves == ASSUME WindowFits, Kept, Marks, NEW r \in Runs, Pick(r) PROVE Moves(r)
<1> DEFINE l == loop[r]
           h == Head(l.batch)
           t == Tail(l.batch)
<1>0. /\ l \in Loops /\ l.mem \in Mems /\ Orderly(l) /\ Memory(l.mem) /\ Queue(l)
      /\ \A i \in 1 .. Len(l.mem.done) : l.mem.done[i] \in handled
      /\ l.batch \in Seq(Message) /\ l.mem.done \in Seq(Message)
      /\ l.stop \in BOOLEAN /\ loop \in [Runs -> Loops] /\ cuts \in Nat /\ handled \subseteq Message
  BY RunFacts DEF Mems
<1>1. /\ l.pc = "pick" /\ l.msg = 0
      /\ UNCHANGED <<disk, replies, runtime, threads, cuts>>
  BY <1>0 DEF Pick, outside, At, Orderly, Busy, InTurn
<1>2. <<>> \in Seq(Message) /\ Len(<<>>) = 0
  BY EmptySeq
<1>3. ASSUME NEW n \in Loops, Put(r, n), n.pc \in {"pick", "saveAll", "server"}, n.stop = l.stop,
             Orderly(n), \A i \in 1 .. Len(n.mem.done) : n.mem.done[i] \in handled',
             handled \subseteq handled', handled' \subseteq Message,
             \A m \in Message : Open(n, m) => Open(l, m),
             n.mem.cursor = l.mem.cursor,
             ~l.stop => \A m \in 1 .. l.mem.cursor : Passed(l, m, handled) => Passed(n, m, handled')
      PROVE  Moves(r)
  <2>1. Keeps(l, n, cuts, disk, handled, handled')
    BY <1>1, <1>3 DEF Keeps, Before
  <2>2. QED
    BY <1>0, <1>1, <1>3, <2>1, RestMoves DEF Put, Past, Before
<1>4. CASE /\ l.stop \/ l.batch = <<>>
           /\ Put(r, [l EXCEPT !.pc = "saveAll", !.batch = <<>>]) /\ UNCHANGED handled
  <2> DEFINE n == [l EXCEPT !.pc = "saveAll", !.batch = <<>>]
  <2>1. /\ n \in Loops /\ n.pc = "saveAll" /\ n.stop = l.stop /\ n.batch = <<>>
        /\ n.msg = l.msg /\ n.mem = l.mem
    BY <1>0, <1>2 DEF Loops, Points
  <2>2. Put(r, n)
    BY <1>4
  <2> HIDE DEF n
  <2>3. Orderly(n) /\ \A m : ~In(m, n.batch)
    BY <1>0, <1>1, <1>2, <2>1 DEF Orderly, Queue, Busy, InTurn, In
  <2>4. \A m \in Message : Open(n, m) => Open(l, m)
    BY <1>1, <2>1, <2>3 DEF Open, Unanswered
  <2>5. ~l.stop => \A m \in 1 .. l.mem.cursor : Passed(l, m, handled) => Passed(n, m, handled)
    BY <1>4, <2>1 DEF Passed
  <2>6. QED
    BY <1>0, <1>3, <1>4, <2>1, <2>2, <2>3, <2>4, <2>5
<1>5. ASSUME ~l.stop, l.batch # <<>>
      PROVE  /\ h \in Message /\ t \in Seq(Message) /\ Due(l.mem, h)
             /\ \A k \in 1 .. Len(t) : Due(l.mem, t[k]) /\ h < t[k]
             /\ \A j, k \in 1 .. Len(t) : j < k => t[j] < t[k]
             /\ \A m : In(m, l.batch) <=> m = h \/ In(m, t)
  BY <1>0, <1>5, TailFacts
<1>6. CASE /\ ~l.stop /\ l.batch # <<>> /\ (Inbox[h].kind = "skip" \/ h \in Range(l.mem.done))
           /\ Put(r, [l EXCEPT !.batch = Tail(@)]) /\ UNCHANGED handled
  <2> DEFINE n == [l EXCEPT !.batch = t]
  <2> HIDE DEF t, h
  <2>1. /\ n \in Loops /\ n.pc = "pick" /\ n.stop = l.stop /\ n.batch = t
        /\ n.msg = l.msg /\ n.mem = l.mem
    BY <1>0, <1>1, <1>5, <1>6 DEF Loops
  <2>2. Put(r, n)
    BY <1>6 DEF t
  <2> HIDE DEF n
  <2>3. Orderly(n)
    BY <1>0, <1>1, <1>5, <1>6, <2>1 DEF Orderly, Queue, Busy, InTurn
  <2>4. \A m \in Message : Open(n, m) => Open(l, m)
    BY <1>1, <1>5, <1>6, <2>1 DEF Open, Unanswered
  <2>5. Inbox[h].kind = "skip" \/ h \in handled
    BY <1>0, <1>6, RangeIn DEF In
  <2>6. \A m \in 1 .. l.mem.cursor : Passed(l, m, handled) => Passed(n, m, handled)
    BY <1>5, <1>6, <2>1, <2>5 DEF Passed
  <2>7. QED
    BY <1>0, <1>3, <1>6, <2>1, <2>2, <2>3, <2>4, <2>6
<1>7. CASE /\ ~l.stop /\ l.batch # <<>> /\ handled' = handled \cup {h}
           /\ Put(r, [l EXCEPT !.batch = Tail(@), !.mem = Marked(@, h)])
  <2> DEFINE mem == Marked(l.mem, h)
             n == [l EXCEPT !.batch = t, !.mem = mem]
  <2> HIDE DEF t, h
  <2>1. /\ mem \in Mems /\ Memory(mem) /\ mem.cursor = l.mem.cursor
        /\ \A k \in 1 .. Len(t) : Due(mem, t[k])
        /\ \A i \in 1 .. Len(mem.done) : mem.done[i] = h \/ In(mem.done[i], l.mem.done)
        /\ \A m \in Message : ~In(m, mem.done) /\ (m > mem.cursor - Overlap \/ In(m, t))
                                 => ~In(m, l.mem.done) /\ m # h
    BY <1>0, <1>5, <1>7, MarkOrder
  <2> HIDE DEF mem
  <2>2. /\ n \in Loops /\ n.pc = "pick" /\ n.stop = l.stop /\ n.batch = t
        /\ n.msg = l.msg /\ n.mem = mem
    BY <1>0, <1>1, <1>5, <1>7, <2>1 DEF Loops
  <2>3. Put(r, n)
    BY <1>7 DEF t, mem
  <2> HIDE DEF n
  <2>4. Orderly(n)
    BY <1>0, <1>1, <1>5, <1>7, <2>1, <2>2 DEF Orderly, Queue, Busy, InTurn
  <2>5. \A m \in Message : Open(n, m) => Open(l, m)
    BY <1>1, <1>5, <1>7, <2>1, <2>2 DEF Open, Unanswered
  <2>6. \A i \in 1 .. Len(n.mem.done) : n.mem.done[i] \in handled'
    BY <1>0, <1>7, <2>1, <2>2 DEF In
  <2>7. \A m \in 1 .. l.mem.cursor : Passed(l, m, handled) => Passed(n, m, handled')
    BY <1>5, <1>7, <2>2 DEF Passed
  <2>8. handled' \subseteq Message
    BY <1>0, <1>5, <1>7
  <2>9. QED
    BY <1>3, <1>7, <2>1, <2>2, <2>3, <2>4, <2>5, <2>6, <2>7, <2>8
<1>8. CASE /\ ~l.stop /\ l.batch # <<>> /\ UNCHANGED handled /\ h \notin Range(l.mem.done)
           /\ Put(r, [l EXCEPT !.batch = Tail(@), !.msg = h, !.pc = "server"])
  <2> DEFINE n == [l EXCEPT !.batch = t, !.msg = h, !.pc = "server"]
  <2> HIDE DEF t, h
  <2>1. /\ n \in Loops /\ n.pc = "server" /\ n.stop = l.stop /\ n.batch = t
        /\ n.msg = h /\ n.mem = l.mem
    BY <1>0, <1>1, <1>5, <1>8 DEF Loops, Points
  <2>2. Put(r, n)
    BY <1>8 DEF t
  <2> HIDE DEF n
  <2>3. Orderly(n)
    BY <1>0, <1>1, <1>5, <1>8, <2>1 DEF Orderly, Queue, Busy, InTurn
  <2>4. ~In(h, l.mem.done)
    BY <1>0, <1>8, RangeIn
  <2>5. \A m \in Message : Open(n, m) => Open(l, m)
    BY <1>1, <1>5, <1>8, <2>1, <2>4 DEF Open, Unanswered
  <2>6. \A m \in 1 .. l.mem.cursor : Passed(l, m, handled) => Passed(n, m, handled)
    <3>1. \A m \in 1 .. l.mem.cursor : l.msg # m
      BY <1>1
    <3>2. QED
      BY <1>5, <1>8, <2>1, <3>1 DEF Passed
  <2>7. QED
    BY <1>0, <1>3, <1>8, <2>1, <2>2, <2>3, <2>5, <2>6
<1>9. QED
  <2>1. CASE l.stop \/ l.batch = <<>>
    BY <1>4, <2>1 DEF Pick
  <2>2. CASE ~(l.stop \/ l.batch = <<>>)
    BY <1>6, <1>7, <1>8, <2>2 DEF Pick
  <2>3. QED
    BY <2>1, <2>2

LEMMA ServerMoves == ASSUME Kept, Marks, NEW r \in Runs, EnsureServer(r) PROVE Moves(r)
<1> DEFINE l == loop[r]
<1>0. l \in Loops /\ l.pc = "server" /\ UNCHANGED <<disk, threads, replies, handled, cuts, runtime>>
  BY RunFacts DEF EnsureServer, At, outside
<1>1. ASSUME NEW n \in Loops, Put(r, n), n.pc \in {"thread", "error"}, n.stop = l.stop,
             n.batch = l.batch, n.msg = l.msg, n.mem = l.mem
      PROVE  Moves(r)
  BY <1>0, <1>1, RunFacts, TurnMoves DEF Put, Unanswered, Busy
<1>2. ASSUME NEW pc \in {"thread", "error"}, Put(r, [l EXCEPT !.pc = pc]) PROVE Moves(r)
  <2> DEFINE n == [l EXCEPT !.pc = pc]
  <2>1. /\ n \in Loops /\ n.pc = pc /\ n.stop = l.stop /\ n.batch = l.batch
        /\ n.msg = l.msg /\ n.mem = l.mem
    BY <1>0 DEF Loops, Points
  <2>2. Put(r, n)
    BY <1>2
  <2> HIDE DEF n
  <2>3. QED
    BY <1>1, <2>1, <2>2
<1>3. CASE Put(r, [l EXCEPT !.pc = "thread", !.up = TRUE, !.pipe = <<>>])
  <2> DEFINE n == [l EXCEPT !.pc = "thread", !.up = TRUE, !.pipe = <<>>]
  <2>1. <<>> \in Seq(Events)
    BY EmptySeq
  <2>2. /\ n \in Loops /\ n.pc = "thread" /\ n.stop = l.stop /\ n.batch = l.batch
        /\ n.msg = l.msg /\ n.mem = l.mem
    BY <1>0, <2>1 DEF Loops, Points
  <2>3. Put(r, n)
    BY <1>3
  <2> HIDE DEF n
  <2>4. QED
    BY <1>1, <2>2, <2>3
<1>4. QED
  BY <1>2, <1>3 DEF EnsureServer, Goto

LEMMA ThreadMoves == ASSUME Kept, Marks, NEW r \in Runs, Prepare(r) PROVE Moves(r)
<1> DEFINE l == loop[r]
           p == Peer(r)
<1>0. /\ l \in Loops /\ l.mem \in Mems /\ l.pc = "thread" /\ l.msg \in Message /\ p \in Peers
      /\ threads \in Nat /\ UNCHANGED <<disk, replies, handled, cuts, runtime>>
  <2>1. l \in Loops /\ l.mem \in Mems /\ l.pc = "thread" /\ Orderly(l) /\ threads \in Nat
    BY RunFacts DEF Prepare, At
  <2>2. l.msg \in Message
    BY <2>1 DEF Orderly, Queue, Busy
  <2>3. QED
    BY <2>1, <2>2, InboxFacts DEF Prepare, outside, Peer
<1>1. ASSUME NEW t \in Nat, NEW pc \in {"turn", "error"}, NEW pipe \in Seq(Events),
             NEW turn \in Turns, threads' \in Nat,
             Put(r, [l EXCEPT !.pc = pc, !.mem.thread[p] = t, !.pipe = pipe, !.turn = turn])
      PROVE  Moves(r)
  <2> DEFINE mem == [l.mem EXCEPT !.thread[p] = t]
             n == [l EXCEPT !.pc = pc, !.mem = mem, !.pipe = pipe, !.turn = turn]
  <2>1. mem \in Mems /\ mem.cursor = l.mem.cursor /\ mem.done = l.mem.done
    BY <1>0 DEF Mems
  <2>2. Put(r, n)
    BY <1>1
  <2> HIDE DEF mem
  <2>3. /\ n \in Loops /\ n.pc = pc /\ n.stop = l.stop /\ n.batch = l.batch
        /\ n.msg = l.msg /\ n.mem = mem
    BY <1>0, <1>1, <2>1 DEF Loops, Points
  <2> HIDE DEF n
  <2>4. QED
    BY <1>0, <1>1, <2>1, <2>2, <2>3, TurnMoves DEF Put, Unanswered, Busy, InTurn
<1>2. l.pipe \in Seq(Events) /\ l.turn \in Turns /\ <<>> \in Seq(Events) /\ NoTurn \in Turns
  BY <1>0, NoTurnType, EmptySeq DEF Loops
<1>3. CASE Put(r, [l EXCEPT !.pc = "error", !.mem.thread[p] = 0]) /\ UNCHANGED threads
  <2> DEFINE mem == [l.mem EXCEPT !.thread[p] = 0]
             n == [l EXCEPT !.pc = "error", !.mem = mem]
  <2>1. mem \in Mems /\ mem.cursor = l.mem.cursor /\ mem.done = l.mem.done
    BY <1>0 DEF Mems
  <2>2. Put(r, n)
    BY <1>3
  <2> HIDE DEF mem
  <2>3. /\ n \in Loops /\ n.pc = "error" /\ n.stop = l.stop /\ n.batch = l.batch
        /\ n.msg = l.msg /\ n.mem = mem
    BY <1>0, <2>1 DEF Loops, Points
  <2> HIDE DEF n
  <2>4. QED
    BY <1>0, <1>3, <2>1, <2>2, <2>3, TurnMoves DEF Put, Unanswered, Busy, InTurn
<1>4. ASSUME NEW t \in Nat, threads' \in Nat,
             \E left \in {<<>>} \cup (IF LateEnd THEN {l.pipe} ELSE {}) :
                Put(r, [l EXCEPT !.pc = "turn", !.mem.thread[p] = t, !.pipe = left, !.turn = NoTurn])
      PROVE  Moves(r)
  <2>1. PICK left \in {<<>>} \cup (IF LateEnd THEN {l.pipe} ELSE {}) :
           Put(r, [l EXCEPT !.pc = "turn", !.mem.thread[p] = t, !.pipe = left, !.turn = NoTurn])
    BY <1>4
  <2>2. left \in Seq(Events)
    BY <1>2, <2>1
  <2>3. QED
    BY <1>1, <1>2, <1>4, <2>1, <2>2
<1>5. l.mem.thread[p] \in Nat /\ threads + 1 \in Nat
  BY <1>0 DEF Mems
<1>6. QED
  BY <1>0, <1>3, <1>4, <1>5 DEF Prepare

LEMMA ScriptType == ASSUME NEW m \in Message, NEW s \in Scripts(m) PROVE s \in Seq(Events)
  BY ScriptReads

LEMMA TurnStepMoves ==
    ASSUME Kept, Marks, NEW r \in Runs, StartTurn(r) \/ Read(r) \/ Send(r)
    PROVE  Moves(r)
<1> DEFINE l == loop[r]
<1>0. /\ l \in Loops /\ l.mem \in Mems /\ l.pc \in InTurn /\ threads \in Nat /\ l.msg \in Message
      /\ l.turn \in Turns /\ l.pipe \in Seq(Events) /\ replies \in Seq(Answers)
      /\ UNCHANGED <<disk, threads, handled, cuts, runtime>>
  <2>1. l \in Loops /\ l.mem \in Mems /\ l.pc \in InTurn /\ Orderly(l) /\ threads \in Nat
    BY RunFacts DEF StartTurn, Read, Send, At, InTurn
  <2>2. l.msg \in Message /\ l.turn \in Turns /\ l.pipe \in Seq(Events) /\ replies \in Seq(Answers)
    BY <2>1, RunFacts DEF Orderly, Queue, Busy, Loops
  <2>3. QED
    BY <2>1, <2>2 DEF StartTurn, Read, Send, outside
<1>1. ASSUME NEW n \in Loops, Put(r, n), n.pc \in Busy, n.stop = l.stop,
             n.batch = l.batch, n.msg = l.msg, n.mem = l.mem,
             \/ replies' = replies
             \/ n.pc \in {"ok", "error"} /\ \E y \in Answers : /\ y.msg = n.msg
                                                             /\ replies' = Append(replies, y)
      PROVE  Moves(r)
  BY <1>0, <1>1, TurnMoves DEF Put, Unanswered, InTurn
<1>2. ASSUME NEW pc \in {"ok", "error"}, Goto(r, pc),
             \/ replies' = replies
             \/ \E y \in Answers : y.msg = l.msg /\ replies' = Append(replies, y)
      PROVE  Moves(r)
  <2> DEFINE n == [l EXCEPT !.pc = pc]
  <2>1. /\ n \in Loops /\ n.pc = pc /\ n.stop = l.stop /\ n.batch = l.batch
        /\ n.msg = l.msg /\ n.mem = l.mem
    BY <1>0 DEF Loops, Points
  <2>2. Put(r, n)
    BY <1>2 DEF Goto
  <2> HIDE DEF n
  <2>3. QED
    BY <1>1, <1>2, <2>1, <2>2 DEF Busy
<1>3. CASE StartTurn(r)
  <2>1. PICK s \in Scripts(l.msg) :
           Put(r, [l EXCEPT !.pc = "read", !.pipe = @ \o s]) /\ replies' = replies
    BY <1>3 DEF StartTurn
  <2> DEFINE q == l.pipe \o s
             n == [l EXCEPT !.pc = "read", !.pipe = q]
  <2>2. q \in Seq(Events)
    BY <1>0, <2>1, ScriptType, ConcatProperties
  <2>3. Put(r, n)
    BY <2>1
  <2> HIDE DEF q
  <2>4. /\ n \in Loops /\ n.pc = "read" /\ n.stop = l.stop /\ n.batch = l.batch
        /\ n.msg = l.msg /\ n.mem = l.mem
    BY <1>0, <2>2 DEF Loops, Points
  <2> HIDE DEF n
  <2>5. QED
    BY <1>1, <2>1, <2>3, <2>4 DEF Busy, InTurn
<1>4. CASE Read(r)
  <2>1. CASE Goto(r, "error")
    BY <1>2, <1>4, <2>1 DEF Read
  <2>2. CASE /\ l.pipe # <<>>
             /\ LET turn == Taken(l.turn, Head(l.pipe))
                IN  Put(r, [l EXCEPT !.turn = turn, !.pipe = Tail(@),
                               !.pc = IF turn.accepted /\ turn.ended THEN "send" ELSE "read"])
    <3> DEFINE e == Head(l.pipe)
               q == Tail(l.pipe)
               turn == Taken(l.turn, e)
               pc == IF turn.accepted /\ turn.ended THEN "send" ELSE "read"
               n == [l EXCEPT !.turn = turn, !.pipe = q, !.pc = pc]
    <3>1. e \in Events /\ q \in Seq(Events)
      BY <1>0, <2>2, HeadTailProperties
    <3>2. turn \in Turns
      <4> HIDE DEF e
      <4>1. l.turn.parts \in Seq(Message) /\ e.msg \in Message
        BY <1>0, <3>1 DEF Turns, Events
      <4> DEFINE a == Append(l.turn.parts, e.msg)
      <4>2. a \in Seq(Message)
        BY <4>1, AppendProperties
      <4>3. turn \in {[l.turn EXCEPT !.accepted = TRUE], [l.turn EXCEPT !.parts = a],
                      [l.turn EXCEPT !.ended = TRUE]}
        BY DEF Taken
      <4> HIDE DEF a
      <4>4. QED
        BY <1>0, <4>2, <4>3 DEF Turns
    <3>3. pc \in {"send", "read"}
      OBVIOUS
    <3>4. Put(r, n)
      BY <2>2
    <3> HIDE DEF turn, pc, q
    <3>5. /\ n \in Loops /\ n.pc = pc /\ n.stop = l.stop /\ n.batch = l.batch
          /\ n.msg = l.msg /\ n.mem = l.mem
      BY <1>0, <3>1, <3>2, <3>3 DEF Loops, Points
    <3> HIDE DEF n
    <3>6. QED
      BY <1>1, <1>4, <3>3, <3>4, <3>5 DEF Busy, InTurn, Read
  <2>3. QED
    BY <1>4, <2>1, <2>2 DEF Read
<1>5. CASE Send(r)
  <2> DEFINE y == [to |-> Peer(r), msg |-> l.msg, parts |-> l.turn.parts,
                   thread |-> l.mem.thread[Peer(r)]]
  <2>1. y \in Answers /\ y.msg = l.msg
    <3>1. Peer(r) \in Peers /\ l.turn.parts \in Seq(Message)
      BY <1>0, InboxFacts DEF Peer, Turns
    <3>2. l.mem.thread[Peer(r)] \in Nat
      BY <1>0, <3>1 DEF Mems
    <3>3. QED
      BY <1>0, <3>1, <3>2 DEF Answers
  <2>2. \E pc \in {"ok", "error"} :
           Goto(r, pc) /\ (replies' = replies \/ replies' = Append(replies, y))
    BY <1>5 DEF Send
  <2> HIDE DEF y
  <2>3. QED
    BY <1>2, <2>1, <2>2
<1>6. QED
  BY <1>3, <1>4, <1>5

LEMMA ConcludeMoves == ASSUME WindowFits, Kept, Marks, NEW r \in Runs, Conclude(r) PROVE Moves(r)
<1> DEFINE l == loop[r]
<1>0. /\ l \in Loops /\ l.mem \in Mems /\ Orderly(l) /\ Memory(l.mem) /\ Queue(l)
      /\ l.pc \in {"ok", "error"} /\ l.batch \in Seq(Message)
      /\ \A i \in 1 .. Len(l.mem.done) : l.mem.done[i] \in handled
      /\ l.stop \in BOOLEAN /\ loop \in [Runs -> Loops] /\ cuts \in Nat /\ handled \subseteq Message
      /\ UNCHANGED <<disk, threads, replies, cuts, runtime>>
  BY RunFacts DEF Conclude, At, outside
<1>1. /\ l.msg \in Message /\ Due(l.mem, l.msg)
      /\ \A k \in 1 .. Len(l.batch) : Due(l.mem, l.batch[k]) /\ l.msg < l.batch[k]
  BY <1>0 DEF Queue, Busy
<1>2. CASE /\ l.stop /\ UNCHANGED handled
           /\ Put(r, [l EXCEPT !.pc = "saveAll", !.msg = 0, !.up = FALSE, !.batch = <<>>])
  <2> DEFINE n == [l EXCEPT !.pc = "saveAll", !.msg = 0, !.up = FALSE, !.batch = <<>>]
  <2>1. <<>> \in Seq(Message) /\ Len(<<>>) = 0
    BY EmptySeq
  <2>2. /\ n \in Loops /\ n.pc = "saveAll" /\ n.stop = l.stop /\ n.batch = <<>>
        /\ n.msg = 0 /\ n.mem = l.mem
    BY <1>0, <2>1 DEF Loops, Points
  <2>3. Put(r, n)
    BY <1>2
  <2> HIDE DEF n
  <2>4. Orderly(n)
    BY <1>0, <2>1, <2>2 DEF Orderly, Queue, Busy, InTurn
  <2>5. \A m \in Message : ~Open(n, m)
    BY <1>2, <2>2 DEF Open, Unanswered
  <2>6. Keeps(l, n, cuts, disk, handled, handled)
    BY <1>2, <2>2 DEF Keeps, Before
  <2>7. QED
    BY <1>0, <1>2, <2>2, <2>3, <2>4, <2>5, <2>6, RestMoves DEF Put, Past, Before
<1>3. CASE /\ ~l.stop /\ handled' = handled \cup {l.msg}
           /\ Put(r, [l EXCEPT !.pc = "saveOne", !.msg = 0, !.up = @ /\ At(r, "ok"),
                               !.mem = Marked(@, l.msg)])
  <2> DEFINE mem == Marked(l.mem, l.msg)
             u == l.up /\ At(r, "ok")
             n == [l EXCEPT !.pc = "saveOne", !.msg = 0, !.up = u, !.mem = mem]
  <2>1. /\ mem \in Mems /\ Memory(mem) /\ mem.cursor = l.mem.cursor
        /\ \A k \in 1 .. Len(l.batch) : Due(mem, l.batch[k])
        /\ \A i \in 1 .. Len(mem.done) : mem.done[i] = l.msg \/ In(mem.done[i], l.mem.done)
        /\ \A m \in Message : ~In(m, mem.done) /\ (m > mem.cursor - Overlap \/ In(m, l.batch))
                                 => ~In(m, l.mem.done) /\ m # l.msg
    BY <1>0, <1>1, MarkOrder
  <2>2. u \in BOOLEAN
    OBVIOUS
  <2> HIDE DEF mem, u
  <2>3. /\ n \in Loops /\ n.pc = "saveOne" /\ n.stop = l.stop /\ n.batch = l.batch
        /\ n.msg = 0 /\ n.mem = mem
    BY <1>0, <2>1, <2>2 DEF Loops, Points
  <2>4. Put(r, n)
    BY <1>3 DEF mem, u
  <2> HIDE DEF n
  <2>5. Orderly(n)
    BY <1>0, <2>1, <2>3 DEF Orderly, Queue, Busy, InTurn
  <2>6. \A m \in Message : Open(n, m) => Open(l, m)
    BY <1>3, <2>1, <2>3 DEF Open, Unanswered
  <2>7. \A i \in 1 .. Len(n.mem.done) : n.mem.done[i] \in handled'
    BY <1>0, <1>3, <2>1, <2>3 DEF In
  <2>8. Keeps(l, n, cuts, disk, handled, handled')
    <3>1. \A m \in 1 .. n.mem.cursor : Passed(l, m, handled) => Passed(n, m, handled')
      BY <1>3, <2>3 DEF Passed
    <3>2. QED
      BY <2>1, <2>3, <3>1 DEF Keeps, Before
  <2>9. handled' \subseteq Message
    BY <1>0, <1>1, <1>3
  <2>10. QED
    BY <1>0, <1>3, <2>3, <2>4, <2>5, <2>6, <2>7, <2>8, <2>9, RestMoves DEF Put, Past, Before
<1>4. QED
  BY <1>2, <1>3 DEF Conclude

LEMMA EndMoves == ASSUME Kept, Marks, NEW r \in Runs, Save(r) \/ Close(r) PROVE Moves(r)
<1> DEFINE l == loop[r]
<1>0. /\ l \in Loops /\ l.mem \in Mems /\ Orderly(l) /\ Memory(l.mem) /\ Queue(l)
      /\ \A i \in 1 .. Len(l.mem.done) : l.mem.done[i] \in handled
      /\ l.stop \in BOOLEAN /\ loop \in [Runs -> Loops] /\ cuts \in Nat /\ handled \subseteq Message
      /\ UNCHANGED <<threads, replies, handled, runtime>>
  BY RunFacts DEF Save, Close, outside
<1>1. ASSUME NEW n \in Loops, Put(r, n), n.stop = l.stop, n.batch = l.batch, n.msg = l.msg,
             n.mem = l.mem, l.msg = 0, n.pc \in {"pick", "poll", "failed", "over"},
             n.pc = "poll" => l.batch = <<>>, disk' \in {disk, l.mem}, cuts' \in {cuts, cuts + 1},
             n.pc \in Past => disk' = disk /\ (l.pc \in Past \/ cuts' = cuts + 1),
             n.pc \notin Past => l.pc \in {"saveOne", "saveAll"}
      PROVE  Moves(r)
  <2>1. Orderly(n)
    BY <1>0, <1>1 DEF Orderly, Queue, Busy, InTurn
  <2>2. \A m \in Message : n.pc \notin Past => (Open(n, m) => Open(l, m))
    BY <1>1 DEF Open, Unanswered, Past
  <2>3. Keeps(l, n, cuts', disk, handled, handled)
    <3>1. \A m \in 1 .. n.mem.cursor : Passed(l, m, handled) => Passed(n, m, handled)
      BY <1>1 DEF Passed
    <3>2. ~l.stop /\ n.pc \in Before /\ cuts' = 0 => l.pc \in Before
      BY <1>0, <1>1 DEF Before, Past, Orderly
    <3>3. QED
      BY <1>1, <3>1, <3>2 DEF Keeps
  <2>4. QED
    BY <1>0, <1>1, <2>1, <2>2, <2>3, RestMoves DEF Put, Past, Before
<1>2. CASE Save(r)
  <2> DEFINE pc == IF At(r, "saveOne") THEN "pick" ELSE "poll"
  <2>1. /\ l.pc \in {"saveOne", "saveAll"} /\ l.msg = 0 /\ pc \in {"pick", "poll"}
        /\ pc = "poll" => l.batch = <<>>
    BY <1>0, <1>2 DEF Save, At, Orderly, Busy, InTurn
  <2>2. ASSUME NEW x \in {pc, "failed"}, Goto(r, x), cuts' \in {cuts, cuts + 1},
               disk' \in {disk, l.mem}, x = "failed" => disk' = disk /\ cuts' = cuts + 1
        PROVE  Moves(r)
    <3> DEFINE n == [l EXCEPT !.pc = x]
    <3>1. x \in {"pick", "poll", "failed"}
      BY <2>1, <2>2
    <3> HIDE DEF pc
    <3>2. /\ n \in Loops /\ n.pc = x /\ n.stop = l.stop /\ n.batch = l.batch
          /\ n.msg = l.msg /\ n.mem = l.mem
      BY <1>0, <3>1 DEF Loops, Points
    <3>3. Put(r, n)
      BY <2>2 DEF Goto
    <3> HIDE DEF n
    <3>4. QED
      BY <1>1, <2>1, <2>2, <3>1, <3>2, <3>3 DEF Past
  <2>3. QED
    BY <1>2, <2>2 DEF Save
<1>3. CASE Close(r)
  <2> DEFINE n == [l EXCEPT !.pc = "over", !.up = FALSE]
  <2>1. /\ n \in Loops /\ n.pc = "over" /\ n.stop = l.stop /\ n.batch = l.batch
        /\ n.msg = l.msg /\ n.mem = l.mem
    BY <1>0 DEF Loops, Points
  <2>2. Put(r, n) /\ l.pc \in Past /\ l.msg = 0 /\ UNCHANGED <<disk, cuts>>
    BY <1>0, <1>3 DEF Close, At, Past, Orderly, Busy, InTurn
  <2> HIDE DEF n
  <2>3. QED
    BY <1>1, <2>1, <2>2 DEF Past
<1>4. QED
  BY <1>2, <1>3

-----------------------------------------------------------------------------
(* All parts together are inductive.                                       *)
Shown == /\ command \in {"none", "stopping", "stopped"} /\ enabled \in BOOLEAN
         /\ status \in {"stopped", "starting", "running", "retrying", "error", "stopping"}
Handling == Kept /\ Marks /\ Counts /\ Skips

LEMMA OffFacts ==
    /\ Off \in Loops /\ Orderly(Off) /\ ~Off.stop /\ Off.mem.cursor = 0 /\ Len(Off.mem.done) = 0
    /\ Off.pc = "off"
<1>1. Off \in Loops /\ Off.mem = NoState /\ ~Off.stop /\ Off.pc = "off"
  BY OffGood DEF GoodLoops
<1>2. NoState.cursor = 0 /\ NoState.done = <<>> /\ Off.batch = <<>> /\ Off.msg = 0
  BY DEF NoState, Off
<1>3. Len(<<>>) = 0
  BY EmptySeq
<1>4. Memory(NoState)
  BY <1>2, <1>3, HistoryCoversOverlap DEF Memory
<1>5. QED
  BY <1>1, <1>2, <1>3, <1>4 DEF Orderly, Queue, Busy, InTurn

LEMMA BegunFacts ==
    LET n == [Off EXCEPT !.pc = "begin"]
    IN  /\ n \in Loops /\ Orderly(n) /\ ~n.stop /\ n.mem.cursor = 0 /\ Len(n.mem.done) = 0
        /\ n.pc = "begin" /\ n # Off
<1> DEFINE n == [Off EXCEPT !.pc = "begin"]
<1>1. /\ n \in Loops /\ n.pc = "begin" /\ n.mem = NoState /\ n.stop = Off.stop /\ n.batch = <<>>
      /\ n.msg = 0 /\ n.mem = Off.mem
  <2>1. Off.mem = NoState /\ Off.batch = <<>> /\ Off.msg = 0
    BY DEF Off
  <2>2. QED
    BY <2>1, OffFacts DEF Loops, Points
<1> HIDE DEF n
<1>2. Memory(NoState) /\ Len(<<>>) = 0
  BY <1>1, OffFacts, EmptySeq DEF Orderly
<1>3. Orderly(n)
  BY <1>1, <1>2 DEF Orderly, Queue, Busy, InTurn
<1>4. QED
  BY <1>1, <1>3, OffFacts DEF n

LEMMA CountsBound ==
    ASSUME Kept, Counts, NEW m \in Message
    PROVE  Count(replies, m) \in Nat /\ Count(replies, m) <= cuts + 1
<1>1. Count(replies, m) \in Nat /\ cuts \in Nat /\ \A r \in Runs : loop[r].stop \in BOOLEAN
  BY CountType DEF Kept, Loops
<1>2. CASE \A r \in Runs : loop[r] = Off
  BY <1>1, <1>2 DEF Counts
<1>3. ASSUME NEW r \in Runs, loop[r] # Off PROVE Count(replies, m) <= cuts + 1
  <2>1. Count(replies, m) <= Allowed(loop[r], m, cuts)
    BY <1>3 DEF Counts
  <2>2. Allowed(loop[r], m, cuts) \in Int /\ Allowed(loop[r], m, cuts) <= cuts + 1
    BY <1>1 DEF Allowed
  <2>3. QED
    BY <1>1, <2>1, <2>2
<1>4. QED
  BY <1>1, <1>2, <1>3

LEMMA MovesHandle ==
    ASSUME Handling, Single, NEW r \in Runs, loop[r] # Off, Moves(r)
    PROVE  Handling'
<1> DEFINE l == loop[r]
<1>1. PICK n \in Loops :
       /\ loop' = [loop EXCEPT ![r] = n] /\ n.pc # "off"
       /\ Orderly(n)
       /\ \A i \in 1 .. Len(n.mem.done) : n.mem.done[i] \in handled'
       /\ disk' \in {disk, l.mem} /\ (n.pc \in Before /\ cuts' = 0 => disk' = disk)
       /\ handled \subseteq handled' /\ handled' \subseteq Message
       /\ replies' \in Seq(Answers) /\ threads' \in Nat /\ cuts' \in {cuts, cuts + 1}
       /\ \A m \in Message : Count(replies, m) <= Allowed(l, m, cuts)
                                => Count(replies', m) <= Allowed(n, m, cuts')
       /\ Keeps(l, n, cuts', disk, handled, handled')
  BY DEF Moves
<1>2. /\ Kept /\ Marks /\ Counts /\ Skips /\ l \in Loops /\ l.mem \in Mems /\ disk \in Mems
      /\ Memory(l.mem) /\ Memory(disk) /\ cuts \in Nat /\ loop \in [Runs -> Loops]
      /\ \A i \in 1 .. Len(l.mem.done) : l.mem.done[i] \in handled
  BY RunFacts DEF Handling
<1>3. \A q \in Runs : loop'[q] = IF q = r THEN n ELSE loop[q]
  BY <1>1, <1>2
<1>4. \A q \in Runs \ {r} : loop[q] = Off
  BY DEF Single
<1>5. Kept'
  BY <1>1, <1>2 DEF Kept
<1>6. Marks'
  <2>1. Memory(disk') /\ \A i \in 1 .. Len(disk'.done) : disk'.done[i] \in handled'
    BY <1>1, <1>2 DEF Marks
  <2>2. ASSUME NEW q \in Runs
        PROVE  /\ Orderly(loop'[q])
               /\ \A i \in 1 .. Len(loop'[q].mem.done) : loop'[q].mem.done[i] \in handled'
    BY <1>1, <1>2, <1>3, <2>2 DEF Marks
  <2>3. QED
    BY <2>1, <2>2 DEF Marks
<1>7. Counts'
  <2>1. \A m \in Message : Count(replies', m) <= Allowed(n, m, cuts')
    BY <1>1, <1>2 DEF Counts
  <2>2. n # Off
    BY <1>1, OffFacts
  <2>3. QED
    BY <1>3, <1>4, <2>1, <2>2 DEF Counts
<1>8. Skips'
  <2> SUFFICES ASSUME cuts' = 0 PROVE Skips'
    BY DEF Skips
  <2>1. cuts = 0
    BY <1>1, <1>2
  <2>2. /\ ~l.stop /\ (\A m \in 1 .. l.mem.cursor : Passed(l, m, handled))
        /\ (\A q \in Runs : loop[q].pc \in Before) => disk.cursor = 0
    BY <1>2, <2>1 DEF Skips
  <2>3. l.pc \in Before => disk.cursor = 0
    BY <1>4, <2>2, OffFacts DEF Before
  <2>4. ~n.stop /\ \A m \in 1 .. n.mem.cursor : Passed(n, m, handled')
    BY <1>1, <2>2, <2>3 DEF Keeps, Before
  <2>5. n.pc \in Before => disk'.cursor = 0
    BY <1>1, <2>2, <2>3 DEF Keeps
  <2>6. ASSUME NEW q \in Runs
        PROVE  ~loop'[q].stop /\ \A m \in 1 .. loop'[q].mem.cursor : Passed(loop'[q], m, handled')
    <3>1. CASE q = r
      BY <1>3, <2>4, <3>1
    <3>2. CASE q # r
      BY <1>3, <1>4, <3>2, OffFacts
    <3>3. QED
      BY <3>1, <3>2
  <2>7. (\A q \in Runs : loop'[q].pc \in Before) => disk'.cursor = 0
    BY <1>3, <2>5
  <2>8. QED
    BY <2>6, <2>7 DEF Skips
<1>9. QED
  BY <1>5, <1>6, <1>7, <1>8 DEF Handling

LEMMA LeaveHandles ==
    ASSUME Handling, Single, NEW r \in Runs, Leave(r)
    PROVE  Handling'
<1>1. /\ Kept /\ Marks /\ Counts /\ Skips /\ loop[r].pc = "over"
      /\ loop' = [loop EXCEPT ![r] = Off] /\ UNCHANGED <<disk, threads, replies, handled, cuts>>
  BY DEF Handling, Leave, At, Put
<1>2. loop[r] # Off
  BY <1>1, OffFacts
<1>3. \A q \in Runs : loop'[q] = Off
  BY <1>1, <1>2 DEF Single, Kept
<1>4. Kept'
  BY <1>1, OffFacts DEF Kept
<1>5. Marks'
  BY <1>1, <1>3, OffFacts DEF Marks
<1>6. Counts'
  <2>1. \A m \in Message : Count(replies, m) <= cuts
    BY <1>1, <1>2 DEF Counts, Allowed, Past
  <2>2. QED
    BY <1>1, <1>3, <2>1 DEF Counts
<1>7. Skips'
  <2>1. \A q \in Runs : loop[q].pc \in Before
    BY <1>1, <1>2, OffFacts DEF Single, Before
  <2>2. QED
    BY <1>1, <1>3, <2>1, OffFacts DEF Skips
<1>8. QED
  BY <1>4, <1>5, <1>6, <1>7 DEF Handling

LEMMA CommandHandles ==
    ASSUME Handling, Single, Start \/ Stop \/ ShowStop \/ Restart
    PROVE  Handling'
<1>1. /\ Kept /\ Marks /\ Counts /\ Skips /\ cuts \in Nat /\ loop \in [Runs -> Loops]
      /\ UNCHANGED <<disk, threads, replies, handled>>
  BY DEF Handling, Kept, Start, Stop, ShowStop, Restart
<1>2. CASE UNCHANGED <<loop, cuts>>
  BY <1>1, <1>2 DEF Handling, Kept, Marks, Counts, Skips
<1> DEFINE b == [Off EXCEPT !.pc = "begin"]
<1> HIDE DEF b
<1>3. /\ b \in Loops /\ Orderly(b) /\ ~b.stop /\ b.mem.cursor = 0 /\ Len(b.mem.done) = 0
      /\ b.pc = "begin" /\ b # Off
  BY BegunFacts DEF b
<1>4. ASSUME NEW c \in {cuts, cuts + 1}, cuts' = c, \A m \in Message : Count(replies, m) <= c,
             loop' \in [Runs -> {Off, b}],
             c = 0 => \A q \in Runs : loop[q] = Off
      PROVE  Handling'
  <2>1. \A q \in Runs : loop'[q] \in {Off, b}
    BY <1>4
  <2>2. Kept'
    BY <1>1, <1>3, <1>4, OffFacts DEF Kept
  <2>3. Marks'
    BY <1>1, <1>3, <2>1, OffFacts DEF Marks
  <2>4. Counts'
    <3>1. \A m \in Message : Allowed(b, m, c) = c
      <4>1. c \in Int
        BY <1>1, <1>4
      <4>2. \A m \in Message : Open(b, m)
        BY <1>3 DEF Open
      <4>3. b.pc \notin Past /\ ~b.stop
        BY <1>3 DEF Past
      <4>4. QED
        BY <4>1, <4>2, <4>3 DEF Allowed
    <3>2. QED
      BY <1>1, <1>4, <2>1, <3>1 DEF Counts
  <2>5. Skips'
    <3>1. c = 0 => disk.cursor = 0
      <4> SUFFICES ASSUME c = 0 PROVE disk.cursor = 0
        OBVIOUS
      <4>1. \A q \in Runs : loop[q].pc \in Before
        BY <1>4, OffFacts DEF Before
      <4>2. cuts = 0
        BY <1>1
      <4>3. QED
        BY <1>1, <4>1, <4>2 DEF Skips
    <3>2. QED
      BY <1>1, <1>3, <1>4, <2>1, <3>1, OffFacts DEF Skips
  <2>6. QED
    BY <2>2, <2>3, <2>4, <2>5 DEF Handling
<1>5. ASSUME NEW r \in Runs, Spawn(r), runtime = 0, UNCHANGED cuts PROVE Handling'
  <2>1. \A q \in Runs : loop[q] = Off
    BY <1>5, RunsAssumption DEF Single
  <2>2. loop' = [loop EXCEPT ![r] = b]
    BY <1>5, <2>1 DEF Spawn, Goto, Put, b
  <2>3. \A m \in Message : Count(replies, m) <= cuts
    BY <1>1, <2>1 DEF Counts
  <2>4. loop' \in [Runs -> {Off, b}]
    BY <1>1, <2>1, <2>2
  <2>5. QED
    BY <1>4, <1>5, <2>1, <2>3, <2>4
<1>6. CASE Restart
  <2>1. cuts' = cuts + 1
    BY <1>6 DEF Restart, Cut
  <2>2. loop' \in [Runs -> {Off, b}]
    <3>1. CASE loop' = [s \in Runs |-> Off]
      BY <3>1
    <3>2. ASSUME NEW r \in Runs, loop' = [[s \in Runs |-> Off] EXCEPT ![r].pc = "begin"]
          PROVE  loop' \in [Runs -> {Off, b}]
      BY <3>2 DEF b
    <3>3. QED
      BY <1>6, <3>1, <3>2 DEF Restart
  <2>3. \A m \in Message : Count(replies, m) <= cuts + 1
    BY <1>1, CountsBound
  <2>4. cuts + 1 # 0
    BY <1>1
  <2>5. QED
    BY <1>4, <2>1, <2>2, <2>3, <2>4
<1>7. CASE Stop /\ runtime # 0
  <2> DEFINE r == runtime
             l == loop[r]
             n == [l EXCEPT !.stop = TRUE]
  <2>1. r \in Runs /\ cuts' = cuts + 1 /\ loop' = [loop EXCEPT ![r] = n]
    BY <1>7 DEF Single, Stop, Cut
  <2>2. l \in Loops /\ Orderly(l) /\ l.stop \in BOOLEAN
    BY <1>1, <2>1 DEF Marks, Loops
  <2> HIDE DEF r
  <2>3. /\ n \in Loops /\ n.pc = l.pc /\ n.stop = TRUE /\ n.mem = l.mem /\ n.batch = l.batch
        /\ n.msg = l.msg
    BY <2>2 DEF Loops
  <2> HIDE DEF n
  <2>4. \A q \in Runs : loop'[q] = IF q = r THEN n ELSE loop[q]
    BY <1>1, <2>1
  <2>5. Orderly(n)
    BY <2>2, <2>3 DEF Orderly, Queue
  <2>6. Kept'
    BY <1>1, <2>1, <2>3 DEF Kept
  <2>7. Marks'
    BY <1>1, <2>1, <2>3, <2>4, <2>5 DEF Marks
  <2>8. \A q \in Runs \ {r} : loop[q] = Off
    BY DEF Single, r
  <2>9. n # Off
    BY <2>3, OffFacts
  <2>10. ASSUME NEW m \in Message PROVE Count(replies, m) <= Allowed(n, m, cuts + 1)
    <3>1. Count(replies, m) \in Nat /\ Count(replies, m) <= cuts + 1
      BY <1>1, CountsBound
    <3>2. CASE n.pc \in Past
      BY <3>1, <3>2 DEF Allowed
    <3>3. CASE n.pc \notin Past /\ ~Open(n, m)
      BY <1>1, <2>3, <3>1, <3>3 DEF Allowed
    <3>4. CASE n.pc \notin Past /\ Open(n, m)
      <4>1. Count(replies, m) <= cuts
        <5>1. CASE l = Off
          <6>1. \A q \in Runs : loop[q] = Off
            BY <2>8, <5>1
          <6>2. QED
            BY <1>1, <6>1 DEF Counts
        <5>2. CASE l # Off
          <6>1. Open(l, m) /\ l.pc \notin Past
            BY <2>3, <3>4 DEF Open
          <6>2. Count(replies, m) <= Allowed(l, m, cuts)
            BY <1>1, <2>1, <5>2 DEF Counts
          <6>3. Allowed(l, m, cuts) = IF l.stop THEN cuts - 1 ELSE cuts
            BY <1>1, <6>1 DEF Allowed
          <6>4. QED
            BY <1>1, <2>2, <3>1, <6>2, <6>3
        <5>3. QED
          BY <5>1, <5>2
      <4>2. Allowed(n, m, cuts + 1) = cuts
        BY <1>1, <2>3, <3>4 DEF Allowed
      <4>3. QED
        BY <4>1, <4>2
    <3>5. QED
      BY <3>2, <3>3, <3>4
  <2>11. Counts'
    BY <1>1, <2>1, <2>4, <2>8, <2>9, <2>10 DEF Counts
  <2>12. Skips'
    BY <1>1, <2>1 DEF Skips
  <2>13. QED
    BY <2>6, <2>7, <2>11, <2>12 DEF Handling
<1>8. CASE Start
  <2>1. UNCHANGED cuts /\ (UNCHANGED loop \/ (runtime = 0 /\ \E r \in Runs : Spawn(r)))
    BY <1>8 DEF Start
  <2>2. QED
    BY <1>2, <1>5, <2>1
<1>9. CASE ShowStop \/ (Stop /\ runtime = 0)
  BY <1>2, <1>9 DEF ShowStop, Stop
<1>10. QED
  BY <1>6, <1>7, <1>8, <1>9

LEMMA HandlingStep ==
    ASSUME WindowFits, Handling, Single, [Next]_vars
    PROVE  Handling'
<1>1. Kept /\ Marks
  BY DEF Handling
<1>2. ASSUME NEW r \in Runs, LoopNext(r) PROVE Handling'
  <2>1. loop[r] # Off
    BY <1>2, LoopRuns
  <2>2. CASE Leave(r)
    BY <2>2, LeaveHandles
  <2>3. CASE ~Leave(r)
    <3>1. Moves(r)
      BY <1>1, <1>2, <2>3, BeginMoves, PollMoves, PickMoves, ServerMoves, ThreadMoves,
         TurnStepMoves, ConcludeMoves, EndMoves DEF LoopNext
    <3>2. QED
      BY <2>1, <3>1, MovesHandle
  <2>4. QED
    BY <2>2, <2>3
<1>3. CASE UNCHANGED vars
  BY <1>3 DEF vars, Handling, Kept, Marks, Counts, Skips
<1>4. QED
  BY <1>2, <1>3, CommandHandles DEF Next

LEMMA ShownStep == ASSUME Shown, [Next]_vars PROVE Shown'
<1>1. CASE Start \/ Stop \/ ShowStop \/ Restart
  BY <1>1 DEF Shown, Start, Spawn, Stop, ShowStop, Restart
<1>2. ASSUME NEW r \in Runs, LoopNext(r) PROVE Shown'
  <2>1. UNCHANGED <<command, enabled>>
    BY <1>2 DEF LoopNext, Begin, Poll, Pick, EnsureServer, Prepare, StartTurn, Read, Send,
         Conclude, Save, Close, Leave, outside
  <2>2. status' \in {status, "running", "retrying", "error", "stopped"}
    BY <1>2 DEF LoopNext, Begin, Poll, Pick, EnsureServer, Prepare, StartTurn, Read, Send,
         Conclude, Save, Close, Leave, outside
  <2>3. QED
    BY <2>1, <2>2 DEF Shown
<1>3. CASE UNCHANGED vars
  BY <1>3 DEF vars, Shown
<1>4. QED
  BY <1>1, <1>2, <1>3 DEF Next

LEMMA HandlingInit == Init => Handling /\ Single /\ Shown
<1> SUFFICES ASSUME Init PROVE Handling /\ Single /\ Shown
  OBVIOUS
<1>1. /\ loop = [r \in Runs |-> Off] /\ disk = NoState /\ threads = 0 /\ replies = <<>>
      /\ handled = {} /\ cuts = 0
  BY DEF Init
<1>2. /\ \A r \in Runs : loop[r] = Off
      /\ NoState \in Mems /\ NoState.cursor = 0 /\ NoState.done = <<>> /\ Len(<<>>) = 0
      /\ Memory(NoState) /\ <<>> \in Seq(Answers)
  BY <1>1, NoStateType, OffFacts, EmptySeq DEF NoState, Orderly, Off
<1>3. Kept
  BY <1>1, <1>2, OffFacts DEF Kept
<1>4. Marks
  BY <1>1, <1>2, OffFacts DEF Marks
<1>5. Counts
  <2>1. ASSUME NEW m \in Message PROVE Count(replies, m) <= 0
    <3>1. {i \in DOMAIN replies : replies[i].msg = m} = {}
      BY <1>1, <1>2, LenProperties
    <3>2. QED
      BY <3>1, FS_EmptySet DEF Count
  <2>2. QED
    BY <1>1, <1>2, <2>1 DEF Counts
<1>6. Skips
  BY <1>1, <1>2, OffFacts DEF Skips
<1>7. QED
  BY <1>3, <1>4, <1>5, <1>6 DEF Handling, Single, Shown, Init

(* Each message is handled, and once, by the one run there is: it is       *)
(* answered again only when a run was cut off, and none is passed over --  *)
(* whatever the child does, if the window of the gateway fits twice into   *)
(* what is remembered.                                                     *)
THEOREM MessagesAreHandled ==
    ASSUME WindowFits
    PROVE  Spec => []MessagesHandled
<1> DEFINE IInv == Handling /\ Single /\ Shown
<1>1. Init => IInv
  BY HandlingInit
<1>2. IInv /\ [Next]_vars => IInv'
  BY HandlingStep, SingleStep, ShownStep
<1>3. IInv => MessagesHandled
  <2> SUFFICES ASSUME IInv PROVE MessagesHandled
    OBVIOUS
  <2>1. Kept /\ Marks /\ Counts /\ Skips
    BY DEF Handling
  <2>2. TypeOK
    <3>1. ASSUME NEW r \in Runs
          PROVE  Len(loop[r].mem.done) <= History /\ loop[r].msg \in Message \cup {0}
      BY <2>1, RunFacts DEF Memory
    <3>2. QED
      BY <2>1, <3>1 DEF TypeOK, Shown, Single, Kept
  <2>3. OneRun
    BY DEF OneRun, Single
  <2>4. AnsweredOnce
    <3>1. ASSUME NEW m \in Message PROVE Count(replies, m) <= 1 + cuts
      <4>1. Count(replies, m) \in Nat /\ Count(replies, m) <= cuts + 1 /\ cuts \in Nat
        BY <2>1, CountsBound DEF Kept
      <4>2. QED
        BY <4>1
    <3>2. QED
      BY <3>1 DEF AnsweredOnce, Count
  <2>5. NothingSkipped
    <3>1. ASSUME cuts = 0, NEW r \in Runs, NEW m \in 1 .. loop[r].mem.cursor,
                 Inbox[m].kind # "skip"
          PROVE  m \in handled \cup Range(loop[r].batch) \cup {loop[r].msg}
      <4>1. Passed(loop[r], m, handled)
        BY <2>1, <3>1 DEF Skips
      <4>2. loop[r].batch \in Seq(Message)
        BY <2>1, RunFacts
      <4>3. QED
        BY <3>1, <4>1, <4>2, RangeIn DEF Passed
    <3>2. QED
      BY <3>1 DEF NothingSkipped
  <2>6. QED
    BY <2>2, <2>3, <2>4, <2>5 DEF MessagesHandled
<1>4. QED
  BY <1>1, <1>2, <1>3, PTL DEF Spec
=============================================================================
