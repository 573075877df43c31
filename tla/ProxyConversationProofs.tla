----------------------- MODULE ProxyConversationProofs ------------------------
(***************************************************************************)
(* Proofs about ProxyConversation, for every value of the constants: any   *)
(* chunks, calls and words of a relay, any history of the app.  Three      *)
(* stretches: what the converter of the history does to calls and their    *)
(* outputs (up to ChatMessagesSettled), what the converter of the stream   *)
(* tells the app (up to FinalizeTells), and the invariant of both, on      *)
(* which the three theorems at the end rest.                               *)
(*                                                                         *)
(* The lemmas on sequences, and on functions by recursion, are those of    *)
(* VisionAnalysisProofs (FlattenHolds, Recursion, Sequenced and the like): *)
(* the vision proxy sifts and joins the same histories.                    *)
(***************************************************************************)
EXTENDS ProxyConversation, VisionAnalysisProofs, FiniteSetTheorems, TLAPS

(* What the converter's loop is about: ids of calls, items, messages.      *)
AnyIds == Ids \cup {<<"call", i>> : i \in ToolSlots} \cup {NoId}
Roles == {"user", "assistant", "system", "tool"}
Marks == {<<"instructions">>} \cup ({"said", "output"} \X Nat) \cup ({"abandoned"} \X AnyIds)
ItemsOf == [type : {"call", "output", "reasoning", "message"}, role : Roles, id : AnyIds,
            image : BOOLEAN, at : Nat]
ChatMessage == [role : Roles, text : Seq(Marks), calls : Seq(AnyIds), reasoning : Seq(Nat),
                id : AnyIds, images : Seq(Nat)]
Draft == [messages : Seq(ChatMessage) \ {<<>>}, calls : Seq(AnyIds), reasoning : Seq(Nat),
          seen : SUBSET AnyIds]

(* The converter joins sequences as the vision proxy does.                 *)
LEMMA SameFlatten ==
    ASSUME NEW seqs
    PROVE  H!FlattenSeq(seqs) = FlattenSeq(seqs)
  BY DEF H!FlattenSeq, FlattenSeq

(* What is in a set is kept in a sequence, or what is not.                 *)
LEMMA Sifts ==
    ASSUME NEW T, NEW seq \in Seq(T), NEW S
    PROVE  /\ H!Within(seq, S) \in Seq(T)
           /\ \A x : x \in Range(H!Within(seq, S)) <=> x \in Range(seq) /\ x \in S
           /\ H!Without(seq, S) \in Seq(T)
           /\ \A x : x \in Range(H!Without(seq, S)) <=> x \in Range(seq) /\ x \notin S
  <1> DEFINE in  == [n \in DOMAIN seq |-> IF seq[n] \in S THEN <<seq[n]>> ELSE <<>>]
             out == [n \in DOMAIN seq |-> IF seq[n] \in S THEN <<>> ELSE <<seq[n]>>]
  <1>1. /\ in \in Seq(Seq(T)) /\ DOMAIN in = DOMAIN seq
        /\ out \in Seq(Seq(T)) /\ DOMAIN out = DOMAIN seq
    <2>1. /\ DOMAIN seq = 1..Len(seq) /\ Len(seq) \in Nat /\ <<>> \in Seq(T)
          /\ \A n \in 1..Len(seq) : <<seq[n]>> \in Seq(T)
      OBVIOUS
    <2>2. in \in [1..Len(seq) -> Seq(T)] /\ out \in [1..Len(seq) -> Seq(T)]
      BY <2>1
    <2>3. QED
      BY <2>1, <2>2
  <1>2. \A n \in DOMAIN seq : \A x :
           /\ x \in Range(in[n]) <=> x = seq[n] /\ seq[n] \in S
           /\ x \in Range(out[n]) <=> x = seq[n] /\ seq[n] \notin S
    <2> SUFFICES ASSUME NEW n \in DOMAIN seq, NEW x
                 PROVE /\ x \in Range(in[n]) <=> x = seq[n] /\ seq[n] \in S
                       /\ x \in Range(out[n]) <=> x = seq[n] /\ seq[n] \notin S
      BY Zenon
    <2>1. Range(<<>>) = {} /\ Range(<<seq[n]>>) = {seq[n]}
      BY DEF Range
    <2>2. QED
      BY <2>1
  <1>3. H!Within(seq, S) = FlattenSeq(in) /\ H!Without(seq, S) = FlattenSeq(out)
    BY SameFlatten DEF H!Within, H!Without
  <1> HIDE DEF in, out
  <1>4. /\ FlattenSeq(in) \in Seq(T) /\ FlattenSeq(out) \in Seq(T)
        /\ \A x : x \in Range(FlattenSeq(in)) <=> \E k \in DOMAIN in : x \in Range(in[k])
        /\ \A x : x \in Range(FlattenSeq(out)) <=> \E k \in DOMAIN out : x \in Range(out[k])
    BY <1>1, FlattenHolds, Zenon
  <1>5. \A x : x \in Range(seq) <=> \E n \in DOMAIN seq : x = seq[n]
    BY DEF Range
  <1>6. QED
    BY <1>1, <1>2, <1>3, <1>4, <1>5

(* A message of its own.                                                   *)
LEMMA MessageTyped ==
    ASSUME NEW role \in Roles, NEW text \in Seq(Marks)
    PROVE  /\ H!Message(role, text) \in ChatMessage
           /\ H!Message(role, text).role = role
           /\ H!Message(role, text).calls = <<>>
           /\ H!Message(role, text).text = text
           /\ H!Message(role, text).reasoning = <<>>
           /\ H!Message(role, text).images = <<>>
  <1>1. NoId \in AnyIds /\ H!NoId = NoId
    BY DEF AnyIds, H!NoId, NoId
  <1>2. QED
    BY <1>1 DEF H!Message, ChatMessage

(* Calls are with the assistant only; those of a message nothing but tools *)
(* has answered are still open, as are those collected.                    *)
CallsWithAssistant(m) == \A i \in DOMAIN m : m[i].calls # <<>> => m[i].role = "assistant"
LastOpen(m, E) ==
    \A i \in DOMAIN m :
       (\A k \in (i + 1)..Len(m) : m[k].role = "tool") => Range(m[i].calls) \subseteq E
Loose(d, E) ==
    /\ CallsWithAssistant(d.messages)
    /\ Range(d.calls) \subseteq E
    /\ LastOpen(d.messages, E)

(* One more message behind the others.                                     *)
LEMMA OneMoreMessage ==
    ASSUME NEW m \in Seq(ChatMessage) \ {<<>>}, NEW x \in ChatMessage, NEW E,
           CallsWithAssistant(m), LastOpen(m, E) \/ x.role # "tool",
           x.calls # <<>> => x.role = "assistant", Range(x.calls) \subseteq E
    PROVE  /\ Append(m, x) \in Seq(ChatMessage) \ {<<>>}
           /\ CallsWithAssistant(Append(m, x))
           /\ LastOpen(Append(m, x), E)
  <1> DEFINE a == Append(m, x)
  <1>1. /\ a \in Seq(ChatMessage) /\ Len(a) = Len(m) + 1 /\ Len(m) \in Nat
        /\ DOMAIN a = 1..(Len(m) + 1) /\ DOMAIN m = 1..Len(m)
        /\ \A i \in 1..Len(m) : a[i] = m[i]
        /\ a[Len(m) + 1] = x
    OBVIOUS
  <1>2. a # <<>>
    BY <1>1
  <1> HIDE DEF a
  <1>3. CallsWithAssistant(a)
    BY <1>1 DEF CallsWithAssistant
  <1>4. ASSUME NEW i \in DOMAIN a, \A k \in (i + 1)..Len(a) : a[k].role = "tool"
        PROVE  Range(a[i].calls) \subseteq E
    <2>1. CASE i = Len(m) + 1
      BY <1>1, <2>1
    <2>2. CASE i # Len(m) + 1
      <3>1. i \in DOMAIN m /\ Len(a) \in (i + 1)..Len(a) /\ a[Len(a)] = x
        BY <1>1, <2>2
      <3>2. x.role = "tool"
        BY <1>4, <3>1
      <3>3. \A k \in (i + 1)..Len(m) : m[k].role = "tool"
        <4> SUFFICES ASSUME NEW k \in (i + 1)..Len(m) PROVE m[k].role = "tool"
          OBVIOUS
        <4>1. k \in (i + 1)..Len(a) /\ k \in 1..Len(m)
          BY <1>1, <3>1
        <4>2. QED
          BY <1>1, <1>4, <4>1
      <3>4. QED
        BY <1>1, <3>1, <3>2, <3>3 DEF LastOpen
    <2>3. QED
      BY <2>1, <2>2
  <1>5. QED
    BY <1>1, <1>2, <1>3, <1>4 DEF LastOpen, a

(* The last message gets more calls.                                       *)
LEMMA LastGetsMore ==
    ASSUME NEW m \in Seq(ChatMessage) \ {<<>>}, NEW x \in ChatMessage, NEW E,
           CallsWithAssistant(m), LastOpen(m, E),
           x.role = "assistant", m[Len(m)].role = "assistant", Range(x.calls) \subseteq E
    PROVE  /\ [m EXCEPT ![Len(m)] = x] \in Seq(ChatMessage) \ {<<>>}
           /\ CallsWithAssistant([m EXCEPT ![Len(m)] = x])
           /\ LastOpen([m EXCEPT ![Len(m)] = x], E)
  <1> DEFINE a == [m EXCEPT ![Len(m)] = x]
  <1>1. /\ a \in Seq(ChatMessage) /\ Len(a) = Len(m) /\ Len(m) \in Nat /\ Len(m) # 0
        /\ DOMAIN a = 1..Len(m) /\ DOMAIN m = 1..Len(m)
    OBVIOUS
  <1>6. \A i \in 1..Len(m) : i # Len(m) => a[i] = m[i]
    OBVIOUS
  <1>7. a[Len(m)] = x
    BY <1>1
  <1>2. a # <<>>
    BY <1>1
  <1> HIDE DEF a
  <1>3. CallsWithAssistant(a)
    BY <1>1, <1>6, <1>7, Zenon DEF CallsWithAssistant
  <1>4. ASSUME NEW i \in DOMAIN a, \A k \in (i + 1)..Len(a) : a[k].role = "tool"
        PROVE  Range(a[i].calls) \subseteq E
    <2>1. CASE i = Len(m)
      BY <1>7, <2>1
    <2>2. CASE i # Len(m)
      <3>0. i \in 1..Len(m) /\ Len(m) \in 1..Len(m)
        BY <1>1
      <3>1. Len(a) \in (i + 1)..Len(a)
        BY <1>1, <2>2, <3>0
      <3>2. a[Len(a)] = x
        BY <1>1, <1>7
      <3>3. QED
        BY <1>4, <3>1, <3>2
    <2>3. QED
      BY <2>1, <2>2
  <1>5. QED
    BY <1>1, <1>2, <1>3, <1>4, Zenon DEF LastOpen, a

(* Whose message the last one is.                                          *)
LEMMA EndsWithIs ==
    ASSUME NEW m
    PROVE  H!EndsWithAssistant(m) <=> m[Len(m)].role = "assistant"
  BY DEF H!EndsWithAssistant, H!Last

(* A draft whose fields are changed.                                       *)
LEMMA DraftFields ==
    ASSUME NEW d \in Draft, NEW g \in Seq(ChatMessage) \ {<<>>}
    PROVE  /\ [d EXCEPT !.messages = g, !.calls = <<>>] \in Draft
           /\ [d EXCEPT !.messages = g, !.calls = <<>>].messages = g
           /\ [d EXCEPT !.messages = g, !.calls = <<>>].calls = <<>>
           /\ [d EXCEPT !.messages = g, !.calls = <<>>].seen = d.seen
           /\ [d EXCEPT !.messages = g, !.calls = <<>>, !.reasoning = <<>>] \in Draft
           /\ [d EXCEPT !.messages = g, !.calls = <<>>, !.reasoning = <<>>].messages = g
           /\ [d EXCEPT !.messages = g, !.calls = <<>>, !.reasoning = <<>>].calls = <<>>
           /\ [d EXCEPT !.messages = g, !.calls = <<>>, !.reasoning = <<>>].seen = d.seen
           /\ [d EXCEPT !.messages = g, !.reasoning = <<>>] \in Draft
           /\ [d EXCEPT !.messages = g, !.reasoning = <<>>].messages = g
           /\ [d EXCEPT !.messages = g, !.reasoning = <<>>].calls = d.calls
           /\ [d EXCEPT !.messages = g, !.reasoning = <<>>].seen = d.seen
           /\ [d EXCEPT !.messages = g] \in Draft
           /\ [d EXCEPT !.messages = g].messages = g
           /\ [d EXCEPT !.messages = g].calls = d.calls
           /\ [d EXCEPT !.messages = g].seen = d.seen
  <1>1. <<>> \in Seq(AnyIds) /\ <<>> \in Seq(Nat)
    OBVIOUS
  <1> DEFINE G == Seq(ChatMessage) \ {<<>>}
             C == Seq(AnyIds)
             R == Seq(Nat)
             S == SUBSET AnyIds
  <1>2. g \in G /\ d \in [messages : G, calls : C, reasoning : R, seen : S]
        /\ Draft = [messages : G, calls : C, reasoning : R, seen : S]
    BY DEF Draft
  <1>3. <<>> \in C /\ <<>> \in R
    BY <1>1
  <1> HIDE DEF G, C, R, S
  <1>4. QED
    BY <1>2, <1>3, Zenon

(* Flushing the calls collected keeps every call open.                     *)
LEMMA FlushCallsLoose ==
    ASSUME NEW d \in Draft, NEW E, Loose(d, E)
    PROVE  /\ H!FlushCalls(d) \in Draft /\ Loose(H!FlushCalls(d), E)
           /\ H!FlushCalls(d).calls = <<>> /\ H!FlushCalls(d).seen = d.seen
  <1> DEFINE m == d.messages
             L == Len(m)
             f == H!FlushCalls(d)
  <1>1. /\ m \in Seq(ChatMessage) \ {<<>>} /\ L \in Nat /\ L # 0 /\ L \in DOMAIN m
        /\ m[L] \in ChatMessage /\ d.calls \in Seq(AnyIds) /\ d.reasoning \in Seq(Nat)
    BY DEF Draft
  <1>2. CASE d.calls = <<>>
    <2>1. f = d
      BY <1>2 DEF H!FlushCalls
    <2>2. QED
      BY <1>2, <2>1
  <1>3. CASE d.calls # <<>> /\ m[L].role = "assistant"
    <2> DEFINE new == H!Without(d.calls, H!ToSet(m[L].calls))
               x == [m[L] EXCEPT !.calls = @ \o new]
               g == [m EXCEPT ![L] = x]
    <2>1. new \in Seq(AnyIds) /\ Range(new) \subseteq E
      <3>1. new \in Seq(AnyIds) /\ \A y : y \in Range(new) => y \in Range(d.calls)
        BY <1>1, Sifts
      <3>2. QED
        BY <3>1 DEF Loose
    <2> HIDE DEF new
    <2>2. x \in ChatMessage /\ x.role = "assistant" /\ x.calls = m[L].calls \o new
      <3>1. m[L].calls \in Seq(AnyIds) /\ m[L].calls \o new \in Seq(AnyIds)
        BY <1>1, <2>1 DEF ChatMessage
      <3>2. QED
        BY <1>1, <1>3, <3>1, Zenon DEF ChatMessage
    <2>3. Range(m[L].calls) \subseteq E
      BY <1>1 DEF Loose, LastOpen
    <2>4. Range(x.calls) \subseteq E
      <3>1. m[L].calls \in Seq(AnyIds)
        BY <1>1 DEF ChatMessage
      <3>2. Range(m[L].calls \o new) = Range(m[L].calls) \cup Range(new)
        BY <2>1, <3>1, RangeJoined
      <3>3. QED
        BY <2>1, <2>2, <2>3, <3>2
    <2> HIDE DEF x
    <2>5. g \in Seq(ChatMessage) \ {<<>>} /\ CallsWithAssistant(g) /\ LastOpen(g, E)
      BY <1>1, <1>3, <2>2, <2>4, LastGetsMore, Zenon DEF Loose
    <2>6. f = [d EXCEPT !.messages = g, !.calls = <<>>]
      <3>1. g = [m EXCEPT ![L].calls = @ \o new]
        BY DEF x
      <3>2. H!EndsWithAssistant(m)
        BY <1>3, EndsWithIs, Zenon
      <3> HIDE DEF g
      <3>3. QED
        BY <1>3, <3>1, <3>2 DEF H!FlushCalls, new
    <2> HIDE DEF g, m, L, f
    <2>7. f \in Draft /\ f.messages = g /\ f.calls = <<>> /\ f.seen = d.seen
      <3> DEFINE w == [d EXCEPT !.messages = g, !.calls = <<>>]
      <3>1. w \in Draft /\ w.messages = g /\ w.calls = <<>> /\ w.seen = d.seen
        BY <2>5, DraftFields, Zenon
      <3>2. f = w
        BY <2>6
      <3> HIDE DEF w
      <3>3. QED
        BY <3>1, <3>2
    <2>8. QED
      BY <2>5, <2>7 DEF Loose, f, Range
  <1>4. CASE d.calls # <<>> /\ m[L].role # "assistant"
    <2> DEFINE own == [H!Message("assistant", <<>>) EXCEPT !.calls = d.calls,
                                                           !.reasoning = d.reasoning]
               g == Append(m, own)
    <2>1. own \in ChatMessage /\ own.role = "assistant" /\ own.calls = d.calls
      <3>1. <<>> \in Seq(Marks)
        OBVIOUS
      <3>2. /\ H!Message("assistant", <<>>) \in ChatMessage
            /\ H!Message("assistant", <<>>).role = "assistant"
        BY <3>1, MessageTyped, Zenon DEF Roles
      <3>3. QED
        BY <1>1, <3>2, Zenon DEF ChatMessage
    <2>2. f = [d EXCEPT !.messages = g, !.calls = <<>>, !.reasoning = <<>>]
      <3>1. ~H!EndsWithAssistant(m)
        BY <1>4, EndsWithIs, Zenon
      <3>2. QED
        BY <1>4, <3>1 DEF H!FlushCalls
    <2> HIDE DEF own
    <2>3. g \in Seq(ChatMessage) \ {<<>>} /\ CallsWithAssistant(g) /\ LastOpen(g, E)
      <3>1. /\ CallsWithAssistant(m) /\ own.role # "tool"
            /\ own.calls # <<>> => own.role = "assistant"
            /\ Range(own.calls) \subseteq E
        BY <2>1 DEF Loose
      <3> HIDE DEF m
      <3>2. QED
        BY <1>1, <2>1, <3>1, OneMoreMessage
    <2> HIDE DEF g, m, L, f
    <2>4. f \in Draft /\ f.messages = g /\ f.calls = <<>> /\ f.seen = d.seen
      <3> DEFINE w == [d EXCEPT !.messages = g, !.calls = <<>>, !.reasoning = <<>>]
      <3>1. w \in Draft /\ w.messages = g /\ w.calls = <<>> /\ w.seen = d.seen
        BY <2>3, DraftFields, Zenon
      <3>2. f = w
        BY <2>2
      <3> HIDE DEF w
      <3>3. QED
        BY <3>1, <3>2
    <2>5. QED
      BY <2>3, <2>4 DEF Loose, f, Range
  <1>5. QED
    BY <1>2, <1>3, <1>4

(* So does flushing the reasoning.                                         *)
LEMMA FlushReasoningLoose ==
    ASSUME NEW d \in Draft, NEW E, Loose(d, E)
    PROVE  /\ H!FlushReasoning(d) \in Draft /\ Loose(H!FlushReasoning(d), E)
           /\ H!FlushReasoning(d).calls = d.calls /\ H!FlushReasoning(d).seen = d.seen
  <1> DEFINE m == d.messages
             L == Len(m)
             f == H!FlushReasoning(d)
  <1>1. /\ m \in Seq(ChatMessage) \ {<<>>} /\ L \in Nat /\ L # 0 /\ L \in DOMAIN m
        /\ m[L] \in ChatMessage /\ d.calls \in Seq(AnyIds) /\ d.reasoning \in Seq(Nat)
    BY DEF Draft
  <1>2. CASE d.reasoning = <<>>
    BY <1>2 DEF H!FlushReasoning
  <1>3. CASE d.reasoning # <<>> /\ m[L].role = "assistant"
    <2> DEFINE x == [m[L] EXCEPT !.reasoning = @ \o d.reasoning]
               g == [m EXCEPT ![L] = x]
    <2>1. x \in ChatMessage /\ x.role = "assistant" /\ x.calls = m[L].calls
      <3>1. m[L].reasoning \in Seq(Nat) /\ m[L].reasoning \o d.reasoning \in Seq(Nat)
        BY <1>1 DEF ChatMessage
      <3>2. QED
        BY <1>1, <1>3, <3>1, Zenon DEF ChatMessage
    <2>2. Range(x.calls) \subseteq E
      BY <1>1, <2>1 DEF Loose, LastOpen
    <2> HIDE DEF x
    <2>3. g \in Seq(ChatMessage) \ {<<>>} /\ CallsWithAssistant(g) /\ LastOpen(g, E)
      BY <1>1, <1>3, <2>1, <2>2, LastGetsMore, Zenon DEF Loose
    <2>4. f = [d EXCEPT !.messages = g, !.reasoning = <<>>]
      <3>1. H!EndsWithAssistant(m)
        BY <1>3, EndsWithIs, Zenon
      <3>2. f = [d EXCEPT !.messages = [m EXCEPT ![L].reasoning = @ \o d.reasoning],
                          !.reasoning = <<>>]
        BY <1>1, <1>3, <3>1 DEF H!FlushReasoning, Draft
      <3>3. g = [m EXCEPT ![L].reasoning = @ \o d.reasoning]
        BY <1>1 DEF x
      <3> HIDE DEF g
      <3>4. QED
        BY <3>2, <3>3
    <2> HIDE DEF g, m, L, f
    <2>5. f \in Draft /\ f.messages = g /\ f.calls = d.calls /\ f.seen = d.seen
      BY DraftFields, <2>3, <2>4, Zenon
    <2>6. QED
      BY <2>3, <2>5 DEF Loose, f
  <1>4. CASE d.reasoning # <<>> /\ m[L].role # "assistant"
    <2> DEFINE own == [H!Message("assistant", <<>>) EXCEPT !.reasoning = d.reasoning]
               g == Append(m, own)
    <2>1. own \in ChatMessage /\ own.role = "assistant" /\ own.calls = <<>>
      <3>1. <<>> \in Seq(Marks)
        OBVIOUS
      <3>2. /\ H!Message("assistant", <<>>) \in ChatMessage
            /\ H!Message("assistant", <<>>).role = "assistant"
            /\ H!Message("assistant", <<>>).calls = <<>>
        BY <3>1, MessageTyped, Zenon DEF Roles
      <3>3. QED
        BY <1>1, <3>2, Zenon DEF ChatMessage
    <2>2. f = [d EXCEPT !.messages = g, !.reasoning = <<>>]
      <3>1. ~H!EndsWithAssistant(m)
        BY <1>4, EndsWithIs, Zenon
      <3>2. QED
        BY <1>4, <3>1 DEF H!FlushReasoning
    <2> HIDE DEF own
    <2>3. g \in Seq(ChatMessage) \ {<<>>} /\ CallsWithAssistant(g) /\ LastOpen(g, E)
      <3>1. Range(own.calls) \subseteq E
        BY <2>1 DEF Range
      <3>2. QED
        BY <1>1, <2>1, <3>1, OneMoreMessage DEF Loose
    <2> HIDE DEF g, m, L, f
    <2>4. f \in Draft /\ f.messages = g /\ f.calls = d.calls /\ f.seen = d.seen
      BY DraftFields, <2>2, <2>3, Zenon
    <2>5. QED
      BY <2>3, <2>4 DEF Loose, f
  <1>5. QED
    BY <1>2, <1>3, <1>4

(* More may be open.                                                       *)
LEMMA LooseGrows ==
    ASSUME NEW d, NEW E, NEW F, Loose(d, E), E \subseteq F
    PROVE  Loose(d, F)
  BY DEF Loose, LastOpen

(* A message behind the others, after the calls were flushed.              *)
LEMMA PushLoose ==
    ASSUME NEW d \in Draft, NEW x \in ChatMessage, NEW E, CallsWithAssistant(d.messages),
           LastOpen(d.messages, E) \/ x.role # "tool", x.calls = <<>>, d.calls = <<>>
    PROVE  H!Push(d, x) \in Draft /\ Loose(H!Push(d, x), E)
  <1> DEFINE m == d.messages
             g == Append(m, x)
  <1>1. m \in Seq(ChatMessage) \ {<<>>}
    BY DEF Draft
  <1>2. Range(x.calls) \subseteq E /\ Range(d.calls) \subseteq E
    BY DEF Range
  <1> HIDE DEF m
  <1>3. g \in Seq(ChatMessage) \ {<<>>} /\ CallsWithAssistant(g) /\ LastOpen(g, E)
    BY <1>1, <1>2, OneMoreMessage DEF m
  <1>4. H!Push(d, x) = [d EXCEPT !.messages = g]
    BY DEF H!Push, m
  <1> DEFINE t == H!Push(d, x)
  <1> HIDE DEF g, t
  <1>5. t \in Draft /\ t.messages = g /\ t.calls = d.calls
    <2>1. t = [d EXCEPT !.messages = g]
      BY <1>4 DEF t
    <2>2. QED
      BY <1>3, <2>1, DraftFields, Zenon
  <1>6. QED
    BY <1>2, <1>3, <1>5 DEF Loose, t

(* One item of the history: a message ends what is open, a call opens.     *)
OpenAfter(E, item) ==
    IF item.type = "message" THEN {} ELSE IF item.type = "call" THEN E \cup {item.id} ELSE E

(* An output leaves open what was.                                         *)
LEMMA TakeOutputLoose ==
    ASSUME NEW d \in Draft, NEW item \in ItemsOf, NEW E, Loose(d, E)
    PROVE  H!TakeOutput(d, item) \in Draft /\ Loose(H!TakeOutput(d, item), E)
  <1> DEFINE f == H!FlushCalls(d)
             g == H!FlushReasoning(f)
             marks == <<H!Output(item)>>
             images == IF item.image THEN <<item.at>> ELSE <<>>
  <1>1. item.at \in Nat /\ item.id \in AnyIds /\ item.image \in BOOLEAN
    BY DEF ItemsOf
  <1>2. marks \in Seq(Marks)
    <2>1. H!Output(item) \in Marks
      BY <1>1 DEF H!Output, Marks
    <2>2. QED
      BY <2>1
  <1>3. images \in Seq(Nat)
    BY <1>1
  <1>4. f \in Draft /\ Loose(f, E) /\ f.calls = <<>>
    BY FlushCallsLoose
  <1> HIDE DEF f, marks, images
  <1>5. g \in Draft /\ Loose(g, E) /\ g.calls = <<>>
    BY <1>4, FlushReasoningLoose
  <1> HIDE DEF g
  <1>6. H!ToolMessage(item) \in ChatMessage /\ H!ToolMessage(item).calls = <<>>
    <2> DEFINE b == H!Message("tool", marks)
    <2>1. b \in ChatMessage /\ b.calls = <<>>
      BY <1>2, MessageTyped DEF Roles
    <2>2. H!ToolMessage(item) = [b EXCEPT !.id = item.id, !.images = images]
      BY DEF H!ToolMessage, marks, images
    <2> HIDE DEF b
    <2>3. QED
      BY <1>1, <1>3, <2>1, <2>2, Zenon DEF ChatMessage
  <1>7. /\ H!OrphanOutput(item) \in ChatMessage /\ H!OrphanOutput(item).calls = <<>>
        /\ H!OrphanOutput(item).role = "user"
    <2> DEFINE b == H!Message("user", marks)
    <2>1. b \in ChatMessage /\ b.calls = <<>> /\ b.role = "user"
      BY <1>2, MessageTyped DEF Roles
    <2>2. H!OrphanOutput(item) = [b EXCEPT !.images = images]
      BY DEF H!OrphanOutput, marks, images
    <2> HIDE DEF b
    <2>3. QED
      BY <1>3, <2>1, <2>2, Zenon DEF ChatMessage
  <1>8. CASE item.id \in d.seen
    <2>1. H!TakeOutput(d, item) = H!Push(f, H!ToolMessage(item))
      BY <1>8 DEF H!TakeOutput, f
    <2>2. QED
      BY <1>4, <1>6, <2>1, PushLoose DEF Loose
  <1>9. CASE item.id \notin d.seen
    <2>1. H!TakeOutput(d, item) = H!Push(g, H!OrphanOutput(item))
      BY <1>9 DEF H!TakeOutput, f, g
    <2>2. QED
      BY <1>5, <1>7, <2>1, PushLoose DEF Loose
  <1>10. QED
    BY <1>8, <1>9

(* After a message nothing is open.                                        *)
LEMMA TakeMessageLoose ==
    ASSUME NEW d \in Draft, NEW item \in ItemsOf, NEW E, Loose(d, E), item.role # "tool"
    PROVE  H!TakeMessage(d, item) \in Draft /\ Loose(H!TakeMessage(d, item), {})
  <1> DEFINE f == H!FlushCalls(d)
             g == H!FlushReasoning(f)
             said == H!Message(item.role, <<H!Said(item)>>)
  <1>1. said \in ChatMessage /\ said.role = item.role /\ said.calls = <<>>
    <2>1. item.at \in Nat /\ item.role \in Roles
      BY DEF ItemsOf
    <2>2. H!Said(item) \in Marks
      BY <2>1 DEF H!Said, Marks
    <2>3. <<H!Said(item)>> \in Seq(Marks)
      BY <2>2
    <2>4. QED
      BY <2>1, <2>3, MessageTyped, Zenon
  <1>2. f \in Draft /\ Loose(f, E) /\ f.calls = <<>>
    BY FlushCallsLoose
  <1> HIDE DEF f, said
  <1>3. g \in Draft /\ Loose(g, E) /\ g.calls = <<>>
    BY <1>2, FlushReasoningLoose
  <1> HIDE DEF g
  <1>4. CASE item.role = "assistant"
    <2> DEFINE x == [said EXCEPT !.reasoning = f.reasoning]
               h == Append(f.messages, x)
               t == H!TakeMessage(d, item)
    <2>1. x \in ChatMessage /\ x.role = "assistant" /\ x.calls = <<>>
      <3>1. f.reasoning \in Seq(Nat)
        BY <1>2 DEF Draft
      <3>2. QED
        BY <1>1, <1>4, <3>1, Zenon DEF ChatMessage
    <2>2. t = [f EXCEPT !.messages = h, !.reasoning = <<>>]
      BY <1>4 DEF H!TakeMessage, f, said
    <2> HIDE DEF x
    <2>3. h \in Seq(ChatMessage) \ {<<>>} /\ CallsWithAssistant(h) /\ LastOpen(h, {})
      <3>1. f.messages \in Seq(ChatMessage) \ {<<>>} /\ CallsWithAssistant(f.messages)
        BY <1>2 DEF Draft, Loose
      <3>2. Range(x.calls) \subseteq {}
        BY <2>1 DEF Range
      <3>3. QED
        BY <2>1, <3>1, <3>2, OneMoreMessage, Zenon
    <2> HIDE DEF h, t
    <2>4. t \in Draft /\ t.messages = h /\ t.calls = f.calls
      BY <1>2, <2>2, <2>3, DraftFields, Zenon
    <2>5. QED
      BY <1>2, <2>3, <2>4 DEF Loose, Range, t
  <1>5. CASE item.role # "assistant"
    <2>1. H!TakeMessage(d, item) = H!Push(g, said)
      BY <1>5 DEF H!TakeMessage, f, g, said
    <2>2. QED
      BY <1>1, <1>3, <2>1, PushLoose DEF Loose
  <1>6. QED
    BY <1>4, <1>5

(* An item of the history.                                                 *)
LEMMA TakeLoose ==
    ASSUME NEW d \in Draft, NEW item \in ItemsOf, NEW E, Loose(d, E),
           item.type = "message" => item.role # "tool"
    PROVE  H!Take(d, item) \in Draft /\ Loose(H!Take(d, item), OpenAfter(E, item))
  <1> DEFINE t == H!Take(d, item)
  <1>1. /\ item.type \in {"call", "output", "reasoning", "message"}
        /\ item.id \in AnyIds /\ item.at \in Nat
    BY DEF ItemsOf
  <1>2. /\ d.calls \in Seq(AnyIds) /\ d.reasoning \in Seq(Nat) /\ d.seen \in SUBSET AnyIds
        /\ d.messages \in Seq(ChatMessage) \ {<<>>}
    BY DEF Draft
  <1>3. CASE item.type = "call"
    <2> DEFINE calls == Append(d.calls, item.id)
               seen == d.seen \cup {item.id}
    <2>1. t = [d EXCEPT !.calls = calls, !.seen = seen]
      BY <1>3 DEF H!Take
    <2>2. calls \in Seq(AnyIds) /\ Range(calls) = Range(d.calls) \cup {item.id}
      BY <1>1, <1>2, RangeAppended
    <2>3. seen \in SUBSET AnyIds
      BY <1>1, <1>2
    <2> HIDE DEF t, calls, seen
    <2>4. t \in Draft /\ t.messages = d.messages /\ t.calls = calls
      BY <2>1, <2>2, <2>3, Zenon DEF Draft
    <2>5. OpenAfter(E, item) = E \cup {item.id}
      BY <1>3 DEF OpenAfter
    <2>6. QED
      BY <2>2, <2>4, <2>5 DEF Loose, LastOpen, t
  <1>4. CASE item.type = "output"
    <2>1. t = H!TakeOutput(d, item) /\ OpenAfter(E, item) = E
      BY <1>4 DEF H!Take, OpenAfter
    <2>2. QED
      BY <2>1, TakeOutputLoose
  <1>5. CASE item.type = "reasoning"
    <2> DEFINE thoughts == Append(d.reasoning, item.at)
    <2>1. t = [d EXCEPT !.reasoning = thoughts] /\ OpenAfter(E, item) = E
      BY <1>5 DEF H!Take, OpenAfter
    <2>2. thoughts \in Seq(Nat)
      BY <1>1, <1>2
    <2> HIDE DEF t, thoughts
    <2>3. t \in Draft /\ t.messages = d.messages /\ t.calls = d.calls
      BY <2>1, <2>2, Zenon DEF Draft
    <2>4. QED
      BY <2>1, <2>3 DEF Loose, t
  <1>6. CASE item.type = "message"
    <2>1. t = H!TakeMessage(d, item) /\ OpenAfter(E, item) = {}
      BY <1>6 DEF H!Take, OpenAfter
    <2>2. QED
      BY <1>6, <2>1, TakeMessageLoose
  <1>7. QED
    BY <1>1, <1>3, <1>4, <1>5, <1>6

(* What the app writes: no message of it is a tool's.                      *)
Written == {x \in ItemsOf : x.type = "message" => x.role # "tool"}

(* The loop over some items takes them one after the other.                *)
LEMMA TakeAllUnfolds ==
    ASSUME NEW d \in Draft, Loose(d, AnyIds), NEW new \in Seq(Written)
    PROVE  \E u : /\ H!TakeAll(d, new) = u[Len(new)]
                  /\ u[0] = d
                  /\ \A n \in 1..Len(new) : u[n] = H!Take(u[n - 1], new[n])
  <1> DEFINE N == Len(new)
             V == {x \in Draft : Loose(x, AnyIds)}
             step == [i \in 1..N |-> [x \in V |-> H!Take(x, new[i])]]
  <1>1. N \in Nat /\ d \in V
    OBVIOUS
  <1>2. step \in [1..N -> [V -> V]]
    <2>1. ASSUME NEW i \in 1..N, NEW x \in V PROVE H!Take(x, new[i]) \in V
      <3>1. new[i] \in ItemsOf /\ (new[i].type = "message" => new[i].role # "tool")
        BY DEF Written
      <3>2. H!Take(x, new[i]) \in Draft /\ Loose(H!Take(x, new[i]), OpenAfter(AnyIds, new[i]))
        BY <3>1, TakeLoose
      <3>3. OpenAfter(AnyIds, new[i]) \subseteq AnyIds
        BY <3>1 DEF OpenAfter, ItemsOf
      <3>4. QED
        BY <3>2, <3>3, LooseGrows
    <2> HIDE DEF V
    <2>2. QED
      BY <2>1
  <1> HIDE DEF step, N, V
  <1>3. PICK f : Recurs(f, N, V, d, step)
    BY <1>1, <1>2, Recursion
  <1>4. ASSUME NEW i \in 0..N
        PROVE  f[i] = IF i = 0 THEN d ELSE H!Take(f[i - 1], new[i])
    <2>1. CASE i = 0
      BY <1>3, <2>1 DEF Recurs
    <2>2. CASE i # 0
      <3>1. i \in 1..N /\ i - 1 \in 0..N
        BY <1>1, <2>2
      <3>2. f[i - 1] \in V /\ f[i] = step[i][f[i - 1]]
        BY <1>3, <3>1 DEF Recurs
      <3>3. step[i][f[i - 1]] = H!Take(f[i - 1], new[i])
        BY <3>1, <3>2 DEF step
      <3>4. QED
        BY <2>2, <3>2, <3>3
    <2>3. QED
      BY <2>1, <2>2
  <1>5. f = [n \in 0..N |-> IF n = 0 THEN d ELSE H!Take(f[n - 1], new[n])]
    BY <1>3, <1>4 DEF Recurs
  <1> DEFINE u[n \in 0..N] == IF n = 0 THEN d ELSE H!Take(u[n - 1], new[n])
  <1>6. u = [n \in 0..N |-> IF n = 0 THEN d ELSE H!Take(u[n - 1], new[n])]
    BY <1>5, Zenon
  <1>7. H!TakeAll(d, new) = u[N]
    BY DEF H!TakeAll, N
  <1> HIDE DEF u
  <1>8. \A n \in 0..N : u[n] = IF n = 0 THEN d ELSE H!Take(u[n - 1], new[n])
    BY <1>6, Zenon
  <1>9. 0 \in 0..N /\ \A n \in 1..N : n \in 0..N /\ n # 0
    BY <1>1
  <1>10. u[0] = d
    BY <1>8, <1>9
  <1>11. \A n \in 1..N : u[n] = H!Take(u[n - 1], new[n])
    BY <1>8, <1>9
  <1>12. QED
    BY <1>7, <1>10, <1>11 DEF N

(* The calls that are open after some items, if none but these came.       *)
OpenCalls(s, n) ==
    {s[j].id : j \in {k \in 1..n : /\ s[k].type = "call"
                                   /\ \A i \in (k + 1)..n : s[i].type # "message"}}

(* Every further item leaves no other call open.                           *)
LEMMA OpenCallsGrow ==
    ASSUME NEW s, NEW n \in Nat
    PROVE  OpenAfter(OpenCalls(s, n), s[n + 1]) \subseteq OpenCalls(s, n + 1)
  <1> SUFFICES ASSUME NEW c \in OpenAfter(OpenCalls(s, n), s[n + 1])
               PROVE  c \in OpenCalls(s, n + 1)
    OBVIOUS
  <1>1. s[n + 1].type # "message"
    BY DEF OpenAfter
  <1>2. CASE c \in OpenCalls(s, n)
    <2>1. PICK k \in 1..n : /\ s[k].id = c /\ s[k].type = "call"
                            /\ \A i \in (k + 1)..n : s[i].type # "message"
      BY <1>2 DEF OpenCalls
    <2>2. k \in 1..(n + 1) /\ \A i \in (k + 1)..(n + 1) : i \in (k + 1)..n \/ i = n + 1
      OBVIOUS
    <2>3. \A i \in (k + 1)..(n + 1) : s[i].type # "message"
      BY <1>1, <2>1, <2>2
    <2>4. QED
      BY <2>1, <2>2, <2>3 DEF OpenCalls
  <1>3. CASE c \notin OpenCalls(s, n)
    <2>1. c = s[n + 1].id /\ s[n + 1].type = "call"
      BY <1>3 DEF OpenAfter
    <2>2. n + 1 \in 1..(n + 1) /\ \A i \in ((n + 1) + 1)..(n + 1) : FALSE
      OBVIOUS
    <2>3. QED
      BY <2>1, <2>2 DEF OpenCalls
  <1>4. QED
    BY <1>2, <1>3

(* Only the items up to there count.                                       *)
LEMMA OpenCallsSame ==
    ASSUME NEW s, NEW t, NEW n \in Nat, \A i \in 1..n : s[i] = t[i]
    PROVE  OpenCalls(s, n) = OpenCalls(t, n)
  <1>1. ASSUME NEW k \in 1..n
        PROVE  (\A i \in (k + 1)..n : s[i].type # "message")
               <=> (\A i \in (k + 1)..n : t[i].type # "message")
    <2>1. \A i \in (k + 1)..n : i \in 1..n
      OBVIOUS
    <2>2. QED
      BY <2>1
  <1>2. QED
    BY <1>1 DEF OpenCalls

(* The calls of a history are ids.                                         *)
LEMMA OpenCallsTyped ==
    ASSUME NEW s \in Seq(ItemsOf), NEW n \in 0..Len(s)
    PROVE  OpenCalls(s, n) \subseteq AnyIds
  <1>1. \A k \in 1..n : s[k] \in ItemsOf
    OBVIOUS
  <1>2. QED
    BY <1>1 DEF OpenCalls, ItemsOf

(* After some more items, only the calls they leave open are open.         *)
LEMMA TakeAllLoose ==
    ASSUME NEW d \in Draft, NEW old \in Seq(Written), NEW new \in Seq(Written),
           Loose(d, OpenCalls(old, Len(old)))
    PROVE  /\ H!TakeAll(d, new) \in Draft
           /\ Loose(H!TakeAll(d, new), OpenCalls(old \o new, Len(old) + Len(new)))
  <1> DEFINE s == old \o new
             L == Len(old)
             N == Len(new)
  <1>1. /\ L \in Nat /\ N \in Nat /\ s \in Seq(Written) /\ Len(s) = L + N
        /\ \A i \in 1..L : s[i] = old[i]
        /\ \A n \in 1..N : s[L + n] = new[n] /\ new[n] \in Written
    OBVIOUS
  <1>2. s \in Seq(ItemsOf) /\ old \in Seq(ItemsOf)
    BY <1>1 DEF Written
  <1> HIDE DEF s
  <1>3. OpenCalls(old, L) = OpenCalls(s, L) /\ OpenCalls(old, L) \subseteq AnyIds
    <2>1. L \in 0..Len(old)
      BY <1>1
    <2>2. QED
      BY <1>1, <1>2, <2>1, OpenCallsSame, OpenCallsTyped, Zenon
  <1>4. Loose(d, AnyIds)
    BY <1>3, LooseGrows
  <1>5. PICK u : /\ H!TakeAll(d, new) = u[N]
                 /\ u[0] = d
                 /\ \A n \in 1..N : u[n] = H!Take(u[n - 1], new[n])
    BY <1>4, TakeAllUnfolds
  <1> DEFINE S == {n \in Nat : n <= N => u[n] \in Draft /\ Loose(u[n], OpenCalls(s, L + n))}
  <1>6. 0 \in S
    BY <1>1, <1>3, <1>5
  <1> HIDE DEF L, N
  <1>7. ASSUME NEW n \in Nat, n \in S PROVE n + 1 \in S
    <2> SUFFICES ASSUME n + 1 <= N
                 PROVE  u[n + 1] \in Draft /\ Loose(u[n + 1], OpenCalls(s, L + (n + 1)))
      OBVIOUS
    <2>1. /\ n + 1 \in 1..N /\ (n + 1) - 1 = n /\ L + n \in Nat
          /\ (L + n) + 1 = L + (n + 1)
          /\ u[n] \in Draft /\ Loose(u[n], OpenCalls(s, L + n))
      BY <1>1, <1>7
    <2>2. u[n + 1] = H!Take(u[n], new[n + 1]) /\ s[L + (n + 1)] = new[n + 1]
      BY <1>1, <1>5, <2>1
    <2> DEFINE x == new[n + 1]
    <2>3. x \in ItemsOf /\ (x.type = "message" => x.role # "tool")
      BY <1>1, <2>1, Zenon DEF Written
    <2> HIDE DEF x
    <2>4. /\ H!Take(u[n], x) \in Draft
          /\ Loose(H!Take(u[n], x), OpenAfter(OpenCalls(s, L + n), x))
      BY <2>1, <2>3, TakeLoose
    <2>5. OpenAfter(OpenCalls(s, L + n), x) \subseteq OpenCalls(s, L + (n + 1))
      <3>1. OpenAfter(OpenCalls(s, L + n), s[(L + n) + 1]) \subseteq OpenCalls(s, (L + n) + 1)
        BY <2>1, OpenCallsGrow
      <3>2. QED
        BY <2>1, <2>2, <3>1 DEF x
    <2> DEFINE t == H!Take(u[n], x)
    <2> HIDE DEF t
    <2>6. t \in Draft /\ Loose(t, OpenCalls(s, L + (n + 1)))
      BY <2>4, <2>5, LooseGrows DEF t
    <2>7. QED
      BY <2>2, <2>6 DEF x, t
  <1>8. N \in S
    <2> HIDE DEF S
    <2> QED BY <1>1, <1>6, <1>7, Induction
  <1>9. QED
    BY <1>5, <1>8 DEF L, N, s

(* Message j follows message i with nothing but tools between.             *)
Follows(m, i, j) == j \in (i + 1)..Len(m) /\ \A p \in (i + 1)..j : m[p].role = "tool"

(* The run of tool messages after a message ends.                          *)
LEMMA RunEndIs ==
    ASSUME NEW m \in Seq(ChatMessage), NEW i \in DOMAIN m
    PROVE  /\ H!RunEnd(m, i) \in i..Len(m)
           /\ \A k \in (i + 1)..H!RunEnd(m, i) : m[k].role = "tool"
           /\ H!RunEnd(m, i) = Len(m) \/ m[H!RunEnd(m, i) + 1].role # "tool"
  <1> DEFINE Ends(e) == /\ \A k \in (i + 1)..e : m[k].role = "tool"
                        /\ e = Len(m) \/ m[e + 1].role # "tool"
             L == Len(m)
             S == {n \in Nat : i + n <= L /\ \A k \in (i + 1)..(i + n) : m[k].role = "tool"}
  <1>1. L \in Nat /\ i \in 1..L /\ i \in Nat
    OBVIOUS
  <1> HIDE DEF L
  <1>2. 0 \in S
    <2>1. i + 0 <= L /\ \A k \in (i + 1)..(i + 0) : FALSE
      BY <1>1
    <2>2. QED
      BY <2>1
  <1>3. S \in SUBSET Nat /\ S # {} /\ \A n \in S : n <= L
    BY <1>1, <1>2
  <1>4. PICK n \in S : \A j \in S : j <= n
    <2> HIDE DEF S
    <2> QED BY <1>1, <1>3, Greatest, Zenon
  <1>5. n \in Nat /\ i + n \in i..L /\ \A k \in (i + 1)..(i + n) : m[k].role = "tool"
    BY <1>1, <1>4
  <1>6. i + n = L \/ m[(i + n) + 1].role # "tool"
    <2> SUFFICES ASSUME i + n # L, m[(i + n) + 1].role = "tool" PROVE FALSE
      OBVIOUS
    <2>0. i \in Nat /\ n \in Nat
      BY <1>1, <1>5
    <2>2. ASSUME NEW k \in (i + 1)..(i + (n + 1)) PROVE m[k].role = "tool"
      <3>1. k \in Int /\ i + 1 <= k /\ k <= i + (n + 1)
        BY <2>0
      <3>2. k \in (i + 1)..(i + n) \/ k = (i + n) + 1
        BY <2>0, <3>1
      <3>3. QED
        BY <1>5, <3>2
    <2>3. n + 1 \in Nat /\ i + (n + 1) <= L
      BY <1>1, <1>5
    <2>4. n + 1 \in S
      BY <2>2, <2>3
    <2>5. n + 1 <= n
      BY <1>4, <2>4
    <2>6. QED
      BY <1>5, <2>5
  <1>7. \E e \in i..L : Ends(e)
    BY <1>5, <1>6 DEF L
  <1>8. H!RunEnd(m, i) = CHOOSE e \in i..L : Ends(e)
    BY DEF H!RunEnd, L
  <1> DEFINE e == H!RunEnd(m, i)
  <1>9. e \in i..L /\ Ends(e)
    <2> HIDE DEF Ends
    <2> QED BY <1>7, <1>8
  <1>10. QED
    BY <1>9 DEF L

(* Whatever follows a message before the run ends answers it.              *)
LEMMA AnsweredIs ==
    ASSUME NEW m \in Seq(ChatMessage), NEW i \in DOMAIN m
    PROVE  H!Answered(m, i) = {m[j].id : j \in {k \in DOMAIN m : Follows(m, i, k)}}
  <1> DEFINE e == H!RunEnd(m, i)
  <1>1. /\ e \in i..Len(m) /\ \A k \in (i + 1)..e : m[k].role = "tool"
        /\ e = Len(m) \/ m[e + 1].role # "tool"
    BY RunEndIs
  <1>2. H!Answered(m, i) = {m[k].id : k \in (i + 1)..e}
    BY DEF H!Answered
  <1> HIDE DEF e
  <1> DEFINE L == Len(m)
  <1>3. L \in Nat /\ i \in 1..L /\ DOMAIN m = 1..L
    OBVIOUS
  <1>6. e \in i..L
    BY <1>1
  <1> HIDE DEF L
  <1>7. i \in Nat /\ e \in Nat /\ i <= e /\ e <= L
    BY <1>3, <1>6
  <1>4. ASSUME NEW j \in (i + 1)..e PROVE j \in DOMAIN m /\ Follows(m, i, j)
    <2>1. j \in 1..L /\ j \in (i + 1)..L /\ \A p \in (i + 1)..j : p \in (i + 1)..e
      BY <1>3, <1>7
    <2>2. QED
      BY <1>1, <1>3, <2>1, Zenon DEF Follows, L
  <1>5. ASSUME NEW j \in DOMAIN m, Follows(m, i, j) PROVE j \in (i + 1)..e
    <2>1. j \in (i + 1)..L /\ \A p \in (i + 1)..j : m[p].role = "tool"
      BY <1>5 DEF Follows, L
    <2>2. j > e => e + 1 \in (i + 1)..j /\ e # L
      BY <1>3, <1>7, <2>1
    <2>3. ~(j > e)
      BY <1>1, <2>1, <2>2 DEF L
    <2>4. QED
      BY <1>3, <1>7, <2>1, <2>3
  <1>8. QED
    BY <1>2, <1>4, <1>5

(* Every call of a message is answered, or one of those that may be open.  *)
Settled(m, E) ==
    \A i \in DOMAIN m : \A c \in Range(m[i].calls) :
       c \in E \/ \E j \in DOMAIN m : Follows(m, i, j) /\ m[j].id = c

(* A message for each: whose it is, whom it answers; it makes no new calls. *)
Mirrors(m, o) ==
    /\ DOMAIN o = DOMAIN m /\ Len(o) = Len(m)
    /\ \A i \in DOMAIN m : o[i].role = m[i].role /\ o[i].id = m[i].id

(* The same messages follow.                                               *)
LEMMA MirrorsFollow ==
    ASSUME NEW m \in Seq(ChatMessage), NEW o \in Seq(ChatMessage), Mirrors(m, o),
           NEW i \in DOMAIN m, NEW j \in DOMAIN m
    PROVE  Follows(m, i, j) <=> Follows(o, i, j)
  <1>1. \A p \in (i + 1)..j : p \in DOMAIN m
    OBVIOUS
  <1>2. QED
    BY <1>1, Zenon DEF Follows, Mirrors

(* The pairing drops what was not answered, unless it may still be open.   *)
LEMMA PairCallsSettled ==
    ASSUME NEW m \in Seq(ChatMessage), NEW E, CallsWithAssistant(m), LastOpen(m, E)
    PROVE  /\ H!PairCalls(m) \in Seq(ChatMessage)
           /\ CallsWithAssistant(H!PairCalls(m))
           /\ Settled(H!PairCalls(m), E)
  <1> DEFINE o == H!PairCalls(m)
             L == Len(m)
             Over(i) == m[i].role = "assistant" /\ m[i].calls # <<>> /\ H!RunEnd(m, i) < L
             Stay(i)  == H!Within(m[i].calls, H!Answered(m, i))
             Gone(i)  == H!Without(m[i].calls, H!Answered(m, i))
             Notes(i) == [k \in DOMAIN Gone(i) |-> H!Abandoned(Gone(i)[k])]
             x(i) == [m[i] EXCEPT !.calls = Stay(i), !.text = @ \o Notes(i)]
  <1>1. L \in Nat /\ DOMAIN m = 1..L /\ \A i \in 1..L : m[i] \in ChatMessage
    OBVIOUS
  <1>2. o = [i \in DOMAIN m |-> IF Over(i) THEN x(i) ELSE m[i]]
    BY DEF H!PairCalls
  <1>3. ASSUME NEW i \in 1..L
        PROVE  /\ x(i) \in ChatMessage /\ x(i).role = m[i].role /\ x(i).id = m[i].id
               /\ Range(x(i).calls) \subseteq H!Answered(m, i)
    <2>1. m[i].calls \in Seq(AnyIds) /\ m[i].text \in Seq(Marks) /\ m[i] \in ChatMessage
      BY <1>1, Zenon DEF ChatMessage
    <2> DEFINE kept == Stay(i)
               lost == Gone(i)
               notes == Notes(i)
    <2>2. /\ kept \in Seq(AnyIds) /\ \A y : y \in Range(kept) => y \in H!Answered(m, i)
          /\ lost \in Seq(AnyIds)
      BY <2>1, Sifts
    <2> HIDE DEF kept, lost
    <2>3. notes \in Seq(Marks)
      <3>1. notes = [k \in DOMAIN lost |-> H!Abandoned(lost[k])]
        BY DEF lost
      <3>2. \A k \in 1..Len(lost) : H!Abandoned(lost[k]) \in Marks
        BY <2>2 DEF H!Abandoned, Marks
      <3>3. Len(lost) \in Nat /\ DOMAIN lost = 1..Len(lost)
        BY <2>2
      <3> HIDE DEF notes
      <3>4. notes \in [1..Len(lost) -> Marks]
        BY <3>1, <3>2, <3>3
      <3>5. QED
        BY <3>3, <3>4
    <2>4. x(i) = [m[i] EXCEPT !.calls = kept, !.text = @ \o notes]
      BY DEF kept, lost
    <2> HIDE DEF notes
    <2>5. m[i].text \o notes \in Seq(Marks)
      BY <2>1, <2>3
    <2> DEFINE y == x(i)
    <2> HIDE DEF x, y
    <2>6. y = [m[i] EXCEPT !.calls = kept, !.text = m[i].text \o notes]
      BY <2>4 DEF y
    <2>7. y \in ChatMessage /\ y.role = m[i].role /\ y.id = m[i].id /\ y.calls = kept
      BY <2>1, <2>2, <2>5, <2>6, Zenon DEF ChatMessage
    <2>8. QED
      BY <2>2, <2>7 DEF y
  <1> HIDE DEF x, o, L
  <1>4. o \in Seq(ChatMessage) /\ DOMAIN o = DOMAIN m /\ Len(o) = L
    <2>1. o \in [1..L -> ChatMessage]
      BY <1>1, <1>2, <1>3
    <2>2. QED
      BY <1>1, <2>1
  <1>5. Mirrors(m, o)
    BY <1>1, <1>2, <1>3, <1>4 DEF Mirrors, L
  <1>6. CallsWithAssistant(o)
    <2> SUFFICES ASSUME NEW i \in DOMAIN o, o[i].calls # <<>> PROVE o[i].role = "assistant"
      BY DEF CallsWithAssistant
    <2>1. CASE Over(i)
      BY <1>1, <1>2, <1>3, <1>4, <2>1
    <2>2. CASE ~Over(i)
      BY <1>1, <1>2, <1>4, <2>2 DEF CallsWithAssistant
    <2>3. QED
      BY <2>1, <2>2
  <1>7. ASSUME NEW i \in DOMAIN o, NEW c \in Range(o[i].calls), c \notin E
        PROVE  \E j \in DOMAIN o : Follows(o, i, j) /\ o[j].id = c
    <2>1. i \in 1..L /\ i \in DOMAIN m
      BY <1>1, <1>4
    <2>2. CASE Over(i)
      <3>1. c \in H!Answered(m, i)
        BY <1>2, <1>3, <1>4, <1>7, <2>1, <2>2
      <3>2. PICK j \in DOMAIN m : Follows(m, i, j) /\ m[j].id = c
        BY <2>1, <3>1, AnsweredIs
      <3>3. Follows(o, i, j)
        BY <1>4, <1>5, <2>1, <3>2, MirrorsFollow, Zenon
      <3>4. QED
        BY <1>4, <1>5, <3>2, <3>3 DEF Mirrors
    <2>3. CASE ~Over(i)
      <3>1. c \in Range(m[i].calls) /\ m[i].calls # <<>>
        <4>1. c \in Range(m[i].calls)
          BY <1>2, <1>4, <1>7, <2>1, <2>3
        <4>2. QED
          BY <4>1 DEF Range
      <3>2. m[i].role = "assistant" /\ ~(H!RunEnd(m, i) < L)
        BY <2>1, <2>3, <3>1 DEF CallsWithAssistant
      <3>3. H!RunEnd(m, i) = L /\ \A k \in (i + 1)..L : m[k].role = "tool"
        <4>1. /\ H!RunEnd(m, i) \in i..L
              /\ \A k \in (i + 1)..H!RunEnd(m, i) : m[k].role = "tool"
          BY <2>1, RunEndIs DEF L
        <4>2. H!RunEnd(m, i) = L
          BY <1>1, <2>1, <3>2, <4>1
        <4>3. QED
          BY <4>1, <4>2
      <3>4. QED
        BY <1>7, <2>1, <3>1, <3>3 DEF LastOpen, L
    <2>4. QED
      BY <2>2, <2>3
  <1>8. QED
    BY <1>4, <1>6, <1>7 DEF Settled, o

(* A placeholder for the reasoning changes nothing else.                   *)
LEMMA FillReasoningSettled ==
    ASSUME NEW m \in Seq(ChatMessage), NEW E, CallsWithAssistant(m), Settled(m, E)
    PROVE  /\ H!FillReasoning(m) \in Seq(ChatMessage)
           /\ CallsWithAssistant(H!FillReasoning(m))
           /\ Settled(H!FillReasoning(m), E)
  <1> DEFINE o == H!FillReasoning(m)
             L == Len(m)
  <1>1. L \in Nat /\ DOMAIN m = 1..L /\ \A i \in 1..L : m[i] \in ChatMessage
    OBVIOUS
  <1>2. DOMAIN o = DOMAIN m /\ \A i \in 1..L :
           o[i] = m[i] \/ o[i] = [m[i] EXCEPT !.reasoning = <<H!Placeholder>>]
    BY <1>1 DEF H!FillReasoning
  <1>3. <<H!Placeholder>> \in Seq(Nat)
    BY DEF H!Placeholder
  <1>4. o = [i \in 1..L |-> o[i]]
    BY <1>1 DEF H!FillReasoning
  <1> HIDE DEF o, L
  <1>5. \A i \in 1..L : /\ o[i] \in ChatMessage /\ o[i].role = m[i].role
                        /\ o[i].id = m[i].id /\ o[i].calls = m[i].calls
    <2> SUFFICES ASSUME NEW i \in 1..L
                 PROVE  /\ o[i] \in ChatMessage /\ o[i].role = m[i].role
                        /\ o[i].id = m[i].id /\ o[i].calls = m[i].calls
      OBVIOUS
    <2> DEFINE x == m[i]
               w == [x EXCEPT !.reasoning = <<H!Placeholder>>]
    <2>1. x \in ChatMessage /\ (o[i] = x \/ o[i] = w)
      BY <1>1, <1>2
    <2> HIDE DEF x
    <2>2. w \in ChatMessage /\ w.role = x.role /\ w.id = x.id /\ w.calls = x.calls
      BY <1>3, <2>1 DEF ChatMessage
    <2> HIDE DEF w
    <2>3. QED
      BY <2>1, <2>2 DEF x
  <1>6. o \in Seq(ChatMessage) /\ Len(o) = L
    <2>1. o \in [1..L -> ChatMessage]
      BY <1>4, <1>5
    <2>2. QED
      BY <1>1, <2>1
  <1>7. Mirrors(m, o)
    BY <1>1, <1>2, <1>5, <1>6 DEF Mirrors, L
  <1>8. CallsWithAssistant(o)
    BY <1>1, <1>2, <1>5 DEF CallsWithAssistant
  <1>9. Settled(o, E)
    <2> SUFFICES ASSUME NEW i \in DOMAIN o, NEW c \in Range(o[i].calls), c \notin E
                 PROVE  \E j \in DOMAIN o : Follows(o, i, j) /\ o[j].id = c
      BY DEF Settled
    <2>1. i \in DOMAIN m /\ c \in Range(m[i].calls)
      BY <1>1, <1>2, <1>5
    <2>2. PICK j \in DOMAIN m : Follows(m, i, j) /\ m[j].id = c
      BY <2>1 DEF Settled
    <2>3. Follows(o, i, j)
      BY <1>6, <1>7, <2>1, <2>2, MirrorsFollow
    <2>4. QED
      BY <1>1, <1>2, <1>5, <2>2, <2>3
  <1>10. QED
    BY <1>6, <1>8, <1>9 DEF o

(* Where each of some sequences begins.                                    *)
Offsets(seqs, off) ==
    /\ off \in [0..Len(seqs) -> Nat]
    /\ off[0] = 0
    /\ \A k \in 1..Len(seqs) : off[k] = off[k - 1] + Len(seqs[k])

(* Where the first n of some sequences are in the sequence they make.      *)
Joins(seqs, f, off, n) ==
    /\ Len(f) = off[n]
    /\ \A k \in 1..n : \A j \in 1..Len(seqs[k]) :
          off[k - 1] + j \in 1..Len(f) /\ f[off[k - 1] + j] = seqs[k][j]
    /\ \A p \in 1..Len(f) : \E k \in 1..n : \E j \in 1..Len(seqs[k]) : p = off[k - 1] + j

(* One more sequence is put behind.                                        *)
LEMMA OneMoreJoined ==
    ASSUME NEW T, NEW seqs \in Seq(Seq(T)), NEW f \in Seq(T), NEW n \in Nat,
           n + 1 \in 1..Len(seqs), NEW off \in [0..Len(seqs) -> Nat],
           off[n + 1] = off[n] + Len(seqs[n + 1]), Joins(seqs, f, off, n)
    PROVE  Joins(seqs, f \o seqs[n + 1], off, n + 1)
  <1> DEFINE g == seqs[n + 1]
             h == f \o g
             o == off[n]
             last == n + 1
             G == Len(g)
             F == Len(f)
  <1>1. g \in Seq(T) /\ G \in Nat /\ F \in Nat /\ o = F
    BY DEF Joins
  <1>2. /\ Len(h) = F + G
        /\ \A i \in 1..F : h[i] = f[i]
        /\ \A i \in 1..G : h[F + i] = g[i]
    BY <1>1
  <1>3. /\ last \in Nat /\ last \in 1..last /\ last - 1 = n
        /\ \A k \in 1..last : k = last \/ k \in 1..n
        /\ \A k \in 1..n : k \in 1..last
    <2>1. n + 1 \in Nat /\ n + 1 \in 1..(n + 1) /\ (n + 1) - 1 = n
      OBVIOUS
    <2>2. \A k \in 1..(n + 1) : k = n + 1 \/ k \in 1..n
      OBVIOUS
    <2>3. QED
      BY <2>1, <2>2
  <1>4. off[last] = o + G /\ g = seqs[last]
    OBVIOUS
  <1>5. /\ \A k \in 1..n : \A j \in 1..Len(seqs[k]) :
              off[k - 1] + j \in 1..F /\ f[off[k - 1] + j] = seqs[k][j]
        /\ \A p \in 1..F : \E k \in 1..n : \E j \in 1..Len(seqs[k]) : p = off[k - 1] + j
    BY DEF Joins
  <1> HIDE DEF g, h, o, last, G, F
  <1>6. ASSUME NEW k \in 1..last, NEW j \in 1..Len(seqs[k])
        PROVE  off[k - 1] + j \in 1..Len(h) /\ h[off[k - 1] + j] = seqs[k][j]
    <2>1. CASE k = last
      <3>1. off[k - 1] = F /\ j \in 1..G /\ seqs[k][j] = g[j]
        BY <1>1, <1>3, <1>4, <2>1 DEF o, G
      <3>2. F + j \in 1..Len(h)
        BY <1>1, <1>2, <3>1
      <3>3. QED
        BY <1>2, <3>1, <3>2
    <2>2. CASE k # last
      <3>1. off[k - 1] + j \in 1..F /\ f[off[k - 1] + j] = seqs[k][j]
        BY <1>3, <1>5, <2>2, Zenon
      <3>2. \A i \in 1..F : i \in 1..Len(h)
        BY <1>1, <1>2
      <3>3. QED
        BY <1>2, <3>1, <3>2, Zenon
    <2>3. QED
      BY <2>1, <2>2
  <1>7. ASSUME NEW p \in 1..Len(h)
        PROVE  \E k \in 1..last : \E j \in 1..Len(seqs[k]) : p = off[k - 1] + j
    <2>1. CASE p <= F
      <3>1. p \in 1..F
        BY <1>1, <1>2, <2>1
      <3>2. PICK k \in 1..n : \E j \in 1..Len(seqs[k]) : p = off[k - 1] + j
        BY <1>5, <3>1, Zenon
      <3>3. QED
        BY <1>3, <3>2, Zenon
    <2>2. CASE ~(p <= F)
      <3>1. p - F \in 1..G /\ p = F + (p - F)
        BY <1>1, <1>2, <2>2
      <3>2. p - F \in 1..Len(seqs[last]) /\ off[last - 1] = F
        BY <1>1, <1>3, <1>4, <3>1 DEF G, o
      <3>3. QED
        BY <1>3, <3>1, <3>2, Zenon
    <2>3. QED
      BY <2>1, <2>2
  <1>8. Len(h) = off[last]
    BY <1>1, <1>2, <1>4
  <1>9. Joins(seqs, h, off, last)
    BY <1>6, <1>7, <1>8, Zenon DEF Joins
  <1>10. QED
    BY <1>9 DEF h, g, last

(* FlattenSeq puts each where the ones before it end.                      *)
LEMMA FlattenPlaces ==
    ASSUME NEW T, NEW seqs \in Seq(Seq(T))
    PROVE  \E off : Offsets(seqs, off) /\ Joins(seqs, FlattenSeq(seqs), off, Len(seqs))
  <1> DEFINE lens == [k \in DOMAIN seqs |-> Len(seqs[k])]
             N == Len(seqs)
  <1>1. lens \in Seq(Nat) /\ Len(lens) = N /\ N \in Nat /\ DOMAIN seqs = 1..N
    <2>1. N \in Nat /\ DOMAIN seqs = 1..N /\ \A k \in 1..N : seqs[k] \in Seq(T)
      OBVIOUS
    <2>2. \A k \in 1..N : Len(seqs[k]) \in Nat
      BY <2>1
    <2>3. lens \in [1..N -> Nat]
      BY <2>1, <2>2
    <2>4. QED
      BY <2>1, <2>3
  <1>2. PICK off \in [0..N -> Nat] :
           off[0] = 0 /\ \A n \in 1..N : off[n] = off[n - 1] + lens[n]
    BY <1>1, TotalUnfolds, Zenon
  <1>3. \A n \in 1..N : off[n] = off[n - 1] + Len(seqs[n])
    BY <1>1, <1>2
  <1>7. Offsets(seqs, off)
    BY <1>2, <1>3 DEF Offsets
  <1>4. CASE seqs = <<>>
    <2>1. FlattenSeq(seqs) = <<>> /\ N = 0
      BY <1>4 DEF FlattenSeq
    <2>2. Joins(seqs, FlattenSeq(seqs), off, N)
      BY <1>2, <2>1 DEF Joins
    <2>3. QED
      BY <1>7, <2>2
  <1>5. CASE seqs # <<>>
    <2>1. PICK flat : /\ FlattenSeq(seqs) = flat[N]
                      /\ flat[1] = seqs[1]
                      /\ \A n \in 2..N : flat[n] = flat[n - 1] \o seqs[n]
      BY <1>5, FlattenUnfolds, Zenon
    <2> DEFINE S == {n \in Nat : n + 1 <= N =>
                        flat[n + 1] \in Seq(T) /\ Joins(seqs, flat[n + 1], off, n + 1)}
    <2>2. N # 0 /\ \A k \in 1..N : seqs[k] \in Seq(T)
      BY <1>1, <1>5
    <2> HIDE DEF N
    <2>3. 0 \in S
      <3> SUFFICES ASSUME 0 + 1 <= N
                   PROVE  flat[0 + 1] \in Seq(T) /\ Joins(seqs, flat[0 + 1], off, 0 + 1)
        OBVIOUS
      <3> DEFINE e == <<>>
      <3>1. e \in Seq(T) /\ Joins(seqs, e, off, 0)
        BY <1>2 DEF Joins
      <3>2. 0 + 1 \in 1..N /\ off[0 + 1] = off[0] + Len(seqs[0 + 1])
        <4>1. 0 + 1 \in 1..N /\ (0 + 1) - 1 = 0
          BY <1>1
        <4>2. QED
          BY <1>3, <4>1
      <3>3. Joins(seqs, e \o seqs[0 + 1], off, 0 + 1)
        <4> HIDE DEF e
        <4> QED BY <3>1, <3>2, OneMoreJoined, Zenon DEF N
      <3>4. e \o seqs[0 + 1] = flat[0 + 1] /\ flat[0 + 1] \in Seq(T)
        BY <2>1, <2>2, <3>2
      <3>5. QED
        BY <3>3, <3>4
    <2>4. ASSUME NEW n \in Nat, n \in S PROVE n + 1 \in S
      <3> DEFINE k == n + 1
      <3> SUFFICES ASSUME k + 1 <= N
                   PROVE  flat[k + 1] \in Seq(T) /\ Joins(seqs, flat[k + 1], off, k + 1)
        OBVIOUS
      <3>1. k \in Nat /\ k <= N /\ k + 1 \in 2..N /\ k + 1 \in 1..N /\ (k + 1) - 1 = k
        BY <1>1
      <3>2. flat[k] \in Seq(T) /\ Joins(seqs, flat[k], off, k)
        BY <2>4, <3>1
      <3> HIDE DEF k
      <3>3. flat[k + 1] = flat[k] \o seqs[k + 1] /\ off[k + 1] = off[k] + Len(seqs[k + 1])
        BY <1>3, <2>1, <3>1, Zenon
      <3> DEFINE f == flat[k]
      <3> HIDE DEF f
      <3>4. Joins(seqs, f \o seqs[k + 1], off, k + 1)
        BY <1>2, <3>1, <3>2, <3>3, OneMoreJoined, Zenon DEF N, f
      <3>5. f \o seqs[k + 1] \in Seq(T)
        BY <2>2, <3>1, <3>2 DEF f
      <3>6. QED
        BY <3>3, <3>4, <3>5 DEF f
    <2>5. N - 1 \in S
      <3> HIDE DEF S
      <3>1. N - 1 \in Nat
        BY <1>1, <2>2
      <3>2. QED
        BY <2>3, <2>4, <3>1, Induction, Zenon
    <2>6. (N - 1) + 1 = N
      BY <1>1
    <2>7. Joins(seqs, flat[N], off, N)
      BY <1>1, <2>5, <2>6
    <2>8. QED
      BY <1>7, <2>1, <2>7 DEF N
  <1>6. QED
    BY <1>4, <1>5

(* Each message is replaced by some, of which the first is the message of  *)
(* an assistant or tool again, and nothing comes before a tool's.          *)
Speakers == {"assistant", "tool"}
Spreads(m, seqs) ==
    /\ seqs \in Seq(Seq(ChatMessage)) /\ Len(seqs) = Len(m)
    /\ \A i \in DOMAIN m : m[i].role \in Speakers =>
          /\ seqs[i] # <<>>
          /\ seqs[i][1].role = m[i].role
          /\ seqs[i][1].id = m[i].id
          /\ seqs[i][1].calls = m[i].calls
    /\ \A i \in DOMAIN m : \A j \in DOMAIN seqs[i] :
          seqs[i][j].calls # <<>> => j = 1 /\ m[i].role = "assistant"
    /\ \A i \in DOMAIN m :
          m[i].role \in Speakers /\ i + 1 \in DOMAIN m /\ m[i + 1].role = "tool" =>
             Len(seqs[i]) = 1

(* Then answers still follow their calls at once.                          *)
LEMMA SpreadFollows ==
    ASSUME NEW m \in Seq(ChatMessage), NEW seqs, Spreads(m, seqs),
           NEW off, Offsets(seqs, off),
           Joins(seqs, FlattenSeq(seqs), off, Len(seqs)),
           NEW i \in DOMAIN m, m[i].role = "assistant", NEW t \in DOMAIN m, Follows(m, i, t)
    PROVE  /\ off[t - 1] + 1 \in DOMAIN FlattenSeq(seqs)
           /\ Follows(FlattenSeq(seqs), off[i - 1] + 1, off[t - 1] + 1)
           /\ FlattenSeq(seqs)[off[t - 1] + 1].id = m[t].id
  <1> DEFINE N == Len(m)
             f == FlattenSeq(seqs)
             p == off[i - 1] + 1
  <1>1. /\ N \in Nat /\ DOMAIN m = 1..N /\ Len(seqs) = N /\ DOMAIN seqs = 1..N
        /\ i \in 1..N /\ t \in (i + 1)..N /\ \A q \in (i + 1)..t : m[q].role = "tool"
    BY DEF Spreads, Follows
  <1>2. f \in Seq(ChatMessage) /\ DOMAIN f = 1..Len(f) /\ Len(f) \in Nat
    <2>1. seqs \in Seq(Seq(ChatMessage))
      BY DEF Spreads
    <2>2. f \in Seq(ChatMessage)
      BY <2>1, FlattenHolds, Zenon
    <2>3. QED
      BY <2>2
  <1>3. \A k \in 1..N : \A j \in 1..Len(seqs[k]) :
           off[k - 1] + j \in 1..Len(f) /\ f[off[k - 1] + j] = seqs[k][j]
    BY <1>1 DEF Joins
  <1> HIDE DEF N, f
  <1>0. /\ i \in Nat /\ t \in Nat /\ N \in Nat /\ Len(seqs) = N
        /\ 1 <= i /\ i < t /\ t <= N
    BY <1>1
  <1>4. ASSUME NEW q \in 1..N, m[q].role \in Speakers
        PROVE  /\ off[q - 1] + 1 \in 1..Len(f)
               /\ f[off[q - 1] + 1].role = m[q].role
               /\ f[off[q - 1] + 1].id = m[q].id
    <2>1. seqs[q] # <<>> /\ seqs[q][1].role = m[q].role /\ seqs[q][1].id = m[q].id
      BY <1>1, <1>4, Zenon DEF Spreads
    <2>2. 1 \in 1..Len(seqs[q])
      <3>1. seqs[q] \in Seq(ChatMessage)
        BY <1>1 DEF Spreads
      <3>2. QED
        BY <2>1, <3>1
    <2> DEFINE one == 1
    <2>3. one \in 1..Len(seqs[q]) /\ seqs[q][one].role = m[q].role /\ seqs[q][one].id = m[q].id
      BY <2>1, <2>2
    <2> HIDE DEF one
    <2>4. off[q - 1] + one \in 1..Len(f) /\ f[off[q - 1] + one] = seqs[q][one]
      BY <1>3, <2>3
    <2>5. QED
      BY <2>3, <2>4 DEF one
  <1>5. \A q \in i..t : m[q].role \in Speakers /\ q \in 1..N
    <2> SUFFICES ASSUME NEW q \in i..t PROVE m[q].role \in Speakers /\ q \in 1..N
      OBVIOUS
    <2>1. q = i \/ q \in (i + 1)..t
      BY <1>1
    <2>2. q \in 1..N
      BY <1>1
    <2>3. QED
      BY <1>1, <2>1, <2>2 DEF Speakers
  <1> DEFINE S == {n \in Nat : i + n <= t => off[(i + n) - 1] + 1 = p + n}
  <1>6. 0 \in S
    <2>1. (i + 0) - 1 = i - 1 /\ p \in Nat
      <3>1. i - 1 \in 0..Len(seqs) /\ i \in Nat
        BY <1>0
      <3>2. QED
        BY <3>1 DEF Offsets
    <2>2. QED
      BY <2>1
  <1>7. ASSUME NEW n \in Nat, n \in S PROVE n + 1 \in S
    <2> SUFFICES ASSUME i + (n + 1) <= t PROVE off[(i + (n + 1)) - 1] + 1 = p + (n + 1)
      OBVIOUS
    <2> DEFINE q == i + n
    <2>1. /\ q \in i..t /\ q \in 1..N /\ q + 1 \in (i + 1)..t /\ q + 1 \in 1..N
          /\ (i + (n + 1)) - 1 = q
          /\ q - 1 \in 0..Len(seqs) /\ q \in 0..Len(seqs) /\ i - 1 \in 0..Len(seqs)
      BY <1>0
    <2>2. off[q - 1] + 1 = p + n
      BY <1>1, <1>7, <2>1
    <2> HIDE DEF q
    <2>3. Len(seqs[q]) = 1
      BY <1>1, <1>5, <2>1, Zenon DEF Spreads
    <2>4. off[q] = off[q - 1] + Len(seqs[q])
      BY <1>1, <2>1 DEF Offsets
    <2>5. off[q] \in Nat /\ off[q - 1] \in Nat /\ p \in Nat
      <3>1. \A k \in 0..Len(seqs) : off[k] \in Nat
        BY DEF Offsets
      <3>2. off[q] \in Nat /\ off[q - 1] \in Nat /\ off[i - 1] \in Nat
        BY <2>1, <3>1
      <3>3. QED
        BY <3>2
    <2> HIDE DEF p
    <2>6. off[q] + 1 = p + (n + 1)
      BY <2>2, <2>3, <2>4, <2>5
    <2>7. QED
      BY <2>1, <2>6
  <1>8. \A n \in Nat : n \in S
    <2> HIDE DEF S
    <2> QED BY <1>6, <1>7, Induction, Zenon
  <1>9. \A q \in i..t : off[q - 1] + 1 = p + (q - i)
    <2> SUFFICES ASSUME NEW q \in i..t PROVE off[q - 1] + 1 = p + (q - i)
      OBVIOUS
    <2>1. q - i \in Nat /\ i + (q - i) = q /\ q <= t
      BY <1>0
    <2>2. QED
      BY <1>8, <2>1
  <1>10. p \in Nat
    <2>1. i - 1 \in 0..Len(seqs)
      BY <1>0
    <2>2. QED
      BY <2>1 DEF Offsets
  <1> DEFINE r == off[t - 1] + 1
  <1>11. r = p + (t - i) /\ r \in 1..Len(f) /\ f[r].id = m[t].id
    <2>1. t \in i..t
      BY <1>1
    <2>2. QED
      BY <1>4, <1>5, <1>9, <2>1, Zenon
  <1> HIDE DEF p, S, r
  <1>12. r \in (p + 1)..Len(f)
    BY <1>1, <1>2, <1>10, <1>11
  <1>13. ASSUME NEW u \in (p + 1)..r PROVE f[u].role = "tool"
    <2> DEFINE q == i + (u - p)
    <2>1. q \in (i + 1)..t /\ q \in i..t /\ q - i = u - p /\ u = p + (q - i)
      <3>1. r = p + (t - i)
        BY <1>11
      <3>2. /\ i \in Int /\ t \in Int /\ p \in Int /\ u \in Int
            /\ p + 1 <= u /\ u <= p + (t - i) /\ i <= t
        BY <1>0, <1>10, <3>1
      <3>3. QED
        BY <3>2
    <2> HIDE DEF q
    <2>2. m[q].role = "tool" /\ off[q - 1] + 1 = u
      BY <1>1, <1>9, <2>1
    <2>3. QED
      BY <1>4, <1>5, <2>1, <2>2, Zenon
  <1>14. QED
    BY <1>2, <1>11, <1>12, <1>13, Zenon DEF Follows, f, p, r

(* Messages spread over several, none lost or moved past another, are      *)
(* settled as before.                                                      *)
LEMMA SpreadSettled ==
    ASSUME NEW m \in Seq(ChatMessage), NEW seqs, Spreads(m, seqs), NEW E,
           CallsWithAssistant(m), Settled(m, E)
    PROVE  /\ FlattenSeq(seqs) \in Seq(ChatMessage)
           /\ CallsWithAssistant(FlattenSeq(seqs))
           /\ Settled(FlattenSeq(seqs), E)
  <1> DEFINE f == FlattenSeq(seqs)
             N == Len(m)
  <1>1. seqs \in Seq(Seq(ChatMessage)) /\ N \in Nat /\ DOMAIN m = 1..N /\ Len(seqs) = N
    BY DEF Spreads
  <1>2. f \in Seq(ChatMessage) /\ DOMAIN f = 1..Len(f)
    <2>1. f \in Seq(ChatMessage)
      BY <1>1, FlattenHolds, Zenon
    <2>2. QED
      BY <2>1
  <1>3. PICK off : Offsets(seqs, off) /\ Joins(seqs, f, off, Len(seqs))
    BY <1>1, FlattenPlaces
  <1> HIDE DEF N
  <1>4. ASSUME NEW p \in DOMAIN f, f[p].calls # <<>>
        PROVE  \E i \in DOMAIN m : /\ m[i].role = "assistant" /\ p = off[i - 1] + 1
                                   /\ f[p].role = m[i].role /\ f[p].calls = m[i].calls
    <2>1. PICK i \in 1..N : \E j \in 1..Len(seqs[i]) : p = off[i - 1] + j
      BY <1>1, <1>2, <1>3, Zenon DEF Joins
    <2>2. PICK j \in 1..Len(seqs[i]) : p = off[i - 1] + j
      BY <2>1
    <2>3. f[p] = seqs[i][j]
      BY <1>1, <1>3, <2>2, Zenon DEF Joins
    <2>4. j \in DOMAIN seqs[i]
      <3>1. seqs[i] \in Seq(ChatMessage)
        BY <1>1
      <3>2. QED
        BY <3>1
    <2>5. j = 1 /\ m[i].role = "assistant"
      BY <1>1, <1>4, <2>3, <2>4, Zenon DEF Spreads
    <2>6. seqs[i][1].role = m[i].role /\ seqs[i][1].calls = m[i].calls
      BY <1>1, <2>5, Zenon DEF Spreads, Speakers
    <2>7. QED
      BY <1>1, <2>2, <2>3, <2>5, <2>6, Zenon
  <1>5. CallsWithAssistant(f)
    BY <1>4 DEF CallsWithAssistant
  <1>6. ASSUME NEW p \in DOMAIN f, NEW c \in Range(f[p].calls), c \notin E
        PROVE  \E j \in DOMAIN f : Follows(f, p, j) /\ f[j].id = c
    <2>1. f[p].calls # <<>>
      BY <1>6 DEF Range
    <2>2. PICK i \in DOMAIN m : /\ m[i].role = "assistant" /\ p = off[i - 1] + 1
                                /\ f[p].calls = m[i].calls
      BY <1>4, <2>1
    <2>3. PICK t \in DOMAIN m : Follows(m, i, t) /\ m[t].id = c
      BY <1>6, <2>2 DEF Settled
    <2>4. /\ off[t - 1] + 1 \in DOMAIN f
          /\ Follows(f, off[i - 1] + 1, off[t - 1] + 1)
          /\ f[off[t - 1] + 1].id = m[t].id
      BY <1>3, <2>2, <2>3, SpreadFollows
    <2>5. QED
      BY <2>2, <2>3, <2>4
  <1>7. Settled(f, E)
    BY <1>6 DEF Settled
  <1>8. QED
    BY <1>2, <1>5, <1>7

(* The run of tool messages a message is in has a first one.               *)
RunStarts(m, i, b) ==
    /\ \A k \in b..i : m[k].role = "tool"
    /\ b = 1 \/ ~(m[b - 1].role = "tool")

(* Whoever answers is in a run of tool messages, and that run has a first. *)
LEMMA RunStartsIn ==
    ASSUME NEW m \in Seq(ChatMessage), NEW i \in DOMAIN m, m[i].role = "tool"
    PROVE  \E b \in 1..i : RunStarts(m, i, b)
  <1> DEFINE S == {n \in Nat : n < i /\ \A k \in (i - n)..i : m[k].role = "tool"}
  <1>1. i \in Nat /\ 1 <= i
    OBVIOUS
  <1>2. 0 \in S
    <2>1. \A k \in (i - 0)..i : k = i
      BY <1>1
    <2>2. QED
      BY <1>1, <2>1
  <1>3. S \in SUBSET Nat /\ S # {} /\ \A n \in S : n <= i
    BY <1>1, <1>2
  <1>4. PICK n \in S : \A j \in S : j <= n
    <2> HIDE DEF S
    <2> QED BY <1>1, <1>3, Greatest, Zenon
  <1> DEFINE b == i - n
  <1>5. n \in Nat /\ n < i /\ \A k \in b..i : m[k].role = "tool"
    BY <1>4
  <1>6. b \in 1..i
    BY <1>1, <1>5
  <1>7. ASSUME b # 1, m[b - 1].role = "tool" PROVE FALSE
    <2>1. n + 1 \in Nat /\ n + 1 < i /\ i - (n + 1) = b - 1
      BY <1>1, <1>5, <1>7
    <2>2. ASSUME NEW k \in (b - 1)..i PROVE m[k].role = "tool"
      <3>1. k \in Int /\ b \in Int /\ b - 1 <= k /\ k <= i
        BY <1>1, <1>6
      <3>2. k \in b..i \/ k = b - 1
        BY <1>1, <3>1
      <3>3. QED
        BY <1>5, <1>7, <3>2
    <2>3. n + 1 \in S
      BY <2>1, <2>2
    <2>4. n + 1 <= n
      BY <1>4, <2>3
    <2>5. QED
      BY <1>5, <2>4
  <1>8. QED
    BY <1>5, <1>6, <1>7 DEF RunStarts

(* One message, or two.                                                    *)
LEMMA OneOrTwo ==
    ASSUME NEW T, NEW x \in T, NEW y \in T
    PROVE  /\ <<x>> \o <<>> \in Seq(T) /\ <<x>> \o <<>> # <<>>
           /\ (<<x>> \o <<>>)[1] = x /\ Len(<<x>> \o <<>>) = 1
           /\ <<x>> \o <<y>> \in Seq(T) /\ <<x>> \o <<y>> # <<>>
           /\ (<<x>> \o <<y>>)[1] = x /\ (<<x>> \o <<y>>)[2] = y
           /\ Len(<<x>> \o <<y>>) = 2
  <1>1. <<x>> \in Seq(T) /\ <<y>> \in Seq(T) /\ <<>> \in Seq(T) /\ Len(<<x>>) = 1
        /\ Len(<<y>>) = 1
    OBVIOUS
  <1>2. <<x>> \o <<>> = <<x>>
    BY <1>1
  <1>3. Len(<<x>> \o <<y>>) = 2 /\ <<x>> \o <<y>> \in Seq(T)
    BY <1>1
  <1>4. (<<x>> \o <<y>>)[1] = x /\ (<<x>> \o <<y>>)[2] = y
    BY <1>1
  <1>5. QED
    BY <1>1, <1>2, <1>3, <1>4

(* The images of a run of tool messages follow it as words of the user.    *)
LEMMA MoveImagesSettled ==
    ASSUME NEW m \in Seq(ChatMessage), NEW E, CallsWithAssistant(m), Settled(m, E)
    PROVE  /\ H!MoveImages(m) \in Seq(ChatMessage)
           /\ CallsWithAssistant(H!MoveImages(m))
           /\ Settled(H!MoveImages(m), E)
  <1> DEFINE InRun(i)  == m[i].role = "tool"
             Closes(i) == InRun(i) /\ (i = Len(m) \/ ~InRun(i + 1))
             Begins(i) == CHOOSE b \in 1..i :
                              (\A k \in b..i : InRun(k)) /\ (b = 1 \/ ~InRun(b - 1))
             Taken(i) == [k \in 1..(i - Begins(i) + 1) |-> m[Begins(i) + k - 1].images]
             Imgs(i)  == H!FlattenSeq(Taken(i))
             Told1(i)  == IF InRun(i) THEN [m[i] EXCEPT !.images = <<>>] ELSE m[i]
             Mine(i) == [H!Message("user", <<>>) EXCEPT !.images = Imgs(i)]
             Then(i)  == IF Closes(i) /\ Imgs(i) # <<>> THEN <<Mine(i)>> ELSE <<>>
             Piece(i) == <<Told1(i)>> \o Then(i)
             seqs == [i \in DOMAIN m |-> Piece(i)]
             N == Len(m)
  <1>1. H!MoveImages(m) = FlattenSeq(seqs)
    <2>1. H!MoveImages(m) = H!FlattenSeq(seqs)
      BY DEF H!MoveImages
    <2> HIDE DEF seqs
    <2>2. QED
      BY <2>1, SameFlatten
  <1>2. N \in Nat /\ DOMAIN m = 1..N /\ \A i \in 1..N : m[i] \in ChatMessage
    OBVIOUS
  <1>3. ASSUME NEW i \in 1..N, InRun(i) PROVE Imgs(i) \in Seq(Nat)
    <2> DEFINE b == Begins(i)
               n == i - b + 1
    <2>1. b \in 1..i /\ \A k \in b..i : InRun(k)
      <3>1. \E x \in 1..i : (\A k \in x..i : InRun(k)) /\ (x = 1 \/ ~InRun(x - 1))
        BY <1>2, <1>3, RunStartsIn, Zenon DEF RunStarts
      <3>2. QED
        BY <3>1, Zenon
    <2> HIDE DEF b
    <2>2. Taken(i) = [k \in 1..n |-> m[b + k - 1].images]
      BY DEF b
    <2>3. i \in Nat /\ i <= N /\ b \in Nat /\ 1 <= b /\ b <= i
      BY <1>2, <2>1
    <2>4. ASSUME NEW k \in 1..n PROVE m[b + k - 1].images \in Seq(Nat)
      <3>1. b + k - 1 \in 1..N
        BY <1>2, <2>3
      <3>2. QED
        BY <1>2, <3>1 DEF ChatMessage
    <2> DEFINE t == Taken(i)
    <2> HIDE DEF Taken
    <2>5. n \in Nat
      BY <2>3
    <2> HIDE DEF n
    <2>6. t \in [1..n -> Seq(Nat)]
      BY <2>2, <2>4
    <2>7. t \in Seq(Seq(Nat))
      BY <2>5, <2>6
    <2>8. FlattenSeq(t) \in Seq(Nat) /\ H!FlattenSeq(t) = FlattenSeq(t)
      BY <2>7, FlattenHolds, SameFlatten, Zenon
    <2>9. QED
      BY <2>8 DEF t
  <1>4. \A i \in 1..N : /\ Told1(i) \in ChatMessage /\ Told1(i).role = m[i].role
                        /\ Told1(i).id = m[i].id /\ Told1(i).calls = m[i].calls
    <2>1. <<>> \in Seq(Nat)
      OBVIOUS
    <2>2. QED
      BY <1>2, <2>1, Zenon DEF ChatMessage
  <1>5. ASSUME NEW i \in 1..N, InRun(i)
        PROVE  Mine(i) \in ChatMessage /\ Mine(i).calls = <<>>
    <2> DEFINE u == H!Message("user", <<>>)
               g == Imgs(i)
    <2>1. u \in ChatMessage /\ u.calls = <<>>
      <3>1. <<>> \in Seq(Marks)
        OBVIOUS
      <3>2. QED
        BY <3>1, MessageTyped, Zenon DEF Roles
    <2>2. g \in Seq(Nat)
      BY <1>3, <1>5
    <2>3. Mine(i) = [u EXCEPT !.images = g]
      BY Zenon
    <2> HIDE DEF u, Imgs
    <2> HIDE DEF Mine, g
    <2>4. QED
      BY <2>1, <2>2, <2>3, Zenon DEF ChatMessage
  <1> DEFINE more(i) == Closes(i) /\ Imgs(i) # <<>>
  <1>6. ASSUME NEW i \in 1..N
        PROVE  /\ Piece(i) \in Seq(ChatMessage) /\ Piece(i) # <<>> /\ Piece(i)[1] = Told1(i)
               /\ ~more(i) => Len(Piece(i)) = 1
               /\ more(i) => Len(Piece(i)) = 2 /\ Piece(i)[2] = Mine(i)
    <2> DEFINE x == Told1(i)
               y == Mine(i)
    <2>1. x \in ChatMessage /\ (more(i) => y \in ChatMessage)
      BY <1>4, <1>5, Zenon
    <2>2. Piece(i) = <<x>> \o (IF more(i) THEN <<y>> ELSE <<>>)
      OBVIOUS
    <2> DEFINE q == Piece(i)
               also == more(i)
    <2>3. q = <<x>> \o (IF also THEN <<y>> ELSE <<>>)
      BY <2>2
    <2> HIDE DEF x, y, also, q
    <2>4. CASE also
      <3>1. q = <<x>> \o <<y>> /\ y \in ChatMessage
        BY <2>1, <2>3, <2>4 DEF also
      <3>2. /\ q \in Seq(ChatMessage) /\ q # <<>> /\ q[1] = x /\ Len(q) = 2 /\ q[2] = y
        <4>1. /\ <<x>> \o <<y>> \in Seq(ChatMessage) /\ <<x>> \o <<y>> # <<>>
              /\ (<<x>> \o <<y>>)[1] = x /\ (<<x>> \o <<y>>)[2] = y
              /\ Len(<<x>> \o <<y>>) = 2
          <5>1. x \in ChatMessage /\ y \in ChatMessage
            BY <2>1, <3>1
          <5>2. QED
            BY <5>1, OneOrTwo
        <4>2. QED
          BY <3>1, <4>1
      <3>3. QED
        BY <2>4, <3>2, Zenon DEF also, q, x, y
    <2>5. CASE ~also
      <3>1. q = <<x>> \o <<>>
        BY <2>3, <2>5
      <3>2. q \in Seq(ChatMessage) /\ q # <<>> /\ q[1] = x /\ Len(q) = 1
        BY <2>1, <3>1, OneOrTwo
      <3>3. QED
        BY <2>5, <3>2 DEF also, q, x, y
    <2>6. QED
      BY <2>4, <2>5
  <1>7. \A i \in 1..N : more(i) => InRun(i) /\ (i = N \/ ~InRun(i + 1))
    OBVIOUS
  <1> HIDE DEF Told1, Mine, more, Piece, N, Imgs, Closes
  <1>8. seqs = [i \in 1..N |-> Piece(i)]
    BY <1>2
  <1>9. \A i \in 1..N : seqs[i] \in Seq(ChatMessage)
    BY <1>6, <1>8
  <1>10. seqs \in Seq(Seq(ChatMessage)) /\ Len(seqs) = N
    <2>1. seqs \in [1..N -> Seq(ChatMessage)]
      BY <1>8, <1>9
    <2>2. QED
      BY <1>2, <2>1
  <1>11. \A i \in 1..N :
           /\ seqs[i] # <<>> /\ seqs[i][1] = Told1(i)
           /\ ~more(i) => Len(seqs[i]) = 1
           /\ more(i) => Len(seqs[i]) = 2 /\ seqs[i][2] = Mine(i)
    BY <1>6, <1>8
  <1> HIDE DEF seqs
  <1>12. ASSUME NEW i \in 1..N, NEW j \in DOMAIN seqs[i], seqs[i][j].calls # <<>>
         PROVE  j = 1 /\ m[i].role = "assistant"
    <2>1. DOMAIN seqs[i] = 1..Len(seqs[i])
      BY <1>9
    <2>2. j = 1
      <3>1. CASE more(i)
        <4>1. Mine(i).calls = <<>>
          BY <1>5, <1>7, <3>1
        <4>2. j \in 1..2
          BY <1>11, <2>1, <3>1, Zenon
        <4>3. j # 2
          BY <1>11, <1>12, <3>1, <4>1
        <4>4. QED
          BY <4>2, <4>3
      <3>2. CASE ~more(i)
        <4>1. j \in 1..1
          BY <1>11, <2>1, <3>2
        <4>2. QED
          BY <4>1
      <3>3. QED
        BY <3>1, <3>2
    <2>3. seqs[i][j] = Told1(i)
      BY <1>11, <2>2
    <2>4. m[i].calls # <<>>
      BY <1>4, <1>12, <2>3
    <2>5. QED
      BY <1>2, <2>2, <2>4 DEF CallsWithAssistant
  <1>13. ASSUME NEW i \in 1..N, m[i].role \in Speakers, i + 1 \in 1..N, m[i + 1].role = "tool"
         PROVE  Len(seqs[i]) = 1
    <2>1. i # N
      BY <1>2, <1>13
    <2>2. QED
      BY <1>7, <1>11, <1>13, <2>1
  <1>14. Spreads(m, seqs)
    BY <1>2, <1>4, <1>10, <1>11, <1>12, <1>13 DEF Spreads, N
  <1>15. QED
    BY <1>1, <1>14, SpreadSettled

(* What follows the head is spread likewise: no system message is spoken.  *)
Others(m) == [i \in DOMAIN m |-> IF m[i].role = "system" THEN <<>> ELSE <<m[i]>>]

(* Without what the system said, the messages are settled as before.       *)
LEMMA RestSettled ==
    ASSUME NEW m \in Seq(ChatMessage), NEW E, CallsWithAssistant(m), Settled(m, E)
    PROVE  /\ FlattenSeq(Others(m)) \in Seq(ChatMessage)
           /\ CallsWithAssistant(FlattenSeq(Others(m)))
           /\ Settled(FlattenSeq(Others(m)), E)
  <1> DEFINE N == Len(m)
             seqs == Others(m)
  <1>1. N \in Nat /\ DOMAIN m = 1..N /\ \A i \in 1..N : m[i] \in ChatMessage
    OBVIOUS
  <1>9. seqs = [i \in 1..N |-> IF m[i].role = "system" THEN <<>> ELSE <<m[i]>>]
    BY <1>1 DEF Others
  <1> HIDE DEF N, seqs
  <1>2. \A i \in 1..N : seqs[i] \in Seq(ChatMessage)
    <2> SUFFICES ASSUME NEW i \in 1..N PROVE seqs[i] \in Seq(ChatMessage)
      OBVIOUS
    <2>1. <<>> \in Seq(ChatMessage) /\ <<m[i]>> \in Seq(ChatMessage)
      BY <1>1
    <2>2. seqs[i] = <<>> \/ seqs[i] = <<m[i]>>
      BY <1>9
    <2>3. QED
      BY <2>1, <2>2, Zenon
  <1>3. seqs \in Seq(Seq(ChatMessage)) /\ Len(seqs) = N
    <2>1. seqs \in [1..N -> Seq(ChatMessage)]
      BY <1>2, <1>9
    <2>2. QED
      BY <1>1, <2>1
  <1>4. \A i \in 1..N : m[i].role \in Speakers => seqs[i] = <<m[i]>>
    BY <1>9 DEF Speakers
  <1>5. \A i \in 1..N : m[i].role \in Speakers =>
           seqs[i] # <<>> /\ seqs[i][1] = m[i] /\ Len(seqs[i]) = 1
    <2>1. \A i \in 1..N : <<m[i]>> # <<>> /\ <<m[i]>>[1] = m[i] /\ Len(<<m[i]>>) = 1
      OBVIOUS
    <2>2. QED
      BY <1>4, <2>1, Zenon
  <1>6. ASSUME NEW i \in 1..N, NEW j \in DOMAIN seqs[i], seqs[i][j].calls # <<>>
        PROVE  j = 1 /\ m[i].role = "assistant"
    <2>1. CASE m[i].role = "system"
      <3>1. seqs[i] = <<>>
        BY <1>9, <2>1
      <3>2. QED
        BY <3>1
    <2>2. CASE m[i].role # "system"
      <3>1. seqs[i] = <<m[i]>>
        BY <1>9, <2>2
      <3>2. j = 1 /\ seqs[i][j] = m[i]
        BY <3>1
      <3>3. QED
        BY <1>1, <1>6, <3>2 DEF CallsWithAssistant
    <2>3. QED
      BY <2>1, <2>2
  <1>7. Spreads(m, seqs)
    BY <1>1, <1>3, <1>5, <1>6 DEF Spreads, N
  <1>8. QED
    BY <1>7, SpreadSettled DEF seqs

(* One message before the others.                                          *)
LEMMA HeadSettled ==
    ASSUME NEW m \in Seq(ChatMessage), NEW E, CallsWithAssistant(m), Settled(m, E),
           NEW x \in ChatMessage, x.calls = <<>>
    PROVE  /\ <<x>> \o m \in Seq(ChatMessage)
           /\ CallsWithAssistant(<<x>> \o m)
           /\ Settled(<<x>> \o m, E)
  <1> DEFINE o == <<x>> \o m
             N == Len(m)
  <1>1. /\ N \in Nat /\ DOMAIN m = 1..N /\ o \in Seq(ChatMessage)
        /\ Len(o) = N + 1 /\ DOMAIN o = 1..(N + 1) /\ o[1] = x
    OBVIOUS
  <1>2. \A i \in 1..N : o[i + 1] = m[i]
    OBVIOUS
  <1>8. \A i \in 1..(N + 1) : i = 1 \/ (i - 1 \in 1..N /\ i = (i - 1) + 1)
    BY <1>1
  <1> HIDE DEF o, N
  <1>3. CallsWithAssistant(o)
    <2> SUFFICES ASSUME NEW i \in DOMAIN o, o[i].calls # <<>> PROVE o[i].role = "assistant"
      BY DEF CallsWithAssistant
    <2>1. i # 1
      BY <1>1
    <2>2. i - 1 \in 1..N /\ o[i] = m[i - 1]
      BY <1>1, <1>2, <1>8, <2>1
    <2>3. QED
      BY <1>1, <2>2 DEF CallsWithAssistant
  <1>4. ASSUME NEW i \in DOMAIN o, NEW c \in Range(o[i].calls), c \notin E
        PROVE  \E j \in DOMAIN o : Follows(o, i, j) /\ o[j].id = c
    <2>1. i # 1
      BY <1>1, <1>4 DEF Range
    <2> DEFINE h == i - 1
    <2>2. h \in 1..N /\ o[i] = m[h] /\ i = h + 1
      BY <1>1, <1>2, <1>8, <2>1
    <2> HIDE DEF h
    <2>3. PICK j \in DOMAIN m : Follows(m, h, j) /\ m[j].id = c
      BY <1>1, <1>4, <2>2 DEF Settled
    <2>4. j \in (h + 1)..N /\ \A p \in (h + 1)..j : m[p].role = "tool"
      BY <2>3 DEF Follows, N
    <2>5. h \in Nat /\ j \in Nat /\ 1 <= h /\ h < j /\ j <= N
      BY <1>1, <2>2, <2>4
    <2>6. j + 1 \in (i + 1)..(N + 1) /\ j + 1 \in 1..(N + 1)
      BY <1>1, <2>2, <2>5
    <2>7. ASSUME NEW p \in (i + 1)..(j + 1) PROVE o[p].role = "tool"
      <3>1. p - 1 \in (h + 1)..j /\ p - 1 \in 1..N /\ p = (p - 1) + 1
        BY <1>1, <2>2, <2>5
      <3>2. QED
        BY <1>2, <2>4, <3>1
    <2>8. o[j + 1].id = c
      BY <1>1, <1>2, <2>3
    <2>9. QED
      BY <1>1, <2>6, <2>7, <2>8, Zenon DEF Follows
  <1>5. QED
    BY <1>1, <1>3, <1>4 DEF Settled, o

(* What the system said goes to the head.                                  *)
LEMMA CollapseSystemSettled ==
    ASSUME NEW m \in Seq(ChatMessage), NEW E, CallsWithAssistant(m), Settled(m, E)
    PROVE  /\ H!CollapseSystem(m) \in Seq(ChatMessage)
           /\ CallsWithAssistant(H!CollapseSystem(m))
           /\ Settled(H!CollapseSystem(m), E)
  <1> DEFINE spoken == [i \in DOMAIN m |-> IF m[i].role = "system" THEN m[i].text ELSE <<>>]
             seqs == Others(m)
             texts == FlattenSeq(spoken)
             rest == FlattenSeq(seqs)
             x == H!Message("system", texts)
  <1>1. texts \in Seq(Marks)
    <2>1. /\ DOMAIN m = 1..Len(m) /\ Len(m) \in Nat /\ <<>> \in Seq(Marks)
          /\ \A i \in 1..Len(m) : m[i] \in ChatMessage
      OBVIOUS
    <2>2. \A i \in 1..Len(m) : m[i].text \in Seq(Marks)
      BY <2>1 DEF ChatMessage
    <2>3. spoken \in [1..Len(m) -> Seq(Marks)]
      BY <2>1, <2>2
    <2>4. spoken \in Seq(Seq(Marks))
      BY <2>1, <2>3
    <2> HIDE DEF spoken
    <2>5. QED
      BY <2>4, FlattenHolds, Zenon
  <1>2. rest \in Seq(ChatMessage) /\ CallsWithAssistant(rest) /\ Settled(rest, E)
    BY RestSettled
  <1>3. H!CollapseSystem(m) = <<x>> \o rest
    BY SameFlatten DEF H!CollapseSystem, Others
  <1> HIDE DEF texts, rest
  <1>4. x \in ChatMessage /\ x.calls = <<>>
    BY <1>1, MessageTyped DEF Roles
  <1> HIDE DEF x
  <1>5. QED
    BY <1>2, <1>3, <1>4, HeadSettled

(* All of it.                                                              *)
LEMMA ChatMessagesSettled ==
    ASSUME NEW d \in Draft, NEW E, Loose(d, E)
    PROVE  /\ H!ChatMessages(d) \in Seq(ChatMessage)
           /\ Settled(H!ChatMessages(d), E)
  <1> DEFINE c == H!FlushCalls(d)
             r == H!FlushReasoning(c)
             m == r.messages
             p == H!PairCalls(m)
             i == H!MoveImages(p)
             f == H!FillReasoning(i)
  <1>1. c \in Draft /\ Loose(c, E)
    BY FlushCallsLoose
  <1> HIDE DEF c
  <1>2. r \in Draft /\ Loose(r, E)
    BY <1>1, FlushReasoningLoose
  <1>3. m \in Seq(ChatMessage) /\ CallsWithAssistant(m) /\ LastOpen(m, E)
    BY <1>2 DEF Draft, Loose
  <1>4. H!Folded(d) = m
    BY DEF H!Folded, c
  <1> HIDE DEF r, m
  <1>5. p \in Seq(ChatMessage) /\ CallsWithAssistant(p) /\ Settled(p, E)
    BY <1>3, PairCallsSettled
  <1> HIDE DEF p
  <1>6. i \in Seq(ChatMessage) /\ CallsWithAssistant(i) /\ Settled(i, E)
    BY <1>5, MoveImagesSettled
  <1> HIDE DEF i
  <1>7. f \in Seq(ChatMessage) /\ CallsWithAssistant(f) /\ Settled(f, E)
    BY <1>6, FillReasoningSettled
  <1> HIDE DEF f
  <1>8. H!ChatMessages(d) = H!CollapseSystem(f)
    BY <1>4 DEF H!ChatMessages, f, i, p
  <1>9. QED
    BY <1>7, <1>8, CollapseSystemSettled

-----------------------------------------------------------------------------

(* A set of numbers has a smallest one.                                    *)
LEMMA SmallestIn ==
    ASSUME NEW S \in SUBSET Nat, S # {}
    PROVE  \E m \in S : \A j \in S : m <= j
  <1> DEFINE L == {n \in Nat : \A j \in S : n <= j}
  <1>1. PICK x \in S : x \in Nat
    BY Zenon
  <1>2. 0 \in L /\ L \in SUBSET Nat /\ \A n \in L : n <= x
    BY <1>1
  <1>3. PICK g \in L : \A n \in L : n <= g
    <2> HIDE DEF L
    <2> QED BY <1>1, <1>2, Greatest, Zenon
  <1>4. g \in Nat /\ \A j \in S : g <= j
    BY <1>3
  <1>5. ASSUME g \notin S PROVE FALSE
    <2>1. \A j \in S : g + 1 <= j
      BY <1>4, <1>5
    <2>2. g + 1 \in L
      BY <1>4, <2>1
    <2>3. g + 1 <= g
      BY <1>3, <2>2
    <2>4. QED
      BY <1>4, <2>3
  <1>6. QED
    BY <1>4, <1>5

(* White space at the front of a text.                                     *)
LEMMA TrimStartIs ==
    ASSUME NEW s \in Seq(STRING)
    PROVE  \E n \in 0..Len(s) : /\ TrimStart(s) = SubSeq(s, n + 1, Len(s))
                                /\ \A i \in 1..n : s[i] = Space
                                /\ n < Len(s) => s[n + 1] # Space
  <1> DEFINE I == {i \in 1..Len(s) : s[i] # Space}
             k == SelectInSeq(s, LAMBDA t : t # Space)
  <1>1. k = IF I # {} THEN Min(I) ELSE 0
    BY DEF SelectInSeq
  <1>2. TrimStart(s) = IF k = 0 THEN <<>> ELSE SubSeq(s, k, Len(s))
    BY DEF TrimStart
  <1> HIDE DEF k
  <1>3. Len(s) \in Nat
    OBVIOUS
  <1>4. CASE I = {}
    <2>1. TrimStart(s) = <<>>
      BY <1>1, <1>2, <1>4
    <2>2. SubSeq(s, Len(s) + 1, Len(s)) = <<>>
      BY <1>3
    <2>3. \A i \in 1..Len(s) : s[i] = Space
      BY <1>4
    <2>4. Len(s) \in 0..Len(s) /\ ~(Len(s) < Len(s))
      BY <1>3
    <2>5. QED
      BY <2>1, <2>2, <2>3, <2>4
  <1>5. CASE I # {}
    <2>1. I \in SUBSET Nat
      OBVIOUS
    <2>2. \E m \in I : \A j \in I : m <= j
      <3> HIDE DEF I
      <3> QED BY <1>5, <2>1, SmallestIn
    <2>3. Min(I) \in I /\ \A j \in I : Min(I) <= j
      <3> HIDE DEF I
      <3> QED BY <2>2 DEF Min
    <2>4. k \in I /\ \A j \in I : k <= j
      BY <1>1, <1>5, <2>3
    <2>5. k - 1 \in 0..Len(s) /\ (k - 1) + 1 = k /\ k # 0
      BY <1>3, <2>4
    <2>6. \A i \in 1..(k - 1) : s[i] = Space
      BY <1>3, <2>4
    <2>7. s[(k - 1) + 1] # Space
      BY <2>4, <2>5
    <2>8. QED
      BY <1>2, <2>5, <2>6, <2>7, Zenon
  <1>6. QED
    BY <1>4, <1>5

(* What is left is a text.                                                 *)
LEMMA TrimStartTyped ==
    ASSUME NEW s \in Seq(STRING)
    PROVE  TrimStart(s) \in Seq(STRING)
  <1>1. PICK n \in 0..Len(s) : TrimStart(s) = SubSeq(s, n + 1, Len(s))
    BY TrimStartIs
  <1>2. QED
    BY <1>1

(* White space at both ends of it.                                         *)
LEMMA TrimIs ==
    ASSUME NEW s \in Seq(STRING)
    PROVE  \E k \in 0..Len(TrimStart(s)) :
              /\ Trim(s) = SubSeq(TrimStart(s), 1, k)
              /\ \A i \in (k + 1)..Len(TrimStart(s)) : TrimStart(s)[i] = Space
  <1> DEFINE t == TrimStart(s)
             I == {i \in 1..Len(t) : t[i] # Space}
             k == SelectLastInSeq(t, LAMBDA x : x # Space)
  <1>1. k = IF I # {} THEN Max(I) ELSE 0
    BY DEF SelectLastInSeq
  <1>2. Trim(s) = SubSeq(t, 1, k)
    BY DEF Trim
  <1> HIDE DEF k
  <1>3. t \in Seq(STRING) /\ Len(t) \in Nat
    BY TrimStartTyped
  <1> HIDE DEF t
  <1>4. CASE I = {}
    <2>1. k = 0
      BY <1>1, <1>4
    <2>2. \A i \in (0 + 1)..Len(t) : t[i] = Space
      BY <1>3, <1>4
    <2>3. QED
      BY <1>2, <1>3, <2>1, <2>2 DEF t
  <1>5. CASE I # {}
    <2>1. I \in SUBSET Nat /\ \A i \in I : i <= Len(t)
      BY <1>3
    <2>2. \E m \in I : \A j \in I : j <= m
      <3> HIDE DEF I
      <3> QED BY <1>3, <1>5, <2>1, Greatest, Zenon
    <2>3. \E m \in I : \A j \in I : m >= j
      BY <1>3, <2>2
    <2>4. Max(I) \in I /\ \A j \in I : Max(I) >= j
      <3> HIDE DEF I
      <3> QED BY <2>3 DEF Max
    <2>5. k \in I /\ \A j \in I : k >= j
      BY <1>1, <1>5, <2>4
    <2>6. k \in 0..Len(t)
      BY <1>3, <2>5
    <2>7. \A i \in (k + 1)..Len(t) : t[i] = Space
      BY <1>3, <2>5
    <2>8. QED
      BY <1>2, <2>6, <2>7 DEF t
  <1>6. QED
    BY <1>4, <1>5

(* Texts stay texts.                                                       *)
LEMMA ThoughtTyped ==
    ASSUME NEW s \in Seq(STRING)
    PROVE  /\ TrimStart(s) \in Seq(STRING) /\ Trim(s) \in Seq(STRING)
           /\ Body(s) \in Seq(STRING)
           /\ Closed(s) => Thought(s) \in Seq(STRING) /\ Rest(s) \in Seq(STRING)
  <1>1. \A t \in Seq(STRING) : TrimStart(t) \in Seq(STRING)
    BY TrimStartTyped
  <1>2. \A t \in Seq(STRING) : Trim(t) \in Seq(STRING)
    <2> SUFFICES ASSUME NEW t \in Seq(STRING) PROVE Trim(t) \in Seq(STRING)
      OBVIOUS
    <2>1. PICK k \in 0..Len(TrimStart(t)) : Trim(t) = SubSeq(TrimStart(t), 1, k)
      BY TrimIs
    <2>2. TrimStart(t) \in Seq(STRING)
      BY <1>1
    <2>3. QED
      BY <2>1, <2>2
  <1>3. Body(s) \in Seq(STRING)
    <2> DEFINE t == TrimStart(s)
    <2>1. t \in Seq(STRING)
      BY <1>1
    <2>2. Body(s) = SubSeq(t, 3, Len(t))
      BY DEF Body
    <2> HIDE DEF t
    <2>3. QED
      BY <2>1, <2>2
  <1>4. ASSUME Closed(s) PROVE Thought(s) \in Seq(STRING) /\ Rest(s) \in Seq(STRING)
    <2> DEFINE b == Body(s)
               C == CloseAt(b)
               k == SplitAt(s)
    <2>1. C # {} /\ C \in SUBSET Nat /\ k = CHOOSE x \in C : \A j \in C : x <= j
      BY <1>4 DEF Closed, CloseAt, SplitAt
    <2>2. k \in C
      <3> HIDE DEF C, k
      <3>1. \E x \in C : \A j \in C : x <= j
        BY <2>1, SmallestIn
      <3>2. QED
        BY <2>1, <3>1, Zenon
    <2>3. k \in 1..(Len(b) - 1)
      BY <2>2 DEF CloseAt
    <2>4. Thought(s) = Trim(SubSeq(b, 1, k - 1))
      BY DEF Thought
    <2>5. Rest(s) = TrimStart(SubSeq(b, k + 2, Len(b)))
      BY DEF Rest
    <2> HIDE DEF b, k
    <2>6. SubSeq(b, 1, k - 1) \in Seq(STRING) /\ SubSeq(b, k + 2, Len(b)) \in Seq(STRING)
      BY <1>3, <2>3 DEF b
    <2>7. QED
      BY <1>1, <1>2, <2>4, <2>5, <2>6, Zenon
  <1>5. QED
    BY <1>1, <1>2, <1>3, <1>4

-----------------------------------------------------------------------------

(* What the converter writes and the app reads.                            *)
Tokens == Seq(STRING)
TextKinds == {"reasoning", "message"}
CallIds == {"ctc", "fc"} \X AnyIds
LiveIds == {<<"reasoning">>, <<"message">>} \cup CallIds
TextRecord == [kind : TextKinds, id : LiveIds, text : Tokens]
CallRecord == [kind : {"call"}, id : CallIds, text : Tokens,
               name : STRING \cup {NoName, UnknownTool}]
AnswerItem == TextRecord \cup CallRecord
Event == [ev : {"created"}]
         \cup [ev : {"added"}, at : Int, id : LiveIds, kind : TextKinds \cup {"call"}]
         \cup [ev : {"delta"}, at : Int, id : LiveIds, text : Tokens]
         \cup [ev : {"done"}, at : Int, item : AnswerItem]
         \cup [ev : {"completed", "incomplete", "failed"}, output : Seq(AnswerItem)]
LiveItem == [at : Int, id : LiveIds, kind : TextKinds \cup {"call"}, text : Tokens,
             done : BOOLEAN]
AppState == [live : Seq(LiveItem), items : Seq(AnswerItem),
             end : {"none", "completed", "incomplete", "failed"}, output : Seq(AnswerItem)]

(* An event leaves the app in one of its states.                           *)
LEMMA ReceiveTyped ==
    ASSUME NEW a \in AppState, NEW e \in Event
    PROVE  Receive(a, e) \in AppState
  <1> DEFINE r == Receive(a, e)
  <1>1. CASE a.end # "none"
    BY <1>1 DEF Receive
  <1>2. CASE a.end = "none"
    <2>0. a.live \in Seq(LiveItem) /\ a.items \in Seq(AnswerItem) /\ a.output \in Seq(AnswerItem)
      BY DEF AppState
    <2>1. CASE e \in [ev : {"created"}]
      BY <1>2, <2>1 DEF Receive
    <2>2. CASE e \in [ev : {"added"}, at : Int, id : LiveIds, kind : TextKinds \cup {"call"}]
      <3> DEFINE x == [at |-> e.at, id |-> e.id, kind |-> e.kind, text |-> <<>>, done |-> FALSE]
                 g == Append(a.live, x)
      <3>1. r = [a EXCEPT !.live = g]
        BY <1>2, <2>2 DEF Receive
      <3>2. x \in LiveItem
        <4>1. <<>> \in Tokens
          BY DEF Tokens
        <4>2. QED
          BY <2>2, <4>1 DEF LiveItem
      <3> HIDE DEF x
      <3>3. g \in Seq(LiveItem)
        BY <2>0, <3>2
      <3> HIDE DEF g, r
      <3>4. r \in AppState
        BY <3>1, <3>3, Zenon DEF AppState
      <3>5. QED
        BY <3>4 DEF r
    <2>3. CASE e \in [ev : {"delta"}, at : Int, id : LiveIds, text : Tokens]
      <3> DEFINE new(k) == IF a.live[k].at = e.at /\ a.live[k].id = e.id /\ ~a.live[k].done
                           THEN [a.live[k] EXCEPT !.text = @ \o e.text] ELSE a.live[k]
                 g == [k \in DOMAIN a.live |-> new(k)]
      <3>1. r = [a EXCEPT !.live = g]
        BY <1>2, <2>3 DEF Receive
      <3>2. ASSUME NEW k \in 1..Len(a.live) PROVE new(k) \in LiveItem
        <4>1. a.live[k] \in LiveItem
          BY <2>0
        <4>2. a.live[k].text \o e.text \in Tokens
          BY <2>3, <4>1 DEF LiveItem, Tokens
        <4>3. QED
          BY <4>1, <4>2, Zenon DEF LiveItem
      <3> HIDE DEF new
      <3>3. g \in Seq(LiveItem)
        <4>1. DOMAIN a.live = 1..Len(a.live) /\ Len(a.live) \in Nat
          BY <2>0
        <4>2. g \in [1..Len(a.live) -> LiveItem]
          BY <3>2, <4>1
        <4>3. QED
          BY <4>1, <4>2
      <3> HIDE DEF g, r
      <3>4. r \in AppState
        BY <3>1, <3>3, Zenon DEF AppState
      <3>5. QED
        BY <3>4 DEF r
    <2>4. CASE e \in [ev : {"done"}, at : Int, item : AnswerItem]
      <3> DEFINE new(k) == IF a.live[k].at = e.at THEN [a.live[k] EXCEPT !.done = TRUE]
                           ELSE a.live[k]
                 g == [k \in DOMAIN a.live |-> new(k)]
                 h == Append(a.items, e.item)
      <3>1. r = [a EXCEPT !.items = h, !.live = g]
        BY <1>2, <2>4 DEF Receive
      <3>2. ASSUME NEW k \in 1..Len(a.live) PROVE new(k) \in LiveItem
        <4>1. a.live[k] \in LiveItem
          BY <2>0
        <4>2. QED
          BY <4>1, Zenon DEF LiveItem
      <3> HIDE DEF new
      <3>3. g \in Seq(LiveItem)
        <4>1. DOMAIN a.live = 1..Len(a.live) /\ Len(a.live) \in Nat
          BY <2>0
        <4>2. g \in [1..Len(a.live) -> LiveItem]
          BY <3>2, <4>1
        <4>3. QED
          BY <4>1, <4>2
      <3>4. h \in Seq(AnswerItem)
        BY <2>0, <2>4
      <3> HIDE DEF g, h, r
      <3>5. r \in AppState
        BY <3>1, <3>3, <3>4, Zenon DEF AppState
      <3>6. QED
        BY <3>5 DEF r
    <2>5. CASE e \in [ev : {"completed", "incomplete", "failed"}, output : Seq(AnswerItem)]
      <3>1. r = [a EXCEPT !.end = e.ev, !.output = e.output]
        BY <1>2, <2>5 DEF Receive
      <3>2. e.output \in Seq(AnswerItem) /\ e.ev \in {"completed", "incomplete", "failed"}
        BY <2>5
      <3> HIDE DEF r
      <3>3. r \in AppState
        BY <3>1, <3>2, Zenon DEF AppState
      <3>4. QED
        BY <3>3 DEF r
    <2>6. QED
      BY <2>1, <2>2, <2>3, <2>4, <2>5 DEF Event
  <1>3. QED
    BY <1>1, <1>2

(* The app reads one event after the other.                                *)
Reading(n, out) == [i \in 1..n |-> [x \in AppState |-> Receive(x, out[i])]]

(* There is such a function, and it gives what the app has in the end.     *)
LEMMA ReceiveAllUnfolds ==
    ASSUME NEW a \in AppState, NEW out \in Seq(Event)
    PROVE  \E u : /\ ReceiveAll(a, out) = u[Len(out)]
                  /\ Recurs(u, Len(out), AppState, a, Reading(Len(out), out))
  <1> DEFINE N == Len(out)
             step == Reading(N, out)
  <1>1. N \in Nat /\ \A i \in 1..N : out[i] \in Event
    OBVIOUS
  <1> HIDE DEF N
  <1>2. step \in [1..N -> [AppState -> AppState]]
    <2>1. \A i \in 1..N : \A x \in AppState : Receive(x, out[i]) \in AppState
      BY <1>1, ReceiveTyped
    <2>2. QED
      BY <2>1 DEF Reading
  <1>3. \A i \in 1..N : \A x \in AppState : step[i][x] = Receive(x, out[i])
    BY DEF Reading
  <1> HIDE DEF step
  <1>4. PICK f : Recurs(f, N, AppState, a, step)
    BY <1>1, <1>2, Recursion
  <1>5. ASSUME NEW i \in 0..N
        PROVE  f[i] = IF i = 0 THEN a ELSE Receive(f[i - 1], out[i])
    <2>1. CASE i = 0
      BY <1>4, <2>1 DEF Recurs
    <2>2. CASE i # 0
      <3>1. i \in 1..N /\ i - 1 \in 0..N
        BY <1>1, <2>2
      <3>2. f[i - 1] \in AppState /\ f[i] = step[i][f[i - 1]]
        BY <1>4, <3>1 DEF Recurs
      <3>3. QED
        BY <1>3, <2>2, <3>1, <3>2
    <2>3. QED
      BY <2>1, <2>2
  <1>6. f = [n \in 0..N |-> IF n = 0 THEN a ELSE Receive(f[n - 1], out[n])]
    BY <1>4, <1>5 DEF Recurs
  <1> DEFINE u[n \in 0..N] == IF n = 0 THEN a ELSE Receive(u[n - 1], out[n])
  <1>7. u = [n \in 0..N |-> IF n = 0 THEN a ELSE Receive(u[n - 1], out[n])]
    BY <1>6, Zenon
  <1>8. ReceiveAll(a, out) = u[N]
    BY DEF ReceiveAll, N
  <1> HIDE DEF u
  <1>9. \A n \in 0..N : u[n] = IF n = 0 THEN a ELSE Receive(u[n - 1], out[n])
    BY <1>7, Zenon
  <1>10. u[0] = a
    <2>1. 0 \in 0..N
      BY <1>1
    <2>2. QED
      BY <1>9, <2>1
  <1>11. \A i \in 1..N : u[i] = Receive(u[i - 1], out[i])
    <2>1. \A n \in 1..N : n \in 0..N /\ n # 0
      BY <1>1
    <2>2. QED
      BY <1>9, <2>1
  <1>12. u[N] = f[N]
    <2>1. \A i \in 1..N : u[i - 1] \in AppState => u[i] = step[i][u[i - 1]]
      BY <1>3, <1>11
    <2>2. QED
      BY <1>1, <1>4, <1>10, <2>1, RecursionIs
  <1>13. QED
    BY <1>4, <1>8, <1>12 DEF step, N

(* Without events the app stays as it is.                                  *)
LEMMA ReceiveNone ==
    ASSUME NEW a \in AppState
    PROVE  ReceiveAll(a, <<>>) = a
  <1> DEFINE o == <<>>
  <1>1. o \in Seq(Event) /\ Len(o) = 0
    OBVIOUS
  <1> HIDE DEF o
  <1>2. PICK u : /\ ReceiveAll(a, o) = u[Len(o)]
                 /\ Recurs(u, Len(o), AppState, a, Reading(Len(o), o))
    BY <1>1, ReceiveAllUnfolds, Zenon
  <1>3. QED
    BY <1>1, <1>2 DEF Recurs, o

(* An event more is read by an app that has read those before.             *)
LEMMA ReceiveMore ==
    ASSUME NEW a \in AppState, NEW out \in Seq(Event), NEW e \in Event
    PROVE  /\ ReceiveAll(a, out) \in AppState
           /\ ReceiveAll(a, Append(out, e)) = Receive(ReceiveAll(a, out), e)
  <1> DEFINE N == Len(out)
             o == Append(out, e)
             M == N + 1
             S == Reading(N, out)
             T == Reading(M, o)
  <1>1. /\ N \in Nat /\ o \in Seq(Event) /\ Len(o) = M /\ M \in Nat /\ M \in 1..M /\ M - 1 = N
        /\ \A i \in 1..N : o[i] = out[i] /\ i \in 1..M
        /\ o[M] = e
    OBVIOUS
  <1>2. PICK f : ReceiveAll(a, out) = f[N] /\ Recurs(f, N, AppState, a, S)
    BY ReceiveAllUnfolds
  <1> HIDE DEF o, N
  <1>3. PICK g : ReceiveAll(a, o) = g[M] /\ Recurs(g, M, AppState, a, T)
    BY <1>1, ReceiveAllUnfolds
  <1> HIDE DEF M
  <1>4. \A i \in 1..N : g[i - 1] \in AppState => g[i] = S[i][g[i - 1]]
    <2> SUFFICES ASSUME NEW i \in 1..N, g[i - 1] \in AppState PROVE g[i] = S[i][g[i - 1]]
      OBVIOUS
    <2>1. i \in 1..M /\ o[i] = out[i]
      BY <1>1
    <2>2. g[i] = T[i][g[i - 1]]
      BY <1>3, <2>1 DEF Recurs
    <2>3. T[i][g[i - 1]] = Receive(g[i - 1], o[i]) /\ S[i][g[i - 1]] = Receive(g[i - 1], out[i])
      BY <2>1 DEF Reading
    <2>4. QED
      BY <2>1, <2>2, <2>3
  <1>5. g[0] = a
    BY <1>3 DEF Recurs
  <1> HIDE DEF S
  <1>6. g[N] = f[N] /\ f[N] \in AppState
    BY <1>1, <1>2, <1>4, <1>5, RecursionIs
  <1>7. g[M] = T[M][g[M - 1]]
    BY <1>1, <1>3 DEF Recurs
  <1>8. T[M][g[N]] = Receive(g[N], e)
    BY <1>1, <1>6 DEF Reading
  <1>9. QED
    BY <1>1, <1>2, <1>3, <1>6, <1>7, <1>8 DEF o

(* What an app that has read up to now reads from a converter.             *)
HasRead(a, c) == ReceiveAll(a, c.out)

(* The items of an answer under way, as the converter keeps them: one of   *)
(* reasoning, one of text, and one for each call. shown is the text it has *)
(* told the app.                                                           *)
Keys == -2 .. Slots - 1
Cell == [at : Int, id : LiveIds \cup {<<>>}, kind : TextKinds \cup {"call"}, text : Tokens,
         shown : Tokens, done : BOOLEAN]
PlacedItem == [at : Int, item : AnswerItem]

(* What the app has of an item.                                            *)
Pictured(x, w) ==
    /\ w.at = x.at /\ w.id = x.id /\ w.kind = x.kind /\ w.done = x.done
    /\ ~x.done => w.text = x.shown

(* What it has been given of one.                                          *)
IsGiven(x, y, live) ==
    /\ x.at >= 0 /\ y.at = x.at /\ x.done
    /\ y.item.kind = x.kind /\ y.item.id = x.id
    /\ \/ live[x.at + 1].text = y.item.text
       \/ x.kind = "call" /\ live[x.at + 1].text = <<>>

(* The app has seen the items announced, each at its place.                *)
Seen(cells, next, live) ==
    /\ Len(live) = next
    /\ \A key \in Keys : cells[key].at < next
    /\ \A key, other \in Keys :
          cells[key].at >= 0 /\ cells[key].at = cells[other].at => key = other
    /\ \A k \in 1..next : \E key \in Keys : cells[key].at = k - 1
    /\ \A key \in Keys : cells[key].at >= 0 => Pictured(cells[key], live[cells[key].at + 1])

(* It has been given those that are finished, each once.                   *)
Given(cells, its, live, given) ==
    /\ Len(given) = Len(its)
    /\ \A p \in 1..Len(its) : given[p] = its[p].item
    /\ \A p, q \in 1..Len(its) : its[p].at = its[q].at => p = q
    /\ \A p \in 1..Len(its) : \E key \in Keys : IsGiven(cells[key], its[p], live)
    /\ \A key \in Keys : cells[key].done =>
          /\ cells[key].at >= 0
          /\ \E p \in 1..Len(its) : its[p].at = cells[key].at

Shows(cells, next, its, a) ==
    /\ cells \in [Keys -> Cell] /\ next \in Nat /\ its \in Seq(PlacedItem)
    /\ a \in AppState /\ a.end = "none"
    /\ Seen(cells, next, a.live)
    /\ Given(cells, its, a.live, a.items)

(* An item is announced.                                                   *)
LEMMA Announces ==
    ASSUME NEW cells, NEW next, NEW its, NEW a, Shows(cells, next, its, a),
           NEW key \in Keys, cells[key].at < 0,
           NEW x \in Cell, x.at = next, ~x.done, x.shown = <<>>, x.id \in LiveIds
    PROVE  Shows([cells EXCEPT ![key] = x], next + 1, its,
                 Receive(a, Added(next, x.id, x.kind)))
  <1> DEFINE e == Added(next, x.id, x.kind)
             b == Receive(a, e)
             z == [at |-> next, id |-> x.id, kind |-> x.kind, text |-> <<>>, done |-> FALSE]
             new == [cells EXCEPT ![key] = x]
             N == next + 1
  <1>1. /\ cells \in [Keys -> Cell] /\ next \in Nat /\ its \in Seq(PlacedItem)
        /\ a \in AppState /\ a.end = "none"
        /\ Seen(cells, next, a.live) /\ Given(cells, its, a.live, a.items)
    BY DEF Shows
  <1>2. e = [ev |-> "added", at |-> next, id |-> x.id, kind |-> x.kind] /\ e \in Event
    <2>1. next \in Int /\ x.kind \in TextKinds \cup {"call"}
      BY <1>1 DEF Cell
    <2>2. QED
      BY <2>1 DEF Event, Added
  <1>3. b = [a EXCEPT !.live = Append(@, z)]
    BY <1>1, <1>2 DEF Receive
  <1>4. b \in AppState
    BY <1>1, <1>2, ReceiveTyped
  <1>5. b.live = Append(a.live, z) /\ b.items = a.items /\ b.end = "none"
    BY <1>1, <1>3 DEF AppState
  <1> HIDE DEF b, e
  <1> DEFINE live == a.live
             more == b.live
  <1>6. /\ live \in Seq(LiveItem) /\ Len(live) = next /\ Len(more) = N
        /\ \A i \in 1..next : more[i] = live[i]
        /\ more[N] = z
    BY <1>1, <1>5 DEF AppState, Seen
  <1>7. /\ new \in [Keys -> Cell] /\ N \in Nat /\ new[key] = x /\ N \in 1..N /\ N - 1 = next
        /\ \A k \in Keys : k # key => new[k] = cells[k]
        /\ \A k \in Keys : cells[k].at \in Int /\ cells[k].at < next
        /\ \A k \in Keys : cells[k].at >= 0 => cells[k].at + 1 \in 1..next
        /\ \A k \in 1..N : k = N \/ k \in 1..next
    <2>1. \A k \in Keys : cells[k].at \in Int
      BY <1>1 DEF Cell
    <2>2. \A k \in Keys : cells[k].at < next
      BY <1>1 DEF Seen
    <2>3. QED
      BY <1>1, <2>1, <2>2
  <1> HIDE DEF new, N, z, live, more
  <1>8. Seen(new, N, more)
    <2>1. \A k \in Keys : new[k].at < N
      BY <1>1, <1>7 DEF N
    <2>2. ASSUME NEW k \in Keys, NEW other \in Keys, new[k].at >= 0, new[k].at = new[other].at
          PROVE  k = other
      BY <1>1, <1>7, <2>2 DEF Seen
    <2>3. ASSUME NEW k \in 1..N PROVE \E other \in Keys : new[other].at = k - 1
      <3>1. CASE k = N
        BY <1>7, <3>1
      <3>2. CASE k \in 1..next
        <4>1. PICK other \in Keys : cells[other].at = k - 1
          BY <1>1, <3>2 DEF Seen
        <4>2. k - 1 >= 0
          BY <1>1, <3>2
        <4>3. other # key
          BY <1>7, <4>1, <4>2
        <4>4. QED
          BY <1>7, <4>1, <4>3
      <3>3. QED
        BY <1>7, <3>1, <3>2
    <2>4. ASSUME NEW k \in Keys, new[k].at >= 0
          PROVE  Pictured(new[k], more[new[k].at + 1])
      <3>1. CASE k = key
        <4>1. more[new[k].at + 1] = z
          BY <1>6, <1>7, <3>1 DEF N
        <4>2. Pictured(x, z)
          BY Zenon DEF Pictured, z, Cell
        <4>3. QED
          BY <1>7, <3>1, <4>1, <4>2
      <3>2. CASE k # key
        <4>1. new[k] = cells[k] /\ cells[k].at + 1 \in 1..next
          BY <1>7, <2>4, <3>2
        <4>2. Pictured(cells[k], live[cells[k].at + 1])
          BY <1>1, <2>4, <4>1 DEF Seen, live
        <4>3. QED
          BY <1>6, <4>1, <4>2
      <3>3. QED
        BY <3>1, <3>2
    <2>5. QED
      BY <1>6, <2>1, <2>2, <2>3, <2>4 DEF Seen
  <1>9. Given(new, its, more, b.items)
    <2>1. ASSUME NEW p \in 1..Len(its) PROVE \E k \in Keys : IsGiven(new[k], its[p], more)
      <3>1. PICK k \in Keys : IsGiven(cells[k], its[p], live)
        BY <1>1 DEF Given, live
      <3>2. cells[k].at >= 0 /\ k # key
        BY <1>7, <3>1 DEF IsGiven
      <3>3. new[k] = cells[k] /\ more[cells[k].at + 1] = live[cells[k].at + 1]
        BY <1>6, <1>7, <3>2, Zenon
      <3>4. QED
        BY <3>1, <3>3 DEF IsGiven
    <2>2. \A k \in Keys : new[k].done => k # key /\ new[k] = cells[k]
      BY <1>7
    <2>3. QED
      BY <1>1, <1>5, <2>1, <2>2 DEF Given
  <1>10. QED
    BY <1>1, <1>4, <1>5, <1>7, <1>8, <1>9 DEF Shows, new, N, more, b, e

(* The app has every item where its number says.                           *)
LEMMA InPlace ==
    ASSUME NEW cells \in [Keys -> Cell], NEW next \in Nat, NEW live, Seen(cells, next, live)
    PROVE  /\ \A k \in 1..next : live[k].at = k - 1
           /\ \A key \in Keys : cells[key].at >= 0 => cells[key].at + 1 \in 1..next
           /\ \A key \in Keys : cells[key].at \in Int
           /\ \A key, other \in Keys :
                 cells[key].at >= 0 /\ cells[other].at >= 0 /\ key # other =>
                    cells[key].at + 1 # cells[other].at + 1
  <1>1. \A key \in Keys : cells[key].at \in Int
    BY DEF Cell
  <1>2. ASSUME NEW k \in 1..next PROVE live[k].at = k - 1
    <2>1. PICK key \in Keys : cells[key].at = k - 1
      BY DEF Seen
    <2>2. k - 1 >= 0 /\ (k - 1) + 1 = k
      OBVIOUS
    <2>3. Pictured(cells[key], live[cells[key].at + 1])
      BY <2>1, <2>2 DEF Seen
    <2>4. QED
      BY <2>1, <2>2, <2>3 DEF Pictured
  <1>3. \A key \in Keys : cells[key].at < next
    BY DEF Seen
  <1>4. \A key \in Keys : cells[key].at >= 0 => cells[key].at + 1 \in 1..next
    BY <1>1, <1>3
  <1>5. ASSUME NEW key \in Keys, NEW other \in Keys, cells[key].at >= 0, cells[other].at >= 0,
               key # other
        PROVE  cells[key].at + 1 # cells[other].at + 1
    <2>1. cells[key].at # cells[other].at
      BY <1>5 DEF Seen
    <2>2. QED
      BY <1>1, <2>1
  <1>6. QED
    BY <1>1, <1>2, <1>4, <1>5

(* Only what the app has of one item changes, and not what it has been     *)
(* given of one.                                                           *)
LEMMA OneShownMore ==
    ASSUME NEW cells, NEW next, NEW its, NEW a, Shows(cells, next, its, a),
           NEW key \in Keys, NEW x \in Cell, x.at = cells[key].at, x.at >= 0,
           x.done = cells[key].done, x.kind = cells[key].kind, x.id = cells[key].id,
           NEW b \in AppState, b.end = "none", b.items = a.items, Len(b.live) = Len(a.live),
           \A k \in 1..next : k # x.at + 1 => b.live[k] = a.live[k],
           Pictured(x, b.live[x.at + 1]),
           x.done => b.live[x.at + 1] = a.live[x.at + 1]
    PROVE  Shows([cells EXCEPT ![key] = x], next, its, b)
  <1> DEFINE new == [cells EXCEPT ![key] = x]
             live == a.live
             more == b.live
  <1>1. /\ cells \in [Keys -> Cell] /\ next \in Nat /\ its \in Seq(PlacedItem)
        /\ Seen(cells, next, live) /\ Given(cells, its, live, a.items)
    BY DEF Shows
  <1>2. /\ new \in [Keys -> Cell] /\ new[key] = x
        /\ \A k \in Keys : k # key => new[k] = cells[k]
        /\ \A k \in Keys : new[k].at = cells[k].at /\ new[k].done = cells[k].done
                           /\ new[k].id = cells[k].id /\ new[k].kind = cells[k].kind
    BY <1>1
  <1>3. /\ \A k \in Keys : cells[k].at >= 0 => cells[k].at + 1 \in 1..next
        /\ \A k \in Keys : cells[k].at >= 0 /\ k # key => cells[k].at + 1 # x.at + 1
    BY <1>1, InPlace
  <1>4. \A k \in Keys : cells[k].at >= 0 /\ k # key =>
           more[cells[k].at + 1] = live[cells[k].at + 1]
    BY <1>3
  <1> HIDE DEF new
  <1>5. ASSUME NEW k \in Keys, new[k].at >= 0
        PROVE  Pictured(new[k], more[new[k].at + 1])
    <2>1. CASE k = key
      BY <1>2, <2>1
    <2>2. CASE k # key
      <3>1. Pictured(cells[k], live[cells[k].at + 1])
        BY <1>1, <1>2, <1>5 DEF Seen
      <3>2. QED
        BY <1>2, <1>4, <1>5, <2>2, <3>1
    <2>3. QED
      BY <2>1, <2>2
  <1>6. Seen(new, next, more)
    <2>1. Len(more) = next
      BY <1>1 DEF Seen
    <2> HIDE DEF more, live
    <2>2. QED
      BY <1>1, <1>2, <1>5, <2>1 DEF Seen
  <1>7. Given(new, its, more, b.items)
    <2>1. ASSUME NEW p \in 1..Len(its) PROVE \E k \in Keys : IsGiven(new[k], its[p], more)
      <3>1. PICK k \in Keys : IsGiven(cells[k], its[p], live)
        BY <1>1 DEF Given
      <3>2. cells[k].at >= 0 /\ cells[k].done
        BY <3>1 DEF IsGiven
      <3>3. more[cells[k].at + 1] = live[cells[k].at + 1]
        BY <1>4, <3>2
      <3>4. IsGiven(new[k], its[p], more)
        BY <1>2, <3>1, <3>3 DEF IsGiven
      <3>5. QED
        BY <3>4
    <2> HIDE DEF more, live
    <2>2. QED
      BY <1>1, <1>2, <2>1 DEF Given
  <1>8. QED
    BY <1>1, <1>2, <1>6, <1>7 DEF Shows, new, more

(* An item grows: the app is told so unless it is finished.                *)
LEMMA Grows ==
    ASSUME NEW cells, NEW next, NEW its, NEW a, Shows(cells, next, its, a),
           NEW key \in Keys, NEW x \in Cell, x.at = cells[key].at, x.at >= 0,
           x.done = cells[key].done, x.kind = cells[key].kind, x.id = cells[key].id,
           NEW text \in Tokens, ~x.done => x.shown = cells[key].shown \o text
    PROVE  Shows([cells EXCEPT ![key] = x], next, its, Receive(a, Delta(x.at, x.id, text)))
  <1> DEFINE e == Delta(x.at, x.id, text)
             b == Receive(a, e)
             new(k) == IF a.live[k].at = e.at /\ a.live[k].id = e.id /\ ~a.live[k].done
                       THEN [a.live[k] EXCEPT !.text = @ \o e.text] ELSE a.live[k]
             more == [k \in DOMAIN a.live |-> new(k)]
             P == x.at + 1
  <1>1. /\ cells \in [Keys -> Cell] /\ next \in Nat /\ its \in Seq(PlacedItem)
        /\ a \in AppState /\ a.end = "none" /\ Seen(cells, next, a.live)
    BY DEF Shows
  <1>2. a.live \in Seq(LiveItem) /\ DOMAIN a.live = 1..next /\ Len(a.live) = next
    BY <1>1 DEF AppState, Seen
  <1>3. /\ P \in 1..next /\ x.at \in Int
        /\ \A k \in 1..next : a.live[k].at = k - 1
        /\ Pictured(cells[key], a.live[P])
    <2>1. x.at \in Int /\ P \in 1..next /\ \A k \in 1..next : a.live[k].at = k - 1
      BY <1>1, InPlace
    <2>2. Pictured(cells[key], a.live[P])
      BY <1>1 DEF Seen
    <2>3. QED
      BY <2>1, <2>2
  <1>4. /\ e = [ev |-> "delta", at |-> x.at, id |-> x.id, text |-> text]
        /\ e.ev = "delta" /\ e.at = x.at /\ e.id = x.id /\ e.text = text
    BY DEF Delta
  <1>5. e \in Event
    <2>1. a.live[P] \in LiveItem
      BY <1>2, <1>3
    <2>2. a.live[P].id = x.id /\ x.id \in LiveIds
      BY <1>3, <2>1 DEF Pictured, LiveItem
    <2>3. QED
      BY <1>3, <1>4, <2>2 DEF Event
  <1> HIDE DEF e
  <1>6. b = [a EXCEPT !.live = more]
    BY <1>1, <1>4 DEF Receive
  <1>7. b \in AppState
    BY <1>1, <1>5, ReceiveTyped
  <1>8. b.live = more /\ b.items = a.items /\ b.end = "none"
    BY <1>1, <1>6 DEF AppState
  <1>9. Len(more) = next /\ \A k \in 1..next : more[k] = new(k)
    BY <1>1, <1>2
  <1>10. ASSUME NEW k \in 1..next, k # P PROVE new(k) = a.live[k]
    <2>0. k \in Int /\ x.at \in Int /\ k # x.at + 1
      BY <1>1, <1>3, <1>10
    <2> DEFINE at == x.at
    <2> HIDE DEF at
    <2>3. k \in Int /\ at \in Int /\ k # at + 1
      BY <2>0 DEF at
    <2>4. k - 1 # at
      BY <2>3
    <2>1. k - 1 # x.at
      BY <2>4 DEF at
    <2>2. a.live[k].at = k - 1 /\ e.at = x.at
      BY <1>3, <1>4
    <2>5. ~(a.live[k].at = e.at)
      BY <2>1, <2>2, Zenon
    <2>6. QED
      BY <2>5, Zenon
  <1>11. Pictured(x, new(P)) /\ (x.done => new(P) = a.live[P])
    <2>1. a.live[P] \in LiveItem
      BY <1>2, <1>3
    <2>2. CASE x.done
      BY <1>3, <2>2, Zenon DEF Pictured
    <2>3. CASE ~x.done
      <3> DEFINE w == [a.live[P] EXCEPT !.text = @ \o text]
      <3>1. a.live[P].at = x.at /\ a.live[P].id = x.id /\ ~a.live[P].done
        BY <1>3, <2>3 DEF Pictured
      <3>2. new(P) = w
        BY <1>4, <3>1
      <3>3. /\ w.at = a.live[P].at /\ w.id = a.live[P].id /\ w.kind = a.live[P].kind
            /\ w.done = a.live[P].done /\ w.text = a.live[P].text \o text
        BY <2>1 DEF LiveItem
      <3> HIDE DEF w
      <3>4. a.live[P].text = cells[key].shown
        BY <1>3, <2>3 DEF Pictured
      <3>5. Pictured(x, w)
        BY <1>3, <2>3, <3>3, <3>4 DEF Pictured
      <3>6. QED
        BY <2>3, <3>2, <3>5, Zenon
    <2>4. QED
      BY <2>2, <2>3
  <1> HIDE DEF new, b, e, more
  <1>12. /\ Len(b.live) = Len(a.live)
         /\ \A k \in 1..next : k # x.at + 1 => b.live[k] = a.live[k]
         /\ Pictured(x, b.live[x.at + 1])
         /\ x.done => b.live[x.at + 1] = a.live[x.at + 1]
    BY <1>2, <1>3, <1>8, <1>9, <1>10, <1>11
  <1>13. Shows([cells EXCEPT ![key] = x], next, its, b)
    BY <1>7, <1>8, <1>12, OneShownMore, Zenon
  <1>14. QED
    BY <1>13 DEF b, e

(* An item is finished, with the text that was shown; the text of a call   *)
(* may come now.                                                           *)
LEMMA Finishes ==
    ASSUME NEW cells, NEW next, NEW its, NEW a, Shows(cells, next, its, a),
           NEW key \in Keys, cells[key].at >= 0, ~cells[key].done,
           NEW item \in AnswerItem, item.kind = cells[key].kind, item.id = cells[key].id,
           \/ item.text = cells[key].shown
           \/ item.kind = "call" /\ cells[key].shown = <<>>,
           NEW x \in Cell, x.at = cells[key].at, x.kind = cells[key].kind,
           x.id = cells[key].id, x.done
    PROVE  Shows([cells EXCEPT ![key] = x], next, Append(its, [at |-> x.at, item |-> item]),
                 Receive(a, Finished(x.at, item)))
  <1> DEFINE e == Finished(x.at, item)
             b == Receive(a, e)
             new == [cells EXCEPT ![key] = x]
             y == [at |-> x.at, item |-> item]
             all == Append(its, y)
             closed(k) == IF a.live[k].at = e.at THEN [a.live[k] EXCEPT !.done = TRUE]
                          ELSE a.live[k]
             more == [k \in DOMAIN a.live |-> closed(k)]
             live == a.live
             P == x.at + 1
             N == Len(its)
             M == N + 1
  <1>1. /\ cells \in [Keys -> Cell] /\ next \in Nat /\ its \in Seq(PlacedItem)
        /\ a \in AppState /\ a.end = "none"
        /\ Seen(cells, next, live) /\ Given(cells, its, live, a.items)
    BY DEF Shows
  <1>2. /\ live \in Seq(LiveItem) /\ DOMAIN live = 1..next /\ Len(live) = next
        /\ a.items \in Seq(AnswerItem) /\ Len(a.items) = N /\ N \in Nat
    BY <1>1 DEF AppState, Seen, Given
  <1>3. P \in 1..next /\ x.at \in Int /\ x.at >= 0 /\ (\A k \in 1..next : live[k].at = k - 1)
    BY <1>1, InPlace
  <1>4. Pictured(cells[key], live[P])
    BY <1>1 DEF Seen
  <1>5. e = [ev |-> "done", at |-> x.at, item |-> item]
        /\ e.ev = "done" /\ e.at = x.at /\ e.item = item
    BY DEF Finished
  <1>6. e \in Event
    BY <1>3, <1>5 DEF Event
  <1>7. b = [a EXCEPT !.items = Append(@, item), !.live = more]
    BY <1>1, <1>5 DEF Receive
  <1>8. b \in AppState
    BY <1>1, <1>6, ReceiveTyped
  <1>9. b.live = more /\ b.items = Append(a.items, item) /\ b.end = "none"
    BY <1>1, <1>7 DEF AppState
  <1>10. Len(more) = next /\ \A k \in 1..next : more[k] = closed(k)
    BY <1>1, <1>2
  <1>11. ASSUME NEW k \in 1..next, k # P PROVE more[k] = live[k]
    <2>1. k - 1 # x.at
      BY <1>3, <1>11
    <2>2. QED
      BY <1>3, <1>5, <1>10, <2>1
  <1> DEFINE w == [live[P] EXCEPT !.done = TRUE]
  <1>12. more[P] = w
    <2>1. live[P].at = x.at
      BY <1>4 DEF Pictured
    <2>2. QED
      BY <1>3, <1>5, <1>10, <2>1
  <1>13. /\ w.at = x.at /\ w.id = x.id /\ w.kind = x.kind /\ w.done = TRUE
         /\ w.text = cells[key].shown
    <2>1. live[P] \in LiveItem
      BY <1>2, <1>3
    <2>2. /\ w.at = live[P].at /\ w.id = live[P].id /\ w.kind = live[P].kind
          /\ w.text = live[P].text /\ w.done = TRUE
      BY <2>1 DEF LiveItem
    <2> HIDE DEF w
    <2>3. QED
      BY <1>4, <2>2 DEF Pictured
  <1>14. /\ y \in PlacedItem /\ all \in Seq(PlacedItem) /\ Len(all) = M /\ M \in 1..M
         /\ \A p \in 1..N : all[p] = its[p] /\ p \in 1..M
         /\ all[M] = y /\ \A p \in 1..M : p = M \/ p \in 1..N
         /\ y.at = x.at /\ y.item = item
    <2>1. y \in PlacedItem
      BY <1>3 DEF PlacedItem
    <2>2. \A p \in 1..M : p = M \/ p \in 1..N
      BY <1>2
    <2>3. QED
      BY <1>1, <1>2, <2>1, <2>2
  <1>15. /\ b.items \in Seq(AnswerItem) /\ Len(b.items) = M
         /\ (\A p \in 1..N : b.items[p] = a.items[p])
         /\ b.items[M] = item
    BY <1>2, <1>9
  <1>16. /\ new \in [Keys -> Cell] /\ new[key] = x
         /\ \A k \in Keys : k # key => new[k] = cells[k]
         /\ \A k \in Keys : new[k].at = cells[k].at
                            /\ new[k].id = cells[k].id /\ new[k].kind = cells[k].kind
    BY <1>1
  <1>17. /\ \A k \in Keys : cells[k].at >= 0 => cells[k].at + 1 \in 1..next
         /\ \A k \in Keys : cells[k].at >= 0 /\ k # key => cells[k].at + 1 # P
    BY <1>1, InPlace
  <1>18. \A k \in Keys : cells[k].at >= 0 /\ k # key =>
            more[cells[k].at + 1] = live[cells[k].at + 1]
    BY <1>11, <1>17, Zenon
  <1> HIDE DEF new, b, e, more, closed, w, y, all, M
  <1>19. ASSUME NEW k \in Keys, new[k].at >= 0
         PROVE  Pictured(new[k], more[new[k].at + 1])
    <2>1. CASE k = key
      <3>1. Pictured(x, w)
        BY <1>13, Zenon DEF Pictured, Cell
      <3>2. QED
        BY <1>12, <1>16, <2>1, <3>1
    <2>2. CASE k # key
      <3>1. Pictured(cells[k], live[cells[k].at + 1])
        BY <1>1, <1>16, <1>19 DEF Seen
      <3>2. QED
        BY <1>16, <1>18, <1>19, <2>2, <3>1
    <2>3. QED
      BY <2>1, <2>2
  <1>20. Seen(new, next, more)
    <2> HIDE DEF live
    <2>1. QED
      BY <1>1, <1>10, <1>16, <1>19 DEF Seen
  <1>21. Given(new, all, more, b.items)
    <2>1. ASSUME NEW p \in 1..M PROVE \E k \in Keys : IsGiven(new[k], all[p], more)
      <3>1. CASE p = M
        <4>1. IsGiven(x, y, more)
          BY <1>3, <1>12, <1>13, <1>14 DEF IsGiven
        <4>2. QED
          BY <1>14, <1>16, <3>1, <4>1
      <3>2. CASE p \in 1..N
        <4>1. PICK k \in Keys : IsGiven(cells[k], its[p], live)
          BY <1>1, <3>2 DEF Given
        <4>2. cells[k].at >= 0 /\ cells[k].done /\ k # key
          BY <4>1 DEF IsGiven
        <4>3. more[cells[k].at + 1] = live[cells[k].at + 1] /\ new[k] = cells[k]
          BY <1>16, <1>18, <4>2
        <4>4. IsGiven(new[k], all[p], more)
          BY <1>14, <3>2, <4>1, <4>3 DEF IsGiven
        <4>5. QED
          BY <4>4
      <3>3. QED
        BY <1>14, <3>1, <3>2
    <2>2. ASSUME NEW p \in 1..N PROVE its[p].at # x.at
      <3>1. PICK k \in Keys : IsGiven(cells[k], its[p], live)
        BY <1>1 DEF Given
      <3>2. cells[k].at >= 0 /\ cells[k].done /\ k # key /\ its[p].at = cells[k].at
        BY <3>1 DEF IsGiven
      <3>3. cells[k].at # cells[key].at
        BY <1>1, <3>2 DEF Seen
      <3>4. QED
        BY <3>2, <3>3
    <2>3. ASSUME NEW p \in 1..M, NEW q \in 1..M, all[p].at = all[q].at PROVE p = q
      <3>1. CASE p = M /\ q = M
        BY <3>1
      <3>2. CASE p = M /\ q \in 1..N
        BY <1>14, <2>2, <2>3, <3>2
      <3>3. CASE p \in 1..N /\ q = M
        BY <1>14, <2>2, <2>3, <3>3
      <3>4. CASE p \in 1..N /\ q \in 1..N
        <4>1. all[p] = its[p] /\ all[q] = its[q]
          BY <1>14, <3>4
        <4>2. QED
          BY <1>1, <2>3, <3>4, <4>1 DEF Given
      <3>5. QED
        BY <1>14, <3>1, <3>2, <3>3, <3>4
    <2>4. ASSUME NEW k \in Keys, new[k].done
          PROVE  new[k].at >= 0 /\ \E p \in 1..M : all[p].at = new[k].at
      <3>1. CASE k = key
        BY <1>3, <1>14, <1>16, <3>1
      <3>2. CASE k # key
        <4>1. new[k] = cells[k]
          BY <1>16, <3>2
        <4>2. cells[k].at >= 0 /\ \E p \in 1..N : its[p].at = cells[k].at
          BY <1>1, <2>4, <4>1 DEF Given
        <4>3. PICK p \in 1..N : its[p].at = cells[k].at
          BY <4>2
        <4>4. p \in 1..M /\ all[p].at = new[k].at
          BY <1>14, <4>1, <4>3
        <4>5. QED
          BY <4>1, <4>2, <4>4
      <3>3. QED
        BY <3>1, <3>2
    <2>5. \A p \in 1..M : b.items[p] = all[p].item
      <3>1. \A p \in 1..N : a.items[p] = its[p].item
        BY <1>1 DEF Given
      <3>2. QED
        BY <1>14, <1>15, <3>1
    <2>6. QED
      BY <1>14, <1>15, <2>1, <2>3, <2>4, <2>5 DEF Given
  <1>22. Shows(new, next, all, b)
    <2> HIDE DEF live
    <2>1. QED
      BY <1>1, <1>8, <1>9, <1>14, <1>16, <1>20, <1>21 DEF Shows
  <1>23. QED
    BY <1>22 DEF new, all, y, b, e

(* What the app does not see of an item may change.                        *)
LEMMA Unnoticed ==
    ASSUME NEW cells, NEW next, NEW its, NEW a, Shows(cells, next, its, a),
           NEW key \in Keys, NEW x \in Cell, x.at = cells[key].at, x.done = cells[key].done,
           x.at >= 0 => /\ x.kind = cells[key].kind /\ x.id = cells[key].id
                        /\ ~x.done => x.shown = cells[key].shown
    PROVE  Shows([cells EXCEPT ![key] = x], next, its, a)
  <1>1. /\ cells \in [Keys -> Cell] /\ next \in Nat /\ its \in Seq(PlacedItem)
        /\ a \in AppState /\ a.end = "none"
        /\ Seen(cells, next, a.live) /\ Given(cells, its, a.live, a.items)
    BY DEF Shows
  <1>2. CASE x.at >= 0
    <2>1. Pictured(x, a.live[x.at + 1])
      BY <1>1, <1>2 DEF Seen, Pictured
    <2>2. QED
      BY <1>1, <1>2, <2>1, OneShownMore, Zenon
  <1>3. CASE ~(x.at >= 0)
    <2> DEFINE new == [cells EXCEPT ![key] = x]
    <2>1. /\ new \in [Keys -> Cell] /\ new[key] = x
          /\ \A k \in Keys : k # key => new[k] = cells[k]
          /\ \A k \in Keys : new[k].at = cells[k].at /\ new[k].done = cells[k].done
      BY <1>1
    <2> HIDE DEF new
    <2>2. \A k \in Keys : new[k].at >= 0 => new[k] = cells[k]
      BY <1>3, <2>1
    <2>3. Seen(new, next, a.live)
      BY <1>1, <2>1, <2>2 DEF Seen
    <2>4. Given(new, its, a.live, a.items)
      <3>1. ASSUME NEW p \in 1..Len(its) PROVE \E k \in Keys : IsGiven(new[k], its[p], a.live)
        <4>1. PICK k \in Keys : IsGiven(cells[k], its[p], a.live)
          BY <1>1 DEF Given
        <4>2. new[k] = cells[k]
          BY <2>1, <2>2, <4>1 DEF IsGiven
        <4>3. QED
          BY <4>1, <4>2
      <3>2. QED
        BY <1>1, <2>1, <3>1 DEF Given
    <2>5. QED
      BY <1>1, <2>1, <2>3, <2>4 DEF Shows, new
  <1>4. QED
    BY <1>2, <1>3

(* The converter's state.                                                  *)
TextItem == [at : Int, text : Tokens, done : BOOLEAN]
ToolItem == [here : BOOLEAN, at : Int, item : CallIds \cup {<<>>}, id : AnyIds,
             name : STRING \cup {NoName, UnknownTool}, args : Tokens, done : BOOLEAN]
Conv == [started : BOOLEAN, completed : BOOLEAN, failed : BOOLEAN, next : Nat,
         mode : {"detecting", "reasoning", "text"}, buffer : Tokens,
         reasoning : TextItem, message : TextItem, tools : [ToolSlots -> ToolItem],
         items : Seq(PlacedItem), finish : STRING \cup {"none"}, out : Seq(Event)]

(* Its items.                                                              *)
TextCell(t, kind) == [at |-> t.at, id |-> <<kind>>, kind |-> kind, text |-> t.text,
                      shown |-> t.text, done |-> t.done]
CallCell(t) == [at |-> t.at, id |-> t.item, kind |-> "call", text |-> t.args,
                shown |-> IF IsCustom(t.name) THEN <<>> ELSE t.args, done |-> t.done]
Cells(c) == [key \in Keys |-> IF key = -2 THEN TextCell(c.reasoning, "reasoning")
                              ELSE IF key = -1 THEN TextCell(c.message, "message")
                              ELSE CallCell(c.tools[key])]
KeyOf(kind) == IF kind = "reasoning" THEN -2 ELSE -1

(* Nothing has changed but what is said of the items.                      *)
Beside(d, c) ==
    /\ d.started = c.started /\ d.completed = c.completed /\ d.failed = c.failed
    /\ d.mode = c.mode /\ d.buffer = c.buffer /\ d.finish = c.finish
OnlyText(d, c, kind) ==
    /\ Beside(d, c) /\ d.tools = c.tools
    /\ \A other \in TextKinds : other # kind => d[other] = c[other]

(* A converter's items are cells.                                          *)
LEMMA CellsTyped ==
    ASSUME NEW c \in Conv
    PROVE  Cells(c) \in [Keys -> Cell]
  <1>1. \A t \in TextItem : \A kind \in TextKinds : TextCell(t, kind) \in Cell
    BY DEF TextCell, Cell, TextItem, TextKinds, LiveIds
  <1>2. \A t \in ToolItem : CallCell(t) \in Cell
    <2>1. <<>> \in Tokens
      BY DEF Tokens
    <2>2. QED
      BY <2>1 DEF CallCell, Cell, ToolItem, LiveIds
  <1>3. c.reasoning \in TextItem /\ c.message \in TextItem /\ c.tools \in [ToolSlots -> ToolItem]
    BY DEF Conv
  <1>4. \A key \in Keys : key = -2 \/ key = -1 \/ key \in ToolSlots
    BY StreamAssumption DEF Keys, ToolSlots
  <1>5. {"reasoning", "message"} \subseteq TextKinds
    BY DEF TextKinds
  <1>6. QED
    BY <1>1, <1>2, <1>3, <1>4, <1>5 DEF Cells

(* An event is written, and the app reads it after what it has read.       *)
LEMMA EmitIs ==
    ASSUME NEW c \in Conv, NEW e \in Event
    PROVE  /\ Emit(c, e) \in Conv
           /\ Emit(c, e).started = c.started /\ Emit(c, e).completed = c.completed
           /\ Emit(c, e).failed = c.failed /\ Emit(c, e).next = c.next
           /\ Emit(c, e).mode = c.mode /\ Emit(c, e).buffer = c.buffer
           /\ Emit(c, e).reasoning = c.reasoning /\ Emit(c, e).message = c.message
           /\ Emit(c, e).tools = c.tools /\ Emit(c, e).items = c.items
           /\ Emit(c, e).finish = c.finish
           /\ Emit(c, e).out = Append(c.out, e)
  <1> DEFINE o == Append(c.out, e)
  <1>1. o \in Seq(Event)
    BY DEF Conv
  <1>2. Emit(c, e) = [c EXCEPT !.out = o]
    BY DEF Emit
  <1> HIDE DEF o
  <1>3. QED
    BY <1>1, <1>2, Zenon DEF Conv, o

(* What is written is read last, and no item changes by it.                *)
LEMMA EmitRead ==
    ASSUME NEW a \in AppState, NEW c \in Conv, NEW e \in Event
    PROVE  /\ HasRead(a, Emit(c, e)) = Receive(HasRead(a, c), e)
           /\ Cells(Emit(c, e)) = Cells(c)
  <1>1. c.out \in Seq(Event)
    BY DEF Conv
  <1>2. HasRead(a, Emit(c, e)) = Receive(HasRead(a, c), e)
    <2>1. Emit(c, e).out = Append(c.out, e)
      BY EmitIs
    <2>2. ReceiveAll(a, Append(c.out, e)) = Receive(ReceiveAll(a, c.out), e)
      BY <1>1, ReceiveMore
    <2>3. QED
      BY <2>1, <2>2 DEF HasRead
  <1>3. Cells(Emit(c, e)) = Cells(c)
    BY EmitIs DEF Cells
  <1>4. QED
    BY <1>2, <1>3

(* Of the converter only one text has changed.                             *)
LEMMA TextChanges ==
    ASSUME NEW c \in Conv, NEW kind \in TextKinds, NEW t \in TextItem
    PROVE  /\ [c EXCEPT ![kind] = t] \in Conv
           /\ OnlyText([c EXCEPT ![kind] = t], c, kind)
           /\ [c EXCEPT ![kind] = t].out = c.out
           /\ [c EXCEPT ![kind] = t].items = c.items /\ [c EXCEPT ![kind] = t].next = c.next
           /\ [c EXCEPT ![kind] = t][kind] = t
           /\ Cells([c EXCEPT ![kind] = t]) = [Cells(c) EXCEPT ![KeyOf(kind)] = TextCell(t, kind)]
           /\ KeyOf(kind) \in Keys /\ Cells(c)[KeyOf(kind)] = TextCell(c[kind], kind)
  <1>1. -1 \in Keys /\ -2 \in Keys
    BY StreamAssumption DEF Keys
  <1>2. CASE kind = "reasoning"
    <2> DEFINE d == [c EXCEPT !.reasoning = t]
    <2>1. /\ d \in Conv /\ d.reasoning = t /\ d.message = c.message /\ d.tools = c.tools
          /\ d.out = c.out /\ d.items = c.items /\ d.next = c.next /\ Beside(d, c)
      BY Zenon DEF Conv, Beside
    <2> HIDE DEF d
    <2>2. Cells(d) = [Cells(c) EXCEPT ![-2] = TextCell(t, "reasoning")]
      BY <1>1, <2>1, Zenon DEF Cells
    <2>3. Cells(c)[-2] = TextCell(c.reasoning, "reasoning")
      BY <1>1 DEF Cells
    <2>4. QED
      BY <1>1, <1>2, <2>1, <2>2, <2>3, Zenon DEF d, KeyOf, OnlyText, TextKinds
  <1>3. CASE kind = "message"
    <2> DEFINE d == [c EXCEPT !.message = t]
    <2>1. /\ d \in Conv /\ d.message = t /\ d.reasoning = c.reasoning /\ d.tools = c.tools
          /\ d.out = c.out /\ d.items = c.items /\ d.next = c.next /\ Beside(d, c)
      BY Zenon DEF Conv, Beside
    <2> HIDE DEF d
    <2>2. Cells(d) = [Cells(c) EXCEPT ![-1] = TextCell(t, "message")]
      <3> DEFINE o == Cells(c)
                 x == TextCell(t, "message")
                 n == [o EXCEPT ![-1] = x]
      <3>1. -1 # -2
        OBVIOUS
      <3>2. /\ DOMAIN o = Keys /\ DOMAIN n = Keys /\ DOMAIN Cells(d) = Keys
            /\ n[-1] = x /\ \A key \in Keys : key # -1 => n[key] = o[key]
        BY <1>1 DEF Cells
      <3>3. Cells(d)[-1] = x
        BY <1>1, <2>1, <3>1 DEF Cells
      <3>4. \A key \in Keys : key # -1 => Cells(d)[key] = o[key]
        BY <2>1 DEF Cells
      <3>5. n = [key \in Keys |-> n[key]] /\ Cells(d) = [key \in Keys |-> Cells(d)[key]]
        BY <3>2 DEF Cells
      <3> HIDE DEF o, n, x
      <3>6. \A key \in Keys : Cells(d)[key] = n[key]
        BY <3>2, <3>3, <3>4
      <3>7. QED
        BY <3>5, <3>6 DEF n, o, x
    <2>3. Cells(c)[-1] = TextCell(c.message, "message")
      BY <1>1 DEF Cells
    <2>4. QED
      BY <1>1, <1>3, <2>1, <2>2, <2>3, Zenon DEF d, KeyOf, OnlyText, TextKinds
  <1>4. QED
    BY <1>2, <1>3 DEF TextKinds

(* A call that is announced has a name and an id, and those it was         *)
(* announced with; a text that is not has no words yet.                    *)
NamedCall(t) == t.at >= 0 => t.here /\ t.item = ItemId(t) /\ t.name # NoName /\ t.id # NoId
Tidy(c) ==
    /\ \A i \in ToolSlots : NamedCall(c.tools[i])
    /\ \A kind \in TextKinds : c[kind].at < 0 => c[kind].text = <<>>

(* An app that has read all the converter wrote has seen what it has.      *)
Honest(a, c) ==
    /\ c \in Conv /\ a \in AppState /\ Tidy(c)
    /\ Shows(Cells(c), c.next, c.items, HasRead(a, c))

(* Writing an event changes no item.                                       *)
LEMMA EmitBeside ==
    ASSUME NEW c \in Conv, NEW e \in Event
    PROVE  /\ Beside(Emit(c, e), c) /\ Emit(c, e).tools = c.tools
           /\ Emit(c, e).items = c.items /\ Emit(c, e).next = c.next
           /\ \A kind \in TextKinds : Emit(c, e)[kind] = c[kind]
           /\ Tidy(c) => Tidy(Emit(c, e))
  <1>1. \A kind \in TextKinds : Emit(c, e)[kind] = c[kind]
    BY EmitIs DEF TextKinds
  <1>2. Emit(c, e).tools = c.tools /\ Beside(Emit(c, e), c)
        /\ Emit(c, e).items = c.items /\ Emit(c, e).next = c.next
    BY EmitIs DEF Beside
  <1>3. Tidy(c) => Tidy(Emit(c, e))
    BY <1>1, <1>2 DEF Tidy
  <1>4. QED
    BY <1>1, <1>2, <1>3

(* Each kind of text has its item in the converter's state.                *)
LEMMA KindText ==
    ASSUME NEW c \in Conv, NEW kind \in TextKinds
    PROVE  /\ c[kind] \in TextItem /\ c[kind].at \in Int /\ c[kind].text \in Tokens
           /\ <<kind>> \in LiveIds /\ c.next \in Nat
  <1>1. c.reasoning \in TextItem /\ c.message \in TextItem /\ c.next \in Nat
    BY DEF Conv
  <1>2. c[kind] \in TextItem
    BY <1>1 DEF TextKinds
  <1>3. QED
    BY <1>1, <1>2 DEF TextItem, TextKinds, LiveIds

(* A text is announced.                                                    *)
AnnouncedText(c, kind) ==
    Emit([c EXCEPT ![kind].at = c.next, !.next = @ + 1], Added(c.next, <<kind>>, kind))

(* The app sees a text announced, and nothing else.                        *)
LEMMA AnnounceText ==
    ASSUME NEW a, NEW c, Honest(a, c), NEW kind \in TextKinds, c[kind].at < 0
    PROVE  /\ Honest(a, AnnouncedText(c, kind))
           /\ OnlyText(AnnouncedText(c, kind), c, kind)
           /\ AnnouncedText(c, kind).items = c.items
           /\ AnnouncedText(c, kind)[kind] = [c[kind] EXCEPT !.at = c.next]
           /\ c[kind].text = <<>> /\ c.next \in Nat /\ ~c[kind].done
  <1> DEFINE t == [c[kind] EXCEPT !.at = c.next]
             d == [c EXCEPT ![kind] = t]
             f == [d EXCEPT !.next = c.next + 1]
             e == Added(c.next, <<kind>>, kind)
             p == Emit(f, e)
             x == TextCell(t, kind)
             key == KeyOf(kind)
             new == [Cells(c) EXCEPT ![key] = x]
  <1>1. /\ c \in Conv /\ a \in AppState /\ Tidy(c)
        /\ Shows(Cells(c), c.next, c.items, HasRead(a, c))
    BY DEF Honest
  <1>2. c[kind] \in TextItem /\ <<kind>> \in LiveIds /\ c.next \in Nat /\ c.next \in Int
    BY <1>1, KindText
  <1>3. c[kind].text = <<>>
    BY <1>1 DEF Tidy
  <1>4. /\ t \in TextItem /\ t.at = c.next /\ t.text = <<>> /\ t.done = c[kind].done
    BY <1>2, <1>3 DEF TextItem
  <1>5. AnnouncedText(c, kind) = p
    <2>1. [c EXCEPT ![kind].at = c.next, !.next = @ + 1] = f
      BY <1>1 DEF Conv, TextKinds
    <2>2. QED
      BY <2>1 DEF AnnouncedText
  <1> HIDE DEF t
  <1>6. /\ d \in Conv /\ d.out = c.out /\ d.items = c.items /\ d.next = c.next
        /\ OnlyText(d, c, kind)
        /\ d[kind] = t /\ Cells(d) = new
        /\ key \in Keys /\ Cells(c)[key] = TextCell(c[kind], kind)
    BY <1>1, <1>4, TextChanges
  <1> HIDE DEF d
  <1>7. /\ f \in Conv /\ f.out = d.out /\ f.items = d.items /\ f.next = c.next + 1
        /\ f.tools = d.tools /\ f.reasoning = d.reasoning /\ f.message = d.message
        /\ Beside(f, d)
    <2> DEFINE n == c.next + 1
    <2>1. n \in Nat
      BY <1>2
    <2>2. f = [d EXCEPT !.next = n]
      OBVIOUS
    <2> HIDE DEF n, f
    <2>3. QED
      BY <1>6, <2>1, <2>2, Zenon DEF Conv, Beside, n
  <1> HIDE DEF f
  <1>8. \A other \in TextKinds : f[other] = d[other]
    BY <1>7 DEF TextKinds
  <1>9. OnlyText(f, c, kind) /\ f[kind] = t
    BY <1>6, <1>7, <1>8 DEF OnlyText, Beside
  <1>10. Cells(f) = new /\ HasRead(a, f) = HasRead(a, c)
    BY <1>6, <1>7 DEF Cells, HasRead
  <1>11. e \in Event
    BY <1>2 DEF Added, Event
  <1>12. Tidy(f)
    <2>1. f.tools = c.tools
      BY <1>9 DEF OnlyText
    <2>2. \A other \in TextKinds : f[other].at < 0 => f[other].text = <<>>
      BY <1>1, <1>4, <1>9 DEF OnlyText, Tidy
    <2>3. QED
      BY <1>1, <2>1, <2>2 DEF Tidy
  <1>13. /\ p \in Conv /\ Tidy(p) /\ p.items = c.items /\ p.next = c.next + 1
         /\ OnlyText(p, c, kind) /\ p[kind] = t
    <2>1. /\ p \in Conv /\ Tidy(p) /\ p.items = f.items /\ p.next = f.next
          /\ Beside(p, f) /\ p.tools = f.tools /\ \A other \in TextKinds : p[other] = f[other]
      BY <1>7, <1>11, <1>12, EmitIs, EmitBeside
    <2>2. QED
      BY <1>6, <1>7, <1>9, <2>1 DEF OnlyText, Beside
  <1>14. HasRead(a, p) = Receive(HasRead(a, c), e) /\ Cells(p) = new
    BY <1>1, <1>7, <1>10, <1>11, EmitRead
  <1>15. Cells(c)[key].at < 0 /\ ~Cells(c)[key].done /\ ~c[kind].done
    <2>1. Cells(c)[key].at = c[kind].at /\ Cells(c)[key].done = c[kind].done
      BY <1>6 DEF TextCell
    <2>2. Cells(c)[key].done => Cells(c)[key].at >= 0
      BY <1>1, <1>6 DEF Shows, Given
    <2>3. QED
      BY <1>2, <2>1, <2>2 DEF TextItem
  <1>16. /\ x \in Cell /\ x.at = c.next /\ ~x.done /\ x.shown = <<>> /\ x.id = <<kind>>
         /\ x.kind = kind
    <2>1. x \in Cell
      BY <1>2, <1>4 DEF TextCell, Cell, TextItem
    <2>2. x.at = t.at /\ x.done = t.done /\ x.shown = t.text /\ x.id = <<kind>> /\ x.kind = kind
      BY DEF TextCell
    <2>3. QED
      BY <1>4, <1>15, <2>1, <2>2
  <1> HIDE DEF x, key, p
  <1>17. Shows([Cells(c) EXCEPT ![key] = x], c.next + 1, c.items,
               Receive(HasRead(a, c), Added(c.next, x.id, x.kind)))
    BY <1>1, <1>2, <1>6, <1>15, <1>16, Announces, Zenon
  <1>18. Shows(Cells(p), p.next, p.items, HasRead(a, p))
    BY <1>13, <1>14, <1>16, <1>17
  <1>19. QED
    BY <1>1, <1>2, <1>3, <1>5, <1>13, <1>15, <1>18 DEF Honest, t

(* A text that is announced grows.                                         *)
GrownText(c, kind, text) ==
    Emit([c EXCEPT ![kind].text = @ \o text], Delta(c[kind].at, <<kind>>, text))

(* The app sees a text grow as the converter does.                         *)
LEMMA GrowText ==
    ASSUME NEW a, NEW c, Honest(a, c), NEW kind \in TextKinds, c[kind].at >= 0,
           NEW text \in Tokens
    PROVE  /\ Honest(a, GrownText(c, kind, text))
           /\ OnlyText(GrownText(c, kind, text), c, kind)
           /\ GrownText(c, kind, text).items = c.items
           /\ GrownText(c, kind, text)[kind].text = c[kind].text \o text
           /\ GrownText(c, kind, text)[kind].at = c[kind].at
           /\ GrownText(c, kind, text)[kind].done = c[kind].done
  <1> DEFINE t == [c[kind] EXCEPT !.text = @ \o text]
             d == [c EXCEPT ![kind] = t]
             e == Delta(c[kind].at, <<kind>>, text)
             p == Emit(d, e)
             x == TextCell(t, kind)
             key == KeyOf(kind)
             new == [Cells(c) EXCEPT ![key] = x]
             old == Cells(c)[key]
  <1>1. /\ c \in Conv /\ a \in AppState /\ Tidy(c)
        /\ Shows(Cells(c), c.next, c.items, HasRead(a, c))
    BY DEF Honest
  <1>2. /\ c[kind] \in TextItem /\ <<kind>> \in LiveIds
        /\ c[kind].at \in Int /\ c[kind].text \in Tokens
    BY <1>1, KindText
  <1>3. c[kind].text \o text \in Tokens
    BY <1>2 DEF Tokens
  <1>4. /\ t \in TextItem /\ t.at = c[kind].at /\ t.text = c[kind].text \o text
        /\ t.done = c[kind].done
    BY <1>2, <1>3, Zenon DEF TextItem
  <1>5. GrownText(c, kind, text) = p
    <2>1. [c EXCEPT ![kind].text = @ \o text] = d
      BY <1>1 DEF Conv, TextKinds
    <2>2. QED
      BY <2>1 DEF GrownText
  <1> HIDE DEF t
  <1>6. /\ d \in Conv /\ d.out = c.out /\ d.items = c.items /\ d.next = c.next
        /\ OnlyText(d, c, kind)
        /\ d[kind] = t /\ Cells(d) = new
        /\ key \in Keys /\ old = TextCell(c[kind], kind)
    BY <1>1, <1>4, TextChanges
  <1> HIDE DEF d
  <1>7. e \in Event
    BY <1>2 DEF Delta, Event
  <1>8. Tidy(d)
    <2>1. d.tools = c.tools
      BY <1>6 DEF OnlyText
    <2>2. \A other \in TextKinds : d[other].at < 0 => d[other].text = <<>>
      BY <1>1, <1>2, <1>4, <1>6 DEF OnlyText, Tidy
    <2>3. QED
      BY <1>1, <2>1, <2>2 DEF Tidy
  <1>9. /\ p \in Conv /\ Tidy(p) /\ p.items = c.items /\ p.next = c.next
        /\ OnlyText(p, c, kind) /\ p[kind] = t
    <2>1. /\ p \in Conv /\ Tidy(p) /\ p.items = d.items /\ p.next = d.next
          /\ Beside(p, d) /\ p.tools = d.tools /\ \A other \in TextKinds : p[other] = d[other]
      BY <1>6, <1>7, <1>8, EmitIs, EmitBeside
    <2>2. QED
      BY <1>6, <2>1 DEF OnlyText, Beside
  <1>10. HasRead(a, p) = Receive(HasRead(a, c), e) /\ Cells(p) = new
    <2>1. HasRead(a, d) = HasRead(a, c)
      BY <1>6 DEF HasRead
    <2>2. HasRead(a, p) = Receive(HasRead(a, d), e) /\ Cells(p) = Cells(d)
      BY <1>1, <1>6, <1>7, EmitRead, Zenon
    <2>3. QED
      BY <1>6, <2>1, <2>2
  <1>11. /\ old.at = c[kind].at /\ old.done = c[kind].done /\ old.shown = c[kind].text
         /\ old.id = <<kind>> /\ old.kind = kind
    BY <1>6 DEF TextCell
  <1>12. /\ x \in Cell /\ x.at = old.at /\ x.done = old.done /\ x.shown = old.shown \o text
         /\ x.id = old.id /\ x.kind = old.kind /\ x.at = c[kind].at /\ x.id = <<kind>>
    <2>1. x \in Cell
      BY <1>2, <1>4, Zenon DEF TextCell, Cell, TextItem
    <2>2. x.at = t.at /\ x.done = t.done /\ x.shown = t.text /\ x.id = <<kind>> /\ x.kind = kind
      BY DEF TextCell
    <2>3. QED
      BY <1>4, <1>11, <2>1, <2>2
  <1> HIDE DEF x, key, p
  <1>13. Shows([Cells(c) EXCEPT ![key] = x], c.next, c.items,
               Receive(HasRead(a, c), Delta(x.at, x.id, text)))
    BY <1>1, <1>2, <1>6, <1>12, Grows, Zenon
  <1>14. Shows(Cells(p), p.next, p.items, HasRead(a, p))
    BY <1>9, <1>10, <1>12, <1>13
  <1>15. QED
    BY <1>1, <1>4, <1>5, <1>9, <1>14 DEF Honest

(* A piece of a text is pushed.                                            *)
LEMMA PushDeltaHonest ==
    ASSUME NEW a, NEW c, Honest(a, c), NEW kind \in TextKinds, NEW text \in Tokens
    PROVE  /\ Honest(a, PushDelta(c, kind, text))
           /\ OnlyText(PushDelta(c, kind, text), c, kind)
           /\ PushDelta(c, kind, text).items = c.items
           /\ PushDelta(c, kind, text)[kind].text = c[kind].text \o text
           /\ PushDelta(c, kind, text)[kind].done = c[kind].done
           /\ PushDelta(c, kind, text)[kind].at >= 0
  <1> DEFINE f == IF c[kind].at >= 0 THEN c ELSE AnnouncedText(c, kind)
             p == GrownText(f, kind, text)
  <1>1. PushDelta(c, kind, text) = p
    <2>1. PushDelta(c, kind, text)
            = Emit([f EXCEPT ![kind].text = @ \o text], Delta(f[kind].at, <<kind>>, text))
      BY DEF PushDelta, AnnouncedText
    <2>2. QED
      BY <2>1 DEF GrownText
  <1>2. c \in Conv
    BY DEF Honest
  <1>3. c[kind] \in TextItem /\ c[kind].at \in Int /\ c.next \in Nat
    BY <1>2, KindText, Zenon
  <1>4. /\ Honest(a, f) /\ OnlyText(f, c, kind) /\ f.items = c.items
        /\ f[kind].at >= 0 /\ f[kind].text = c[kind].text /\ f[kind].done = c[kind].done
        /\ f[kind] \in TextItem
    <2>1. CASE c[kind].at >= 0
      BY <1>3, <2>1 DEF OnlyText, Beside
    <2>2. CASE ~(c[kind].at >= 0)
      <3>1. c[kind].at < 0
        BY <1>3, <2>2
      <3>2. /\ Honest(a, f) /\ OnlyText(f, c, kind) /\ f.items = c.items
            /\ f[kind] = [c[kind] EXCEPT !.at = c.next]
        BY <2>2, <3>1, AnnounceText
      <3> HIDE DEF f
      <3>3. QED
        BY <1>3, <3>2 DEF TextItem
    <2>3. QED
      BY <2>1, <2>2
  <1> HIDE DEF f
  <1>5. /\ Honest(a, p) /\ OnlyText(p, f, kind) /\ p.items = f.items
        /\ p[kind].text = f[kind].text \o text /\ p[kind].at = f[kind].at
        /\ p[kind].done = f[kind].done
    <2>1. Honest(a, f) /\ f[kind].at >= 0
      BY <1>4
    <2>2. /\ Honest(a, GrownText(f, kind, text)) /\ OnlyText(GrownText(f, kind, text), f, kind)
          /\ GrownText(f, kind, text).items = f.items
          /\ GrownText(f, kind, text)[kind].text = f[kind].text \o text
          /\ GrownText(f, kind, text)[kind].at = f[kind].at
          /\ GrownText(f, kind, text)[kind].done = f[kind].done
      BY <2>1, GrowText
    <2>3. QED
      BY <2>2
  <1> HIDE DEF p
  <1>6. p[kind].text = c[kind].text \o text /\ p[kind].done = c[kind].done /\ p[kind].at >= 0
    BY <1>4, <1>5
  <1>7. OnlyText(p, c, kind)
    BY <1>4, <1>5 DEF OnlyText, Beside
  <1>8. QED
    BY <1>1, <1>4, <1>5, <1>6, <1>7

(* A text is finished, if it is announced and is not yet.                  *)
TextGiven(c, kind) == [kind |-> kind, id |-> <<kind>>, text |-> c[kind].text]

(* The app is given the text as it was collected.                          *)
LEMMA FinalizeItemHonest ==
    ASSUME NEW a, NEW c, Honest(a, c), NEW kind \in TextKinds
    PROVE  /\ Honest(a, FinalizeItem(c, kind))
           /\ OnlyText(FinalizeItem(c, kind), c, kind)
           /\ FinalizeItem(c, kind)[kind].text = c[kind].text
           /\ FinalizeItem(c, kind)[kind].at = c[kind].at
           /\ FinalizeItem(c, kind)[kind].at >= 0 => FinalizeItem(c, kind)[kind].done
           /\ \/ FinalizeItem(c, kind) = c
              \/ FinalizeItem(c, kind).items
                    = Append(c.items, [at |-> c[kind].at, item |-> TextGiven(c, kind)])
  <1> DEFINE t == [c[kind] EXCEPT !.done = TRUE]
             item == TextGiven(c, kind)
             y == [at |-> c[kind].at, item |-> item]
             d == [c EXCEPT ![kind] = t]
             f == [d EXCEPT !.items = Append(@, y)]
             e == Finished(c[kind].at, item)
             p == Emit(f, e)
             x == TextCell(t, kind)
             key == KeyOf(kind)
             new == [Cells(c) EXCEPT ![key] = x]
             old == Cells(c)[key]
             all == Append(c.items, y)
  <1>1. /\ c \in Conv /\ a \in AppState /\ Tidy(c)
        /\ Shows(Cells(c), c.next, c.items, HasRead(a, c))
    BY DEF Honest
  <1>2. /\ c[kind] \in TextItem /\ <<kind>> \in LiveIds
        /\ c[kind].at \in Int /\ c[kind].text \in Tokens
    BY <1>1, KindText
  <1>3. FinalizeItem(c, kind) = IF c[kind].at < 0 \/ c[kind].done THEN c ELSE p
    <2>1. [c EXCEPT ![kind].done = TRUE, !.items = Append(@, y)] = f
      BY <1>1, Zenon DEF Conv, TextKinds
    <2>2. QED
      BY <2>1, Zenon DEF FinalizeItem, TextGiven
  <1>4. CASE c[kind].at < 0 \/ c[kind].done
    <2>1. FinalizeItem(c, kind) = c
      BY <1>3, <1>4, Zenon
    <2>2. OnlyText(c, c, kind) /\ (c[kind].at >= 0 => c[kind].done)
      BY <1>2, <1>4 DEF OnlyText, Beside
    <2>3. QED
      BY <2>1, <2>2
  <1>5. CASE ~(c[kind].at < 0 \/ c[kind].done)
    <2>1. /\ t \in TextItem /\ t.at = c[kind].at /\ t.text = c[kind].text /\ t.done = TRUE
      BY <1>2, Zenon DEF TextItem
    <2> HIDE DEF t
    <2>2. /\ d \in Conv /\ d.out = c.out /\ d.items = c.items /\ d.next = c.next
          /\ OnlyText(d, c, kind)
          /\ d[kind] = t /\ Cells(d) = new
          /\ key \in Keys /\ old = TextCell(c[kind], kind)
      BY <1>1, <2>1, TextChanges
    <2>3. /\ item \in AnswerItem /\ item.kind = kind /\ item.id = <<kind>>
          /\ item.text = c[kind].text
      BY <1>2 DEF TextGiven, AnswerItem, TextRecord, TextKinds
    <2> HIDE DEF d, item
    <2>4. y \in PlacedItem /\ c.items \in Seq(PlacedItem) /\ all \in Seq(PlacedItem)
      <3>1. y \in PlacedItem
        BY <1>2, <2>3 DEF PlacedItem
      <3>2. c.items \in Seq(PlacedItem)
        BY <1>1 DEF Conv
      <3> HIDE DEF y
      <3>3. QED
        BY <3>1, <3>2
    <2> HIDE DEF y
    <2>5. f = [d EXCEPT !.items = all]
      BY <2>2
    <2> HIDE DEF f, all
    <2>6. /\ f \in Conv /\ f.out = d.out /\ f.items = all /\ f.next = c.next
          /\ f.tools = d.tools /\ f.reasoning = d.reasoning /\ f.message = d.message
          /\ Beside(f, d)
      BY <2>2, <2>4, <2>5, Zenon DEF Conv, Beside
    <2>7. \A other \in TextKinds : f[other] = d[other]
      BY <2>6 DEF TextKinds
    <2>8. OnlyText(f, c, kind) /\ f[kind] = t
      BY <2>2, <2>6, <2>7 DEF OnlyText, Beside
    <2>9. Cells(f) = new /\ HasRead(a, f) = HasRead(a, c)
      BY <2>2, <2>6 DEF Cells, HasRead
    <2>10. e \in Event
      BY <1>2, <2>3 DEF Finished, Event
    <2>11. Tidy(f)
      <3>1. f.tools = c.tools
        BY <2>8 DEF OnlyText
      <3>2. \A other \in TextKinds : f[other].at < 0 => f[other].text = <<>>
        BY <1>1, <2>1, <2>8 DEF OnlyText, Tidy
      <3>3. QED
        BY <1>1, <3>1, <3>2 DEF Tidy
    <2>12. /\ p \in Conv /\ Tidy(p) /\ p.items = all /\ p.next = c.next
           /\ OnlyText(p, c, kind) /\ p[kind] = t
      <3>1. /\ p \in Conv /\ Tidy(p) /\ p.items = f.items /\ p.next = f.next
            /\ Beside(p, f) /\ p.tools = f.tools /\ \A other \in TextKinds : p[other] = f[other]
        BY <2>6, <2>10, <2>11, EmitIs, EmitBeside
      <3>2. QED
        BY <2>6, <2>8, <3>1 DEF OnlyText, Beside
    <2>13. HasRead(a, p) = Receive(HasRead(a, c), e) /\ Cells(p) = new
      <3>1. HasRead(a, p) = Receive(HasRead(a, f), e) /\ Cells(p) = Cells(f)
        BY <1>1, <2>6, <2>10, EmitRead
      <3>2. QED
        BY <2>9, <3>1
    <2>14. /\ old.at = c[kind].at /\ old.done = c[kind].done /\ old.shown = c[kind].text
           /\ old.id = <<kind>> /\ old.kind = kind /\ old.at >= 0 /\ ~old.done
      <3>1. /\ old.at = c[kind].at /\ old.done = c[kind].done /\ old.shown = c[kind].text
            /\ old.id = <<kind>> /\ old.kind = kind
        BY <2>2 DEF TextCell
      <3>2. QED
        BY <1>2, <1>5, <3>1
    <2>15. /\ x \in Cell /\ x.at = old.at /\ x.done
           /\ x.id = old.id /\ x.kind = old.kind /\ x.at = c[kind].at
      <3>1. x \in Cell
        BY <1>2, <2>1 DEF TextCell, Cell, TextItem
      <3>2. x.at = t.at /\ x.done = t.done /\ x.id = <<kind>> /\ x.kind = kind
        BY DEF TextCell
      <3>3. QED
        BY <2>1, <2>14, <3>1, <3>2
    <2> HIDE DEF x, key, p, old
    <2>16. Shows([Cells(c) EXCEPT ![key] = x], c.next,
                 Append(c.items, [at |-> x.at, item |-> item]),
                 Receive(HasRead(a, c), Finished(x.at, item)))
      <3>1. /\ Cells(c)[key].at >= 0 /\ ~Cells(c)[key].done
            /\ item.kind = Cells(c)[key].kind /\ item.id = Cells(c)[key].id
            /\ item.text = Cells(c)[key].shown
            /\ x.at = Cells(c)[key].at /\ x.kind = Cells(c)[key].kind
            /\ x.id = Cells(c)[key].id
        BY <2>3, <2>14, <2>15 DEF old
      <3>2. QED
        BY <1>1, <2>2, <2>3, <2>15, <3>1, Finishes, Zenon
    <2>17. Shows(Cells(p), p.next, p.items, HasRead(a, p))
      BY <2>12, <2>13, <2>15, <2>16 DEF all, y
    <2>18. FinalizeItem(c, kind) = p
      BY <1>3, <1>5
    <2>19. QED
      BY <1>1, <2>1, <2>12, <2>17, <2>18, Zenon DEF Honest, all, y, item
  <1>6. QED
    BY <1>4, <1>5

(* A token put behind the second of two texts is behind both.              *)
LEMMA AppendJoined ==
    ASSUME NEW T, NEW s \in Seq(T), NEW t \in Seq(T), NEW x \in T
    PROVE  s \o Append(t, x) = Append(s \o t, x)
  <1> DEFINE u == s \o Append(t, x)
             v == Append(s \o t, x)
             L == Len(s)
             N == Len(t)
  <1>1. L \in Nat /\ N \in Nat /\ Append(t, x) \in Seq(T) /\ s \o t \in Seq(T)
        /\ Len(Append(t, x)) = N + 1 /\ Len(s \o t) = L + N
    OBVIOUS
  <1>2. /\ u \in Seq(T) /\ Len(u) = L + (N + 1)
        /\ \A i \in 1..L : u[i] = s[i]
        /\ \A i \in 1..(N + 1) : u[L + i] = Append(t, x)[i]
    BY <1>1
  <1>3. /\ v \in Seq(T) /\ Len(v) = (L + N) + 1 /\ v[(L + N) + 1] = x
        /\ \A i \in 1..(L + N) : v[i] = (s \o t)[i]
    BY <1>1
  <1>4. /\ \A i \in 1..N : Append(t, x)[i] = t[i]
        /\ Append(t, x)[N + 1] = x
        /\ \A i \in 1..L : (s \o t)[i] = s[i]
        /\ \A i \in 1..N : (s \o t)[L + i] = t[i]
    OBVIOUS
  <1> DEFINE M == (L + N) + 1
  <1>5. L + (N + 1) = M /\ N + 1 \in 1..(N + 1) /\ (\A i \in 1..N : i \in 1..(N + 1))
        /\ (\A i \in 1..N : L + i \in 1..(L + N)) /\ (\A i \in 1..L : i \in 1..(L + N))
    BY <1>1
  <1>6. u[M] = v[M]
    BY <1>2, <1>3, <1>4, <1>5
  <1>7. \A i \in 1..L : u[i] = v[i]
    BY <1>2, <1>3, <1>4, <1>5
  <1>8. \A i \in 1..N : u[L + i] = v[L + i]
    <2> SUFFICES ASSUME NEW i \in 1..N PROVE u[L + i] = v[L + i]
      OBVIOUS
    <2>1. u[L + i] = t[i]
      BY <1>2, <1>4, <1>5
    <2>2. v[L + i] = t[i]
      BY <1>3, <1>4, <1>5
    <2>3. QED
      BY <2>1, <2>2
  <1>9. Len(u) = M /\ Len(v) = M /\ u \in Seq(T) /\ v \in Seq(T)
    BY <1>2, <1>3, <1>5
  <1> HIDE DEF u, v
  <1>10. ASSUME NEW i \in 1..M PROVE u[i] = v[i]
    <2>1. i \in 1..L \/ i = M \/ (i - L \in 1..N /\ L + (i - L) = i)
      BY <1>1
    <2> HIDE DEF L, N, M
    <2>2. QED
      BY <1>6, <1>7, <1>8, <2>1
  <1>11. u = v
    <2>1. u = [i \in 1..M |-> u[i]] /\ v = [i \in 1..M |-> v[i]]
      BY <1>9
    <2>2. QED
      BY <1>10, <2>1
  <1>12. QED
    BY <1>11 DEF u, v

(* Joining one sequence more.                                              *)
LEMMA FlattenMore ==
    ASSUME NEW T, NEW seqs \in Seq(Seq(T)), NEW x \in Seq(T)
    PROVE  FlattenSeq(Append(seqs, x)) = FlattenSeq(seqs) \o x
  <1> DEFINE N == Len(seqs)
             M == N + 1
             more == Append(seqs, x)
  <1>0. /\ N \in Nat /\ more \in Seq(Seq(T)) /\ Len(more) = M
        /\ M \in Nat /\ M - 1 = N /\ more[M] = x
        /\ \A n \in 1..N : more[n] = seqs[n]
    OBVIOUS
  <1>1. /\ N \in Nat /\ more \in Seq(Seq(T)) /\ Len(more) = M /\ more # <<>>
        /\ M \in Nat /\ M - 1 = N /\ more[M] = x
        /\ \A n \in 1..N : more[n] = seqs[n]
    <2>1. M # 0 /\ Len(<<>>) = 0
      OBVIOUS
    <2> HIDE DEF more, M
    <2>2. more # <<>>
      BY <1>0, <2>1
    <2>3. QED
      BY <1>0, <2>2
  <1> HIDE DEF more
  <1>2. PICK f : /\ FlattenSeq(more) = f[Len(more)] /\ f[1] = more[1]
                 /\ \A n \in 2..Len(more) : f[n] = f[n - 1] \o more[n]
    <2>1. more \in Seq(Seq(T)) /\ more # <<>>
      BY <1>1
    <2>2. QED
      BY <2>1, FlattenUnfolds, Zenon
  <1>3. CASE seqs = <<>>
    <2>1. N = 0 /\ FlattenSeq(seqs) = <<>>
      BY <1>3 DEF FlattenSeq
    <2>2. FlattenSeq(more) = x /\ <<>> \o x = x
      BY <1>1, <1>2, <2>1
    <2>3. QED
      BY <2>1, <2>2 DEF more
  <1>4. CASE seqs # <<>>
    <2>1. PICK g : /\ FlattenSeq(seqs) = g[Len(seqs)] /\ g[1] = seqs[1]
                   /\ \A n \in 2..Len(seqs) : g[n] = g[n - 1] \o seqs[n]
      BY <1>4, FlattenUnfolds, Zenon
    <2>2. N >= 1 /\ 1 \in 1..N
      BY <1>1, <1>4
    <2> DEFINE S == {n \in Nat : n + 1 <= N => f[n + 1] = g[n + 1]}
    <2> HIDE DEF N, M
    <2>3. 0 \in S
      BY <1>1, <1>2, <2>1, <2>2
    <2>4. ASSUME NEW n \in Nat, n \in S PROVE n + 1 \in S
      <3> SUFFICES ASSUME (n + 1) + 1 <= N PROVE f[(n + 1) + 1] = g[(n + 1) + 1]
        OBVIOUS
      <3> DEFINE k == (n + 1) + 1
      <3>1. k \in 2..N /\ k \in 2..M /\ k \in 1..N /\ k - 1 = n + 1 /\ n + 1 <= N
        BY <1>1 DEF M
      <3> HIDE DEF k
      <3>2. f[k] = f[n + 1] \o more[k] /\ g[k] = g[n + 1] \o seqs[k]
        BY <1>1, <1>2, <2>1, <3>1, Zenon DEF N
      <3>3. f[n + 1] = g[n + 1] /\ more[k] = seqs[k]
        BY <1>1, <2>4, <3>1, Zenon
      <3>4. QED
        BY <3>2, <3>3 DEF k
    <2>5. f[N] = g[N]
      <3>1. N - 1 \in Nat /\ (N - 1) + 1 = N
        BY <1>1, <2>2
      <3>2. N - 1 \in S
        <4> HIDE DEF S
        <4> QED BY <2>3, <2>4, <3>1, Induction, Zenon
      <3>3. QED
        BY <1>1, <3>1, <3>2
    <2>6. M \in 2..Len(more)
      BY <1>1, <2>2 DEF M
    <2>7. f[M] = f[N] \o x
      BY <1>1, <1>2, <2>6, Zenon
    <2>8. QED
      BY <1>1, <1>2, <2>1, <2>5, <2>7 DEF more, N
  <1>5. QED
    BY <1>3, <1>4

(* A sequence of one.                                                      *)
LEMMA OneIn ==
    ASSUME NEW T, NEW x \in T
    PROVE  /\ <<x>> \in Seq(T) /\ <<>> \in Seq(T)
           /\ \A w \in Seq(T) : w \o <<x>> = Append(w, x) /\ w \o <<>> = w
  OBVIOUS

(* A sequence with one element more.                                       *)
LEMMA AppendIs ==
    ASSUME NEW T, NEW s \in Seq(T), NEW x \in T
    PROVE  /\ Len(s) \in Nat /\ Append(s, x) \in Seq(T) /\ Len(Append(s, x)) = Len(s) + 1
           /\ Append(s, x)[Len(s) + 1] = x
           /\ \A n \in 1..Len(s) : Append(s, x)[n] = s[n]
           /\ DOMAIN Append(s, x) = 1..(Len(s) + 1)
  OBVIOUS

(* The words of a text with one token more.                                *)
LEMMA WordsMore ==
    ASSUME NEW s \in Tokens, NEW x \in STRING
    PROVE  /\ Words(s) \in Tokens
           /\ Words(Append(s, x)) = IF x \in Vocabulary THEN Append(Words(s), x) ELSE Words(s)
  <1> DEFINE piece(y) == IF y \in Vocabulary THEN <<y>> ELSE <<>>
             of == [n \in DOMAIN s |-> piece(s[n])]
             t == Append(s, x)
             off == [n \in DOMAIN t |-> piece(t[n])]
             N == Len(s)
  <1>1. /\ N \in Nat /\ DOMAIN s = 1..N /\ DOMAIN t = 1..(N + 1)
        /\ t[N + 1] = x /\ \A n \in 1..N : t[n] = s[n] /\ s[n] \in STRING
    <2> DEFINE T == STRING
    <2>1. s \in Seq(T) /\ x \in T
      BY Zenon DEF Tokens
    <2> HIDE DEF T
    <2>2. N \in Nat /\ DOMAIN s = 1..N /\ \A n \in 1..N : s[n] \in T
      BY <2>1
    <2>3. /\ DOMAIN t = 1..(N + 1) /\ t[N + 1] = x
          /\ \A n \in 1..N : t[n] = s[n]
      <3>1. /\ Len(s) \in Nat /\ Append(s, x) \in Seq(T) /\ Len(Append(s, x)) = Len(s) + 1
            /\ Append(s, x)[Len(s) + 1] = x
            /\ \A n \in 1..Len(s) : Append(s, x)[n] = s[n]
            /\ DOMAIN Append(s, x) = 1..(Len(s) + 1)
        BY <2>1, AppendIs, Zenon
      <3>2. QED
        BY <3>1
    <2> HIDE DEF t, N
    <2>4. QED
      BY <2>2, <2>3 DEF T
  <1>2. Words(s) = FlattenSeq(of) /\ Words(t) = FlattenSeq(off)
    BY SameFlatten, Zenon DEF Words, H!Within
  <1>3. ASSUME NEW y \in STRING PROVE piece(y) \in Tokens
    <2>1. <<y>> \in Seq(STRING) /\ <<>> \in Seq(STRING)
      BY OneIn, Zenon
    <2>2. QED
      BY <2>1, Zenon DEF Tokens
  <1> HIDE DEF piece
  <1>4. of \in Seq(Tokens) /\ Len(of) = N
    <2>1. of \in [1..N -> Tokens]
      BY <1>1, <1>3, Zenon
    <2>2. QED
      BY <1>1, <2>1
  <1>5. off = Append(of, piece(x))
    <2> DEFINE u == Append(of, piece(x))
    <2>1. /\ u \in Seq(Tokens) /\ Len(u) = N + 1 /\ u[N + 1] = piece(x)
          /\ \A n \in 1..N : u[n] = of[n]
      <3> DEFINE z == piece(x)
      <3>1. z \in Tokens
        BY <1>3, Zenon
      <3> HIDE DEF z, of, N
      <3>2. Append(of, z) \in Seq(Tokens) /\ Len(Append(of, z)) = N + 1
            /\ Append(of, z)[N + 1] = z /\ \A n \in 1..N : Append(of, z)[n] = of[n]
        BY <1>4, <3>1
      <3>3. QED
        BY <3>2, Zenon DEF z
    <2>2. u = [n \in 1..(N + 1) |-> u[n]]
      <3> HIDE DEF u, N
      <3> QED BY <1>1, <2>1
    <2>3. \A n \in 1..(N + 1) : n = N + 1 \/ n \in 1..N
      BY <1>1
    <2>4. off = [n \in 1..(N + 1) |-> piece(t[n])]
      BY <1>1
    <2>5. \A n \in 1..(N + 1) : u[n] = piece(t[n])
      BY <1>1, <2>1, <2>3, Zenon
    <2> HIDE DEF u
    <2>6. off = u
      BY <2>2, <2>4, <2>5
    <2>7. QED
      BY <2>6, Zenon DEF u
  <1> HIDE DEF of, off
  <1>6. /\ FlattenSeq(of) \in Tokens /\ FlattenSeq(off) = FlattenSeq(of) \o piece(x)
    BY <1>3, <1>4, <1>5, FlattenHolds, FlattenMore, Zenon DEF Tokens
  <1> DEFINE w == FlattenSeq(of)
  <1> HIDE DEF w
  <1>7. w \in Seq(STRING) /\ w \o <<x>> = Append(w, x) /\ w \o <<>> = w
    <2>1. w \in Seq(STRING)
      BY <1>6 DEF w, Tokens
    <2>2. QED
      BY <2>1, OneIn, Zenon
  <1>8. piece(x) = IF x \in Vocabulary THEN <<x>> ELSE <<>>
    BY DEF piece
  <1>9. QED
    BY <1>2, <1>6, <1>7, <1>8, Zenon DEF w

(* The words of a text are a text.                                         *)
LEMMA WordsTyped ==
    ASSUME NEW s \in Tokens
    PROVE  Words(s) \in Tokens
  BY Sifts DEF Words, Tokens

(* A text without words has none.                                          *)
LEMMA WordsNone ==
    ASSUME NEW s \in Tokens, \A n \in DOMAIN s : s[n] \notin Vocabulary
    PROVE  Words(s) = <<>>
  <1>1. /\ Words(s) \in Seq(STRING)
        /\ \A x : x \in Range(Words(s)) <=> x \in Range(s) /\ x \in Vocabulary
    BY Sifts DEF Words, Tokens
  <1>2. \A x : x \notin Range(Words(s))
    BY <1>1 DEF Range
  <1>3. \A n \in DOMAIN Words(s) : Words(s)[n] \in Range(Words(s))
    BY DEF Range
  <1> DEFINE w == Words(s)
  <1> HIDE DEF w
  <1>4. w \in Seq(STRING) /\ \A n \in 1..Len(w) : FALSE
    <2>1. w \in Seq(STRING) /\ DOMAIN w = 1..Len(w)
      BY <1>1 DEF w
    <2>2. \A n \in DOMAIN w : FALSE
      BY <1>2, <1>3 DEF w
    <2>3. QED
      BY <2>1, <2>2
  <1>5. w = <<>>
    BY <1>4
  <1>6. QED
    BY <1>5 DEF w

(* The words of two texts, one after the other.                            *)
LEMMA WordsJoin ==
    ASSUME NEW s \in Tokens, NEW t \in Tokens
    PROVE  Words(s \o t) = Words(s) \o Words(t)
  <1> DEFINE u(n) == SubSeq(t, 1, n)
             S == {n \in Nat : n <= Len(t) => Words(s \o u(n)) = Words(s) \o Words(u(n))}
  <1>1. Len(t) \in Nat /\ s \in Seq(STRING) /\ t \in Seq(STRING)
    BY DEF Tokens
  <1>2. 0 \in S
    <2>1. u(0) = <<>> /\ s \o <<>> = s /\ <<>> \in Tokens
      BY <1>1 DEF Tokens
    <2>2. Words(<<>>) = <<>>
      BY <2>1, WordsNone
    <2>3. Words(s) \in Seq(STRING)
      BY WordsTyped DEF Tokens
    <2>4. Words(s) \o <<>> = Words(s)
      BY <2>3
    <2>5. QED
      BY <2>1, <2>2, <2>4, Zenon
  <1>3. ASSUME NEW n \in Nat, n \in S PROVE n + 1 \in S
    <2> SUFFICES ASSUME n + 1 <= Len(t)
                 PROVE  Words(s \o u(n + 1)) = Words(s) \o Words(u(n + 1))
      OBVIOUS
    <2> DEFINE v == u(n)
               x == t[n + 1]
    <2>1. n <= Len(t) /\ n + 1 \in 1..Len(t) /\ x \in STRING /\ v \in Seq(STRING)
          /\ u(n + 1) = Append(v, x)
      BY <1>1
    <2>2. Words(s \o v) = Words(s) \o Words(v)
      BY <1>3, <2>1
    <2> HIDE DEF u, v, x
    <2>3. s \o Append(v, x) = Append(s \o v, x) /\ s \o v \in Seq(STRING)
      <3> DEFINE T == STRING
      <3>1. s \in Seq(T) /\ v \in Seq(T) /\ x \in T
        BY <1>1, <2>1, Zenon
      <3> HIDE DEF T
      <3>2. s \o Append(v, x) = Append(s \o v, x) /\ s \o v \in Seq(T)
        BY <3>1, AppendJoined
      <3>3. QED
        BY <3>2 DEF T
    <2>4. /\ Words(Append(v, x)) = IF x \in Vocabulary THEN Append(Words(v), x) ELSE Words(v)
          /\ Words(v) \in Tokens /\ Words(s) \in Tokens
      BY <2>1, WordsMore, Zenon DEF Tokens
    <2>5. Words(Append(s \o v, x))
             = IF x \in Vocabulary THEN Append(Words(s \o v), x) ELSE Words(s \o v)
      BY <2>1, <2>3, WordsMore, Zenon DEF Tokens
    <2>6. Words(s) \o Append(Words(v), x) = Append(Words(s) \o Words(v), x)
      <3> DEFINE T == STRING
                 w == Words(s)
                 z == Words(v)
      <3>1. w \in Seq(T) /\ z \in Seq(T) /\ x \in T
        BY <2>1, <2>4, Zenon DEF Tokens
      <3> HIDE DEF T, w, z
      <3>2. w \o Append(z, x) = Append(w \o z, x)
        BY <3>1, AppendJoined
      <3>3. QED
        BY <3>2 DEF w, z
    <2>7. QED
      BY <2>1, <2>2, <2>3, <2>4, <2>5, <2>6, Zenon
  <1>4. Len(t) \in S
    <2> HIDE DEF S
    <2> QED BY <1>1, <1>2, <1>3, Induction
  <1>5. u(Len(t)) = t
    BY <1>1
  <1>6. QED
    <2>1. Len(t) <= Len(t)
      BY <1>1
    <2>2. Words(s \o u(Len(t))) = Words(s) \o Words(u(Len(t)))
      BY <1>4, <2>1
    <2> HIDE DEF u
    <2>3. QED
      BY <1>5, <2>2

(* A text is its first part and the rest of it.                            *)
LEMMA PartsOf ==
    ASSUME NEW T, NEW s \in Seq(T), NEW n \in 0..Len(s)
    PROVE  /\ SubSeq(s, 1, n) \in Seq(T) /\ SubSeq(s, n + 1, Len(s)) \in Seq(T)
           /\ SubSeq(s, 1, n) \o SubSeq(s, n + 1, Len(s)) = s
           /\ Len(SubSeq(s, 1, n)) = n /\ Len(SubSeq(s, n + 1, Len(s))) = Len(s) - n
           /\ \A i \in 1..n : SubSeq(s, 1, n)[i] = s[i]
           /\ \A i \in 1..(Len(s) - n) : SubSeq(s, n + 1, Len(s))[i] = s[n + i]
  <1> DEFINE u == SubSeq(s, 1, n)
             v == SubSeq(s, n + 1, Len(s))
             L == Len(s)
             K == L - n
             w == u \o v
  <1>1. L \in Nat /\ n \in Nat /\ n <= L /\ K \in Nat /\ n + K = L
    OBVIOUS
  <1>2. u \in Seq(T) /\ Len(u) = n /\ \A i \in 1..n : u[i] = s[i]
    BY <1>1
  <1>3. v \in Seq(T) /\ Len(v) = K
    <2>1. Len(v) = K
      <3>1. Len(v) = IF n + 1 <= L THEN (L - (n + 1)) + 1 ELSE 0
        BY <1>1
      <3>2. (n + 1 <= L => (L - (n + 1)) + 1 = K) /\ (~(n + 1 <= L) => K = 0)
        <4> HIDE DEF L
        <4>1. \A a, b \in Nat : /\ b + 1 <= a => (a - (b + 1)) + 1 = a - b
                                /\ b <= a /\ ~(b + 1 <= a) => a - b = 0
          OBVIOUS
        <4>2. QED
          BY <1>1, <4>1
      <3> HIDE DEF v, L, K
      <3>3. QED
        BY <3>1, <3>2
    <2>2. v \in Seq(T)
      <3>1. \A i \in (n + 1)..L : s[i] \in T
        BY <1>1
      <3>2. QED
        BY <1>1, <3>1
    <2>3. QED
      BY <2>1, <2>2
  <1>4. ASSUME NEW i \in 1..K PROVE v[i] = s[n + i]
    <2>1. v[i] = s[(n + 1) + i - 1]
      BY <1>1
    <2>2. (n + 1) + i - 1 = n + i
      BY <1>1
    <2>3. QED
      BY <2>1, <2>2
  <1> HIDE DEF u, v, K
  <1>5. /\ w \in Seq(T) /\ Len(w) = L
        /\ \A i \in 1..n : w[i] = u[i]
        /\ \A i \in 1..K : w[n + i] = v[i]
    <2>1. \A a, b \in Seq(T) :
             /\ a \o b \in Seq(T) /\ Len(a \o b) = Len(a) + Len(b)
             /\ \A i \in 1..Len(a) : (a \o b)[i] = a[i]
             /\ \A i \in 1..Len(b) : (a \o b)[Len(a) + i] = b[i]
      OBVIOUS
    <2> HIDE DEF L
    <2>2. QED
      BY <1>1, <1>2, <1>3, <2>1, Zenon
  <1>6. ASSUME NEW i \in 1..L PROVE w[i] = s[i]
    <2>1. i \in 1..n \/ (i - n \in 1..K /\ n + (i - n) = i)
      BY <1>1
    <2>2. CASE i \in 1..n
      BY <1>2, <1>5, <2>2
    <2>3. CASE i - n \in 1..K /\ n + (i - n) = i
      <3> DEFINE j == i - n
      <3>1. j \in 1..K /\ n + j = i
        BY <2>3
      <3> HIDE DEF j, w, L
      <3>2. w[n + j] = s[n + j]
        BY <1>4, <1>5, <3>1
      <3>3. QED
        BY <3>1, <3>2
    <2>4. QED
      BY <2>1, <2>2, <2>3, Zenon
  <1>7. w = s
    <2> HIDE DEF w
    <2>1. w = [i \in 1..L |-> w[i]] /\ s = [i \in 1..L |-> s[i]]
      BY <1>1, <1>5
    <2> HIDE DEF L
    <2>2. QED
      BY <1>6, <2>1
  <1>8. QED
    BY <1>2, <1>3, <1>4, <1>7, Zenon DEF u, v, K

(* The words of a text are those of its first part and of the rest.        *)
LEMMA WordsSplit ==
    ASSUME NEW s \in Tokens, NEW n \in 0..Len(s)
    PROVE  /\ Words(s) = Words(SubSeq(s, 1, n)) \o Words(SubSeq(s, n + 1, Len(s)))
           /\ SubSeq(s, 1, n) \in Tokens /\ SubSeq(s, n + 1, Len(s)) \in Tokens
  <1> DEFINE T == STRING
             u == SubSeq(s, 1, n)
             v == SubSeq(s, n + 1, Len(s))
  <1>1. s \in Seq(T)
    BY DEF Tokens
  <1> HIDE DEF T
  <1>2. u \in Seq(T) /\ v \in Seq(T) /\ u \o v = s
    BY <1>1, PartsOf, Zenon
  <1> HIDE DEF u, v
  <1>3. u \in Tokens /\ v \in Tokens
    BY <1>2 DEF T, Tokens
  <1>4. Words(u \o v) = Words(u) \o Words(v)
    BY <1>3, WordsJoin
  <1>5. QED
    BY <1>2, <1>3, <1>4, Zenon DEF u, v

(* What stands before the words may go, and what stands behind them.       *)
LEMMA WordsDropped ==
    ASSUME NEW s \in Tokens, NEW n \in 0..Len(s)
    PROVE  /\ (\A i \in 1..n : s[i] \notin Vocabulary) =>
                 Words(SubSeq(s, n + 1, Len(s))) = Words(s)
           /\ (\A i \in (n + 1)..Len(s) : s[i] \notin Vocabulary) =>
                 Words(SubSeq(s, 1, n)) = Words(s)
  <1> DEFINE T == STRING
             u == SubSeq(s, 1, n)
             v == SubSeq(s, n + 1, Len(s))
  <1>1. s \in Seq(T) /\ Len(s) \in Nat
    BY DEF Tokens
  <1> HIDE DEF T
  <1>2. /\ Len(u) = n /\ Len(v) = Len(s) - n
        /\ \A i \in 1..n : u[i] = s[i]
        /\ \A i \in 1..(Len(s) - n) : v[i] = s[n + i]
        /\ u \in Seq(T) /\ v \in Seq(T)
    BY <1>1, PartsOf
  <1>3. DOMAIN u = 1..n /\ DOMAIN v = 1..(Len(s) - n)
    <2> HIDE DEF u, v
    <2> QED BY <1>2
  <1>4. Words(s) = Words(u) \o Words(v) /\ u \in Tokens /\ v \in Tokens
    BY WordsSplit
  <1> HIDE DEF u, v
  <1>5. Words(u) \in Seq(STRING) /\ Words(v) \in Seq(STRING)
    BY <1>4, WordsTyped DEF Tokens
  <1>6. Words(u) \o <<>> = Words(u) /\ <<>> \o Words(v) = Words(v)
    BY <1>5
  <1>7. ASSUME \A i \in 1..n : s[i] \notin Vocabulary PROVE Words(v) = Words(s)
    <2>1. \A i \in DOMAIN u : u[i] \notin Vocabulary
      BY <1>2, <1>3, <1>7
    <2>2. QED
      BY <1>4, <1>6, <2>1, WordsNone, Zenon
  <1>8. ASSUME \A i \in (n + 1)..Len(s) : s[i] \notin Vocabulary PROVE Words(u) = Words(s)
    <2>1. \A i \in 1..(Len(s) - n) : n + i \in (n + 1)..Len(s)
      BY <1>1
    <2>2. \A i \in DOMAIN v : v[i] \notin Vocabulary
      BY <1>2, <1>3, <1>8, <2>1, Zenon
    <2>3. QED
      BY <1>4, <1>6, <2>2, WordsNone, Zenon
  <1>9. QED
    BY <1>7, <1>8 DEF u, v

(* White space and tags are no words.                                      *)
LEMMA NoWords ==
    /\ Space \notin Vocabulary
    /\ \A k \in 1..2 : Open[k] \notin Vocabulary /\ Close[k] \notin Vocabulary
    /\ Len(Open) = 2 /\ Len(Close) = 2
  <1>1. \A x \in Vocabulary : x # Space /\ x # "<th" /\ x # "</th" /\ x # "ink>"
    BY TalkAssumption
  <1>2. /\ Open[1] = "<th" /\ Open[2] = "ink>" /\ Close[1] = "</th" /\ Close[2] = "ink>"
        /\ Len(Open) = 2 /\ Len(Close) = 2
    BY DEF Open, Close
  <1>3. \A k \in 1..2 : k = 1 \/ k = 2
    OBVIOUS
  <1>4. QED
    BY <1>1, <1>2, <1>3

(* Trimming takes no word away.                                            *)
LEMMA WordsTrimmed ==
    ASSUME NEW s \in Tokens
    PROVE  /\ Words(TrimStart(s)) = Words(s) /\ Words(Trim(s)) = Words(s)
           /\ TrimStart(s) \in Tokens /\ Trim(s) \in Tokens
  <1>1. s \in Seq(STRING) /\ TrimStart(s) \in Tokens /\ Trim(s) \in Tokens
    BY ThoughtTyped DEF Tokens
  <1>2. Words(TrimStart(s)) = Words(s)
    <2>1. PICK n \in 0..Len(s) : /\ TrimStart(s) = SubSeq(s, n + 1, Len(s))
                                 /\ \A i \in 1..n : s[i] = Space
      BY <1>1, TrimStartIs
    <2>2. \A i \in 1..n : s[i] \notin Vocabulary
      BY <2>1, NoWords
    <2>3. QED
      BY <2>1, <2>2, WordsDropped
  <1>3. Words(Trim(s)) = Words(s)
    <2> DEFINE t == TrimStart(s)
    <2>1. PICK k \in 0..Len(t) : /\ Trim(s) = SubSeq(t, 1, k)
                                 /\ \A i \in (k + 1)..Len(t) : t[i] = Space
      BY <1>1, TrimIs
    <2>2. t \in Tokens /\ Words(t) = Words(s)
      BY <1>1, <1>2
    <2> HIDE DEF t
    <2>3. \A i \in (k + 1)..Len(t) : t[i] \notin Vocabulary
      BY <2>1, NoWords
    <2>4. Words(SubSeq(t, 1, k)) = Words(t)
      BY <2>2, <2>3, WordsDropped
    <2>5. QED
      BY <2>1, <2>2, <2>4
  <1>4. QED
    BY <1>1, <1>2, <1>3

(* Nor does taking the opening tag away.                                   *)
LEMMA WordsOpened ==
    ASSUME NEW s \in Tokens, Opens(s)
    PROVE  Words(Body(s)) = Words(s) /\ Body(s) \in Tokens
  <1> DEFINE t == TrimStart(s)
  <1>1. t \in Tokens /\ Words(t) = Words(s)
    BY WordsTrimmed
  <1>2. Len(Open) <= Len(t) /\ SubSeq(Open, 1, Len(Open)) = SubSeq(t, 1, Len(Open))
    BY DEF Opens, IsPrefix
  <1>3. Body(s) = SubSeq(t, 3, Len(t))
    BY DEF Body
  <1> HIDE DEF t
  <1>4. 2 \in 0..Len(t) /\ 2 + 1 = 3 /\ Len(t) \in Nat /\ t \in Seq(STRING)
    <2>1. t \in Seq(STRING)
      BY <1>1 DEF Tokens
    <2>2. QED
      BY <1>2, <2>1, NoWords
  <1>5. \A i \in 1..2 : t[i] = Open[i]
    <2> DEFINE u == SubSeq(t, 1, 2)
    <2>1. u = SubSeq(Open, 1, 2)
      BY <1>2, NoWords
    <2>2. \A i \in 1..2 : u[i] = t[i]
      <3> DEFINE T == STRING
                 n == 2
      <3>1. t \in Seq(T) /\ n \in 0..Len(t)
        BY <1>4
      <3> HIDE DEF T, n
      <3>2. \A i \in 1..n : SubSeq(t, 1, n)[i] = t[i]
        BY <3>1, PartsOf
      <3>3. QED
        BY <3>2 DEF n
    <2>3. \A i \in 1..2 : SubSeq(Open, 1, 2)[i] = Open[i]
      BY DEF Open
    <2> HIDE DEF u
    <2>4. QED
      BY <2>1, <2>2, <2>3
  <1>6. \A i \in 1..2 : t[i] \notin Vocabulary
    BY <1>5, NoWords
  <1>7. Words(SubSeq(t, 2 + 1, Len(t))) = Words(t)
    <2> DEFINE n == 2
    <2>1. n \in 0..Len(t) /\ \A i \in 1..n : t[i] \notin Vocabulary
      BY <1>4, <1>6
    <2> HIDE DEF n
    <2>2. Words(SubSeq(t, n + 1, Len(t))) = Words(t)
      BY <1>1, <2>1, WordsDropped
    <2>3. QED
      BY <2>2 DEF n
  <1>8. Body(s) \in Tokens
    BY ThoughtTyped DEF Tokens
  <1>9. QED
    BY <1>1, <1>3, <1>4, <1>7, <1>8

(* Nor does telling a thought from what comes after it.                    *)
LEMMA WordsClosed ==
    ASSUME NEW s \in Tokens, Closed(s)
    PROVE  /\ Words(Thought(s)) \o Words(Rest(s)) = Words(s)
           /\ Thought(s) \in Tokens /\ Rest(s) \in Tokens
  <1> DEFINE b == Body(s)
             k == SplitAt(s)
             C == CloseAt(b)
             T == STRING
  <1>1. Opens(s) /\ C # {} /\ k = CHOOSE x \in C : \A j \in C : x <= j
    BY DEF Closed, SplitAt
  <1>2. b \in Tokens /\ Words(b) = Words(s)
    BY <1>1, WordsOpened
  <1>3. b \in Seq(T) /\ Len(b) \in Nat
    BY <1>2 DEF Tokens
  <1>4. C = {j \in 1..(Len(b) - 1) : SubSeq(b, j, j + 1) = Close}
    BY DEF CloseAt
  <1>5. k \in C
    <2>1. C \in SUBSET Nat
      BY <1>4
    <2> HIDE DEF C, k
    <2>2. \E x \in C : \A j \in C : x <= j
      BY <1>1, <2>1, SmallestIn
    <2>3. QED
      BY <1>1, <2>2
  <1>6. Thought(s) = Trim(SubSeq(b, 1, k - 1)) /\ Rest(s) = TrimStart(SubSeq(b, k + 2, Len(b)))
    BY DEF Thought, Rest
  <1> HIDE DEF b, k, C, T
  <1>7. k \in 1..(Len(b) - 1) /\ SubSeq(b, k, k + 1) = Close
    BY <1>4, <1>5
  <1> DEFINE u == SubSeq(b, 1, k - 1)
             v == SubSeq(b, k, Len(b))
             w == SubSeq(b, k + 2, Len(b))
             m == k - 1
  <1>8. /\ k - 1 \in 0..Len(b) /\ (k - 1) + 1 = k /\ k + 1 \in 0..Len(b) /\ (k + 1) + 1 = k + 2
        /\ k \in 1..Len(b) /\ k + 1 \in 1..Len(b) /\ k \in Nat
    BY <1>3, <1>7
  <1>9. /\ Words(b) = Words(u) \o Words(v) /\ u \in Tokens /\ v \in Tokens
        /\ v \in Seq(T) /\ Len(v) = Len(b) - m
        /\ \A i \in 1..(Len(b) - m) : v[i] = b[m + i]
    <2>1. m \in 0..Len(b) /\ m + 1 = k
      BY <1>8
    <2> HIDE DEF m
    <2>2. /\ SubSeq(b, m + 1, Len(b)) \in Seq(T) /\ Len(SubSeq(b, m + 1, Len(b))) = Len(b) - m
          /\ \A i \in 1..(Len(b) - m) : SubSeq(b, m + 1, Len(b))[i] = b[m + i]
      BY <1>3, <2>1, PartsOf
    <2>3. /\ Words(b) = Words(SubSeq(b, 1, m)) \o Words(SubSeq(b, m + 1, Len(b)))
          /\ SubSeq(b, 1, m) \in Tokens /\ SubSeq(b, m + 1, Len(b)) \in Tokens
      BY <1>2, <2>1, WordsSplit, Zenon
    <2>4. QED
      BY <2>1, <2>2, <2>3, Zenon DEF m
  <1>10. \A i \in 1..2 : v[i] \notin Vocabulary
    <2>1. \A i \in 1..2 : b[m + i] = Close[i]
      <3> DEFINE x == SubSeq(b, k, k + 1)
      <3>1. \A i \in 1..2 : x[i] = b[k + i - 1]
        BY <1>3, <1>8
      <3>2. \A i \in 1..2 : k + i - 1 = m + i
        BY <1>8
      <3> HIDE DEF x, m
      <3>3. QED
        BY <1>7, <3>1, <3>2, Zenon DEF x
    <2>2. \A i \in 1..2 : i \in 1..(Len(b) - m)
      BY <1>3, <1>7
    <2> HIDE DEF v, m
    <2>3. QED
      BY <1>9, <2>1, <2>2, NoWords
  <1>11. w = SubSeq(v, 3, Len(v))
    <2>1. /\ w \in Seq(T) /\ Len(w) = (Len(b) - m) - 2
          /\ \A i \in 1..((Len(b) - m) - 2) : w[i] = b[(m + 2) + i]
      <3> DEFINE n == k + 1
      <3>1. n \in 0..Len(b) /\ n + 1 = k + 2 /\ n = m + 2 /\ Len(b) - n = (Len(b) - m) - 2
        BY <1>3, <1>8
      <3> HIDE DEF n, m
      <3>2. /\ SubSeq(b, n + 1, Len(b)) \in Seq(T) /\ Len(SubSeq(b, n + 1, Len(b))) = Len(b) - n
            /\ \A i \in 1..(Len(b) - n) : SubSeq(b, n + 1, Len(b))[i] = b[n + i]
        BY <1>3, <3>1, PartsOf
      <3>3. QED
        BY <3>1, <3>2, Zenon
    <2> DEFINE L == Len(v)
               x == SubSeq(v, 3, L)
    <2>2. L \in Nat /\ 2 \in 0..L /\ L = Len(b) - m /\ m \in Nat
      BY <1>3, <1>7, <1>8, <1>9
    <2> HIDE DEF m, v, w
    <2>3. /\ x \in Seq(T) /\ Len(x) = L - 2
          /\ \A i \in 1..(L - 2) : x[i] = v[2 + i]
      <3> DEFINE n == 2
      <3>1. n \in 0..Len(v) /\ n + 1 = 3
        BY <2>2
      <3> HIDE DEF n, L
      <3>2. /\ SubSeq(v, n + 1, Len(v)) \in Seq(T) /\ Len(SubSeq(v, n + 1, Len(v))) = Len(v) - n
            /\ \A i \in 1..(Len(v) - n) : SubSeq(v, n + 1, Len(v))[i] = v[n + i]
        BY <1>9, <3>1, PartsOf
      <3>3. QED
        BY <3>1, <3>2 DEF n, L
    <2> HIDE DEF x, L
    <2>4. ASSUME NEW i \in 1..(L - 2) PROVE x[i] = w[i]
      <3>1. 2 + i \in 1..L /\ m + (2 + i) = (m + 2) + i
        BY <2>2
      <3>2. x[i] = b[m + (2 + i)]
        BY <1>9, <2>2, <2>3, <3>1
      <3>3. w[i] = b[(m + 2) + i]
        BY <2>1, <2>2
      <3>4. QED
        BY <3>1, <3>2, <3>3
    <2>5. x = [i \in 1..(L - 2) |-> x[i]] /\ w = [i \in 1..(L - 2) |-> w[i]]
      <3>1. Len(w) = L - 2 /\ Len(x) = L - 2 /\ w \in Seq(T) /\ x \in Seq(T)
        BY <2>1, <2>2, <2>3
      <3>2. QED
        BY <3>1
    <2>6. x = w
      BY <2>4, <2>5
    <2>7. QED
      BY <2>6 DEF x, L
  <1>12. Words(w) = Words(v) /\ w \in Tokens
    <2> DEFINE n == 2
    <2>1. n \in 0..Len(v) /\ n + 1 = 3 /\ \A i \in 1..n : v[i] \notin Vocabulary
      BY <1>3, <1>7, <1>8, <1>9, <1>10
    <2> HIDE DEF n, v, w
    <2>2. Words(SubSeq(v, n + 1, Len(v))) = Words(v) /\ SubSeq(v, n + 1, Len(v)) \in Tokens
      BY <1>9, <2>1, WordsDropped, WordsSplit
    <2>3. QED
      BY <1>11, <2>1, <2>2
  <1> HIDE DEF u, v, w, m
  <1>13. /\ Words(Trim(u)) = Words(u) /\ Trim(u) \in Tokens
         /\ Words(TrimStart(w)) = Words(w) /\ TrimStart(w) \in Tokens
    BY <1>9, <1>12, WordsTrimmed
  <1>14. QED
    BY <1>2, <1>6, <1>9, <1>12, <1>13, Zenon DEF u, w

(* The words that the converter has been told and has not lost.            *)
Telling(c) == Words(c.reasoning.text) \o (Words(c.message.text) \o Words(c.buffer))
(* A text that was given has the words of the one that was collected.      *)
HeardOf(c, kind) ==
    \A p \in 1..Len(c.items) :
       c.items[p].item.kind = kind => Words(c.items[p].item.text) = Words(c[kind].text)
Heard(c) == \A kind \in TextKinds : HeardOf(c, kind)
(* As long as the text may begin with a thought nothing of it is told.     *)
Undecided(c) ==
    /\ c.mode = "text" => c.buffer = <<>>
    /\ c.mode # "text" => c.message.at < 0 /\ ~c.reasoning.done
    /\ c.mode = "reasoning" => Opens(c.buffer)
(* Calls and the way the answer ends are left alone.                       *)
AsBefore(d, c) == d.completed = c.completed /\ d.failed = c.failed /\ d.tools = c.tools

Telltale(a, c) == Honest(a, c) /\ Heard(c) /\ Undecided(c) /\ ~c.message.done

(* A text that was given is finished.                                      *)
LEMMA GivenIsDone ==
    ASSUME NEW a, NEW c, Honest(a, c), NEW kind \in TextKinds, NEW p \in 1..Len(c.items),
           c.items[p].item.kind = kind
    PROVE  c[kind].done
  <1>1. Given(Cells(c), c.items, HasRead(a, c).live, HasRead(a, c).items)
    BY DEF Honest, Shows
  <1>2. PICK key \in Keys : IsGiven(Cells(c)[key], c.items[p], HasRead(a, c).live)
    BY <1>1 DEF Given
  <1>3. Cells(c)[key].done /\ Cells(c)[key].kind = kind
    BY <1>2 DEF IsGiven
  <1>4. key = -2 \/ key = -1 \/ (key # -2 /\ key # -1)
    OBVIOUS
  <1>5. CASE key = -2
    <2>1. Cells(c)[key] = TextCell(c.reasoning, "reasoning")
      BY <1>5 DEF Cells
    <2>2. QED
      BY <1>3, <2>1 DEF TextCell
  <1>6. CASE key = -1
    <2>1. -1 # -2
      OBVIOUS
    <2>2. Cells(c)[key] = TextCell(c.message, "message")
      BY <1>6, <2>1 DEF Cells
    <2>3. QED
      BY <1>3, <2>2 DEF TextCell
  <1>7. CASE key # -2 /\ key # -1
    <2>1. Cells(c)[key] = CallCell(c.tools[key])
      BY <1>7 DEF Cells
    <2>2. kind = "call"
      BY <1>3, <2>1 DEF CallCell
    <2>3. QED
      BY <2>2 DEF TextKinds
  <1>8. QED
    BY <1>4, <1>5, <1>6, <1>7

(* A step that leaves the items and what was written alone.                *)
LEMMA Quietly ==
    ASSUME NEW a, NEW c, Honest(a, c), NEW d \in Conv, d.reasoning = c.reasoning,
           d.message = c.message, d.tools = c.tools, d.items = c.items, d.next = c.next,
           d.out = c.out
    PROVE  Honest(a, d) /\ (Heard(c) => Heard(d))
  <1>1. \A kind \in TextKinds : d[kind] = c[kind]
    BY DEF TextKinds
  <1>2. Tidy(d)
    BY <1>1 DEF Honest, Tidy
  <1>3. Cells(d) = Cells(c) /\ HasRead(a, d) = HasRead(a, c)
    BY DEF Cells, HasRead
  <1>4. Heard(c) => Heard(d)
    BY <1>1 DEF Heard, HeardOf
  <1>5. QED
    BY <1>2, <1>3, <1>4 DEF Honest

(* What the converter collects is text.                                    *)
LEMMA TellsText ==
    ASSUME NEW c \in Conv
    PROVE  /\ c.reasoning.text \in Tokens /\ c.message.text \in Tokens /\ c.buffer \in Tokens
           /\ Words(c.reasoning.text) \in Seq(STRING) /\ Words(c.message.text) \in Seq(STRING)
           /\ Words(c.buffer) \in Seq(STRING)
  <1>1. c.reasoning.text \in Tokens /\ c.message.text \in Tokens /\ c.buffer \in Tokens
    BY DEF Conv, TextItem
  <1>2. QED
    BY <1>1, WordsTyped DEF Tokens

(* Joining texts is associative, and nothing adds nothing.                 *)
LEMMA Joining ==
    ASSUME NEW T, NEW r \in Seq(T), NEW s \in Seq(T), NEW t \in Seq(T)
    PROVE  /\ r \o (s \o t) = (r \o s) \o t /\ r \o <<>> = r /\ <<>> \o r = r
           /\ r \o s \in Seq(T)
  <1> DEFINE u == r \o (s \o t)
             v == (r \o s) \o t
             R == Len(r)
             S == Len(s)
             N == Len(t)
             M == R + (S + N)
  <1>1. R \in Nat /\ S \in Nat /\ N \in Nat /\ M \in Nat /\ M = (R + S) + N
    OBVIOUS
  <1>2. /\ s \o t \in Seq(T) /\ Len(s \o t) = S + N
        /\ \A i \in 1..S : (s \o t)[i] = s[i]
        /\ \A i \in 1..N : (s \o t)[S + i] = t[i]
    OBVIOUS
  <1>3. /\ r \o s \in Seq(T) /\ Len(r \o s) = R + S
        /\ \A i \in 1..R : (r \o s)[i] = r[i]
        /\ \A i \in 1..S : (r \o s)[R + i] = s[i]
    OBVIOUS
  <1>4. /\ u \in Seq(T) /\ Len(u) = M
        /\ \A i \in 1..R : u[i] = r[i]
        /\ \A i \in 1..(S + N) : u[R + i] = (s \o t)[i]
    BY <1>1, <1>2
  <1>5. /\ v \in Seq(T) /\ Len(v) = M
        /\ \A i \in 1..(R + S) : v[i] = (r \o s)[i]
        /\ \A i \in 1..N : v[(R + S) + i] = t[i]
    BY <1>1, <1>3
  <1> HIDE DEF u, v
  <1>6. ASSUME NEW i \in 1..R PROVE u[i] = v[i]
    <2>1. i \in 1..(R + S)
      BY <1>1
    <2>2. QED
      BY <1>3, <1>4, <1>5, <2>1
  <1>7. ASSUME NEW i \in 1..S PROVE u[R + i] = v[R + i]
    <2>1. i \in 1..(S + N) /\ R + i \in 1..(R + S)
      BY <1>1
    <2>2. QED
      BY <1>2, <1>3, <1>4, <1>5, <2>1
  <1>8. ASSUME NEW i \in 1..N PROVE u[(R + S) + i] = v[(R + S) + i]
    <2>1. S + i \in 1..(S + N) /\ R + (S + i) = (R + S) + i
      BY <1>1
    <2>2. u[R + (S + i)] = t[i]
      BY <1>2, <1>4, <2>1, Zenon
    <2>3. QED
      BY <1>5, <2>1, <2>2
  <1>9. ASSUME NEW i \in 1..M PROVE u[i] = v[i]
    <2>1. \/ i \in 1..R
          \/ i - R \in 1..S /\ R + (i - R) = i
          \/ i - (R + S) \in 1..N /\ (R + S) + (i - (R + S)) = i
      BY <1>1
    <2> DEFINE j == i - R
               k == i - (R + S)
    <2>2. i \in 1..R \/ (j \in 1..S /\ R + j = i) \/ (k \in 1..N /\ (R + S) + k = i)
      BY <2>1
    <2> HIDE DEF j, k, R, S, N
    <2>3. QED
      BY <1>6, <1>7, <1>8, <2>2
  <1>10. u = v
    <2>1. u = [i \in 1..M |-> u[i]] /\ v = [i \in 1..M |-> v[i]]
      BY <1>4, <1>5
    <2> HIDE DEF M
    <2>2. QED
      BY <1>9, <2>1
  <1>11. r \o <<>> = r /\ <<>> \o r = r
    OBVIOUS
  <1>12. QED
    BY <1>3, <1>10, <1>11 DEF u, v

(* Reasoning without words of the answer is pushed.                        *)
LEMMA PushReasons ==
    ASSUME NEW a, NEW c, Telltale(a, c), NEW text \in Tokens, Words(text) = <<>>
    PROVE  /\ Telltale(a, PushDelta(c, "reasoning", text))
           /\ AsBefore(PushDelta(c, "reasoning", text), c)
           /\ Telling(PushDelta(c, "reasoning", text)) = Telling(c)
  <1> DEFINE p == PushDelta(c, "reasoning", text)
  <1>1. "reasoning" \in TextKinds /\ "message" \in TextKinds /\ Honest(a, c) /\ c \in Conv
    BY DEF TextKinds, Telltale, Honest
  <1>2. /\ Honest(a, p) /\ OnlyText(p, c, "reasoning") /\ p.items = c.items
        /\ p.reasoning.text = c.reasoning.text \o text /\ p.reasoning.done = c.reasoning.done
    BY <1>1, PushDeltaHonest
  <1> HIDE DEF p
  <1>3. p.message = c.message /\ AsBefore(p, c) /\ p.mode = c.mode /\ p.buffer = c.buffer
    BY <1>1, <1>2 DEF OnlyText, Beside, AsBefore
  <1>4. Words(p.reasoning.text) = Words(c.reasoning.text)
    <2>1. Words(p.reasoning.text) = Words(c.reasoning.text) \o <<>>
      BY <1>1, <1>2, TellsText, WordsJoin, Zenon
    <2>2. Words(c.reasoning.text) \in Seq(STRING)
      BY <1>1, TellsText
    <2>3. QED
      BY <2>1, <2>2, Joining
  <1>5. Heard(p)
    BY <1>2, <1>3, <1>4, Zenon DEF Telltale, Heard, HeardOf, TextKinds
  <1>6. Undecided(p) /\ ~p.message.done
    BY <1>2, <1>3 DEF Telltale, Undecided
  <1>7. QED
    BY <1>2, <1>3, <1>4, <1>5, <1>6, Zenon DEF Telltale, Telling, p

(* A piece of the answer is pushed: its words come behind all others.      *)
LEMMA PushMessage ==
    ASSUME NEW a, NEW c, Telltale(a, c), c.mode = "text", NEW text \in Tokens
    PROVE  /\ Telltale(a, PushDelta(c, "message", text))
           /\ AsBefore(PushDelta(c, "message", text), c)
           /\ PushDelta(c, "message", text).mode = "text"
           /\ Telling(PushDelta(c, "message", text)) = Telling(c) \o Words(text)
  <1> DEFINE p == PushDelta(c, "message", text)
  <1>1. "reasoning" \in TextKinds /\ "message" \in TextKinds /\ Honest(a, c) /\ c \in Conv
    BY DEF TextKinds, Telltale, Honest
  <1>2. /\ Honest(a, p) /\ OnlyText(p, c, "message") /\ p.items = c.items
        /\ p.message.text = c.message.text \o text /\ p.message.done = c.message.done
    BY <1>1, PushDeltaHonest
  <1> HIDE DEF p
  <1>3. p.reasoning = c.reasoning /\ AsBefore(p, c) /\ p.mode = "text" /\ p.buffer = <<>>
        /\ c.buffer = <<>>
    BY <1>1, <1>2 DEF OnlyText, Beside, AsBefore, Telltale, Undecided
  <1>4. Heard(p)
    <2>1. HeardOf(p, "reasoning")
      BY <1>1, <1>2, <1>3 DEF Telltale, Heard, HeardOf
    <2>2. HeardOf(p, "message")
      <3>1. ~c.message.done
        BY DEF Telltale
      <3>2. \A n \in 1..Len(p.items) : p.items[n].item.kind # "message"
        BY <1>1, <1>2, <3>1, GivenIsDone
      <3>3. QED
        BY <3>2 DEF HeardOf
    <2>3. QED
      BY <2>1, <2>2 DEF Heard, TextKinds
  <1>5. Telling(p) = Telling(c) \o Words(text)
    <2> DEFINE r == Words(c.reasoning.text)
               m == Words(c.message.text)
               t == Words(text)
               T == STRING
    <2>1. r \in Seq(T) /\ m \in Seq(T) /\ t \in Seq(T)
      BY <1>1, TellsText, WordsTyped DEF Tokens
    <2>2. Words(<<>>) = <<>>
      <3>1. <<>> \in Tokens
        BY DEF Tokens
      <3>2. QED
        BY <3>1, WordsNone
    <2>3. Words(p.message.text) = m \o t
      BY <1>1, <1>2, TellsText, WordsJoin
    <2>4. Telling(p) = r \o ((m \o t) \o <<>>) /\ Telling(c) = r \o (m \o <<>>)
      BY <1>3, <2>2, <2>3, Zenon DEF Telling
    <2> HIDE DEF r, m, t, T
    <2>5. (m \o t) \o <<>> = m \o t /\ m \o <<>> = m /\ r \o (m \o t) = (r \o m) \o t
      BY <2>1, Joining
    <2>6. QED
      BY <2>4, <2>5, Zenon DEF t
  <1>6. Undecided(p) /\ ~p.message.done
    BY <1>2, <1>3 DEF Telltale, Undecided
  <1>7. QED
    BY <1>2, <1>3, <1>4, <1>5, <1>6 DEF Telltale, p

(* When a text is finished, it is given with its words.                    *)
LEMMA ClosingHeard ==
    ASSUME NEW a, NEW c, Honest(a, c), Heard(c), NEW kind \in TextKinds
    PROVE  Heard(FinalizeItem(c, kind))
  <1> DEFINE p == FinalizeItem(c, kind)
             y == [at |-> c[kind].at, item |-> TextGiven(c, kind)]
  <1>1. c \in Conv /\ c.items \in Seq(PlacedItem)
    BY DEF Honest, Conv
  <1>2. /\ OnlyText(p, c, kind) /\ p[kind].text = c[kind].text
        /\ p = c \/ p.items = Append(c.items, y)
    BY FinalizeItemHonest
  <1>3. y.item.kind = kind /\ y.item.text = c[kind].text
    BY DEF TextGiven
  <1> HIDE DEF p, y
  <1>4. \A other \in TextKinds : p[other].text = c[other].text
    BY <1>2 DEF OnlyText
  <1>5. CASE p = c
    BY <1>5 DEF p
  <1>6. CASE p.items = Append(c.items, y)
    <2>1. \A n \in 1..Len(p.items) : p.items[n] = y
              \/ (n \in 1..Len(c.items) /\ p.items[n] = c.items[n])
      <3> DEFINE s == c.items
                 T == PlacedItem
      <3>1. s \in Seq(T)
        BY <1>1
      <3>2. p.items = Append(s, y)
        BY <1>6
      <3> HIDE DEF s, T
      <3>3. \A n \in 1..Len(Append(s, y)) : Append(s, y)[n] = y
               \/ (n \in 1..Len(s) /\ Append(s, y)[n] = s[n])
        BY <3>1
      <3>4. QED
        BY <3>2, <3>3 DEF s
    <2>2. \A other \in TextKinds : HeardOf(c, other)
      BY DEF Heard
    <2>3. ASSUME NEW other \in TextKinds PROVE HeardOf(p, other)
      <3> SUFFICES ASSUME NEW n \in 1..Len(p.items), p.items[n].item.kind = other
                   PROVE  Words(p.items[n].item.text) = Words(p[other].text)
        BY DEF HeardOf
      <3>1. CASE p.items[n] = y
        BY <1>2, <1>3, <3>1
      <3>2. CASE n \in 1..Len(c.items) /\ p.items[n] = c.items[n]
        BY <1>4, <2>2, <3>2 DEF HeardOf
      <3>3. QED
        BY <2>1, <3>1, <3>2
    <2>4. QED
      BY <2>3 DEF Heard, p
  <1>7. QED
    BY <1>2, <1>5, <1>6

(* Reasoning is closed.                                                    *)
LEMMA CloseReasons ==
    ASSUME NEW a, NEW c, Telltale(a, c), c.mode = "text"
    PROVE  /\ Telltale(a, FinalizeItem(c, "reasoning"))
           /\ AsBefore(FinalizeItem(c, "reasoning"), c)
           /\ FinalizeItem(c, "reasoning").mode = "text"
           /\ Telling(FinalizeItem(c, "reasoning")) = Telling(c)
           /\ FinalizeItem(c, "reasoning").reasoning.at >= 0 =>
                 FinalizeItem(c, "reasoning").reasoning.done
  <1> DEFINE p == FinalizeItem(c, "reasoning")
  <1>1. "reasoning" \in TextKinds /\ "message" \in TextKinds /\ Honest(a, c) /\ c \in Conv
    BY DEF TextKinds, Telltale, Honest
  <1>2. /\ Honest(a, p) /\ OnlyText(p, c, "reasoning")
        /\ p.reasoning.text = c.reasoning.text
        /\ p.reasoning.at >= 0 => p.reasoning.done
    BY <1>1, FinalizeItemHonest, Zenon
  <1> HIDE DEF p
  <1>4. /\ p.message = c.message /\ AsBefore(p, c) /\ p.mode = "text" /\ p.buffer = <<>>
        /\ c.buffer = <<>>
    BY <1>1, <1>2 DEF OnlyText, Beside, AsBefore, Telltale, Undecided
  <1>5. Heard(p)
    BY <1>1, ClosingHeard DEF Telltale, p
  <1>6. Telling(p) = Telling(c)
    BY <1>2, <1>4 DEF Telling
  <1>7. Undecided(p) /\ ~p.message.done
    BY <1>4 DEF Telltale, Undecided
  <1>8. QED
    BY <1>2, <1>4, <1>5, <1>6, <1>7 DEF Telltale, p

(* The answer goes on.                                                     *)
LEMMA PushAnswerTells ==
    ASSUME NEW a, NEW c, Telltale(a, c), c.mode = "text", NEW text \in Tokens
    PROVE  /\ Telltale(a, PushAnswer(c, text)) /\ AsBefore(PushAnswer(c, text), c)
           /\ PushAnswer(c, text).mode = "text"
           /\ Telling(PushAnswer(c, text)) = Telling(c) \o Words(text)
  <1> DEFINE d == FinalizeItem(c, "reasoning")
             p == PushDelta(d, "message", text)
  <1>1. PushAnswer(c, text) = p
    BY DEF PushAnswer
  <1>2. Telltale(a, d) /\ AsBefore(d, c) /\ d.mode = "text" /\ Telling(d) = Telling(c)
    BY CloseReasons
  <1> HIDE DEF d
  <1>3. /\ Telltale(a, p) /\ AsBefore(p, d) /\ p.mode = "text"
        /\ Telling(p) = Telling(d) \o Words(text)
    BY <1>2, PushMessage, Zenon
  <1>4. QED
    BY <1>1, <1>2, <1>3 DEF AsBefore

(* A thought is pushed and closed before any of the answer is.             *)
LEMMA PushThoughtTells ==
    ASSUME NEW a, NEW c, Telltale(a, c), c.mode = "text", c.message.at < 0, ~c.reasoning.done,
           NEW text \in Tokens
    PROVE  /\ Telltale(a, PushThought(c, text)) /\ AsBefore(PushThought(c, text), c)
           /\ PushThought(c, text).mode = "text"
           /\ Telling(PushThought(c, text)) = Telling(c) \o Words(text)
  <1>1. "reasoning" \in TextKinds /\ "message" \in TextKinds /\ Honest(a, c) /\ c \in Conv
        /\ Heard(c) /\ ~c.message.done /\ c.buffer = <<>>
    BY DEF TextKinds, Telltale, Honest, Undecided
  <1>2. Words(<<>>) = <<>>
    <2>1. <<>> \in Tokens
      BY DEF Tokens
    <2>2. QED
      BY <2>1, WordsNone
  <1> DEFINE r == Words(c.reasoning.text)
             t == Words(text)
  <1>3. Telling(c) = r /\ r \in Seq(STRING) /\ t \in Seq(STRING)
    <2>1. c.message.text = <<>>
      BY <1>1 DEF Honest, Tidy
    <2>2. r \in Seq(STRING) /\ t \in Seq(STRING)
      BY <1>1, TellsText, WordsTyped DEF Tokens
    <2>3. Telling(c) = r \o (<<>> \o <<>>)
      BY <1>1, <1>2, <2>1, Zenon DEF Telling
    <2> HIDE DEF r, t
    <2>4. r \o (<<>> \o <<>>) = r
      BY <2>2
    <2>5. QED
      BY <2>2, <2>3, <2>4
  <1>4. CASE text = <<>>
    <2>1. PushThought(c, text) = c /\ t = <<>>
      BY <1>2, <1>4 DEF PushThought
    <2> HIDE DEF r, t
    <2>2. r \o <<>> = r
      BY <1>3
    <2>3. QED
      BY <1>3, <2>1, <2>2 DEF AsBefore, t
  <1>5. CASE text # <<>>
    <2> DEFINE d == PushDelta(c, "reasoning", text)
    <2>1. PushThought(c, text) = FinalizeItem(d, "reasoning")
      BY <1>5 DEF PushThought
    <2>2. /\ Honest(a, d) /\ OnlyText(d, c, "reasoning") /\ d.items = c.items
          /\ d.reasoning.text = c.reasoning.text \o text /\ d.reasoning.done = c.reasoning.done
      BY <1>1, PushDeltaHonest
    <2> HIDE DEF d
    <2>3. d.message = c.message /\ AsBefore(d, c) /\ d.mode = "text" /\ d.buffer = <<>>
      BY <1>1, <2>2 DEF OnlyText, Beside, AsBefore
    <2>4. Words(d.reasoning.text) = r \o t
      BY <1>1, <2>2, TellsText, WordsJoin
    <2>5. Heard(d)
      <3>1. HeardOf(d, "message")
        BY <1>1, <2>2, <2>3 DEF Heard, HeardOf
      <3>2. HeardOf(d, "reasoning")
        <4>1. \A n \in 1..Len(d.items) : d.items[n].item.kind # "reasoning"
          BY <1>1, <2>2, GivenIsDone
        <4>2. QED
          BY <4>1 DEF HeardOf
      <3>3. QED
        BY <3>1, <3>2 DEF Heard, TextKinds
    <2>6. Telling(d) = r \o t
      <3>1. c.message.text = <<>>
        BY <1>1 DEF Honest, Tidy
      <3>2. Telling(d) = (r \o t) \o (<<>> \o <<>>)
        BY <1>2, <2>3, <2>4, <3>1, Zenon DEF Telling
      <3> HIDE DEF r, t
      <3>3. (r \o t) \o (<<>> \o <<>>) = r \o t
        <4> DEFINE T == STRING
        <4>1. r \in Seq(T) /\ t \in Seq(T) /\ <<>> \o <<>> = <<>>
          BY <1>3
        <4> HIDE DEF T
        <4>2. r \o t \in Seq(T)
          BY <4>1
        <4>3. QED
          BY <4>1, <4>2, Joining
      <3>4. QED
        BY <3>2, <3>3
    <2>7. Telltale(a, d)
      <3>1. ~d.message.done /\ Undecided(d)
        BY <1>1, <2>3 DEF Undecided
      <3>2. QED
        BY <2>2, <2>5, <3>1 DEF Telltale
    <2> DEFINE p == FinalizeItem(d, "reasoning")
    <2>8. Telltale(a, p) /\ AsBefore(p, d) /\ p.mode = "text" /\ Telling(p) = Telling(d)
      BY <2>3, <2>7, CloseReasons
    <2>9. QED
      BY <1>3, <2>1, <2>3, <2>6, <2>8 DEF AsBefore
  <1>6. QED
    BY <1>4, <1>5

(* A text that begins with a thought still does when it grows.             *)
LEMMA OpensMore ==
    ASSUME NEW s \in Tokens, NEW t \in Tokens, Opens(s)
    PROVE  Opens(s \o t)
  <1> DEFINE w == s \o t
             L == Len(s)
             W == Len(w)
             T == STRING
  <1>1. s \in Seq(STRING) /\ t \in Seq(STRING) /\ w \in Seq(STRING)
    BY DEF Tokens
  <1>2. PICK n \in 0..L : /\ TrimStart(s) = SubSeq(s, n + 1, L)
                          /\ \A i \in 1..n : s[i] = Space
                          /\ n < L => s[n + 1] # Space
    BY <1>1, TrimStartIs
  <1>3. PICK m \in 0..W : /\ TrimStart(w) = SubSeq(w, m + 1, W)
                          /\ \A i \in 1..m : w[i] = Space
                          /\ m < W => w[m + 1] # Space
    BY <1>1, TrimStartIs, Zenon
  <1>4. /\ Len(Open) <= Len(TrimStart(s))
        /\ SubSeq(Open, 1, Len(Open)) = SubSeq(TrimStart(s), 1, Len(Open))
    BY DEF Opens, IsPrefix
  <1>5. L \in Nat /\ W \in Nat /\ L <= W /\ \A i \in 1..L : w[i] = s[i]
    BY <1>1
  <1>6. s \in Seq(T) /\ w \in Seq(T)
    BY <1>1
  <1> HIDE DEF L, W, w, T
  <1>7. /\ Len(TrimStart(s)) = L - n
        /\ \A i \in 1..(L - n) : TrimStart(s)[i] = s[n + i]
        /\ TrimStart(s) \in Seq(T)
    BY <1>2, <1>6, PartsOf DEF L
  <1>8. /\ Len(TrimStart(w)) = W - m
        /\ \A i \in 1..(W - m) : TrimStart(w)[i] = w[m + i]
        /\ TrimStart(w) \in Seq(T)
    BY <1>3, <1>6, PartsOf DEF W
  <1>9. n + 2 <= L
    BY <1>4, <1>5, <1>7, NoWords
  <1>10. m = n
    <2>1. CASE m < n
      <3>1. m + 1 \in 1..n /\ m + 1 \in 1..L /\ m < W
        BY <1>5, <2>1
      <3>2. QED
        BY <1>2, <1>3, <1>5, <3>1
    <2>2. CASE n < m
      <3>1. n + 1 \in 1..m /\ n + 1 \in 1..L /\ n < L
        BY <1>5, <1>9, <2>2
      <3>2. QED
        BY <1>2, <1>3, <1>5, <3>1, Zenon
    <2>3. QED
      BY <2>1, <2>2
  <1> DEFINE u == TrimStart(s)
             v == TrimStart(w)
  <1>11. v[1] = u[1] /\ v[2] = u[2]
    <2>1. /\ n + 1 \in 1..L /\ n + 2 \in 1..L
          /\ 1 \in 1..(L - n) /\ 2 \in 1..(L - n) /\ 1 \in 1..(W - m) /\ 2 \in 1..(W - m)
      BY <1>5, <1>9, <1>10
    <2>2. u[1] = s[n + 1] /\ u[2] = s[n + 2] /\ v[1] = w[m + 1] /\ v[2] = w[m + 2]
      BY <1>7, <1>8, <2>1
    <2>3. QED
      BY <1>5, <1>10, <2>1, <2>2
  <1>12. /\ u \in Seq(T) /\ v \in Seq(T) /\ 2 <= Len(u) /\ 2 <= Len(v)
    BY <1>5, <1>7, <1>8, <1>9, <1>10
  <1> HIDE DEF u, v
  <1>13. SubSeq(u, 1, 2) = SubSeq(v, 1, 2)
    <2>1. /\ SubSeq(u, 1, 2) = [i \in 1..2 |-> u[i]]
          /\ SubSeq(v, 1, 2) = [i \in 1..2 |-> v[i]]
      BY <1>12
    <2>2. \A i \in 1..2 : u[i] = v[i]
      <3>1. \A i \in 1..2 : i = 1 \/ i = 2
        OBVIOUS
      <3>2. QED
        BY <1>11, <3>1
    <2>3. QED
      BY <2>1, <2>2
  <1>14. QED
    BY <1>4, <1>12, <1>13, NoWords DEF Opens, IsPrefix, u, v, w

(* What is decided of a text.                                              *)
LEMMA DecidedTells ==
    ASSUME NEW a, NEW c, Honest(a, c), Heard(c), ~c.message.done, c.message.at < 0,
           ~c.reasoning.done
    PROVE  /\ Telltale(a, Decided(c)) /\ AsBefore(Decided(c), c)
           /\ Decided(c).mode = "text" /\ Decided(c).message.at < 0 /\ ~Decided(c).reasoning.done
           /\ Telling(c) = Telling(Decided(c)) \o Words(c.buffer)
           /\ Telling(Decided(c)) \in Seq(STRING)
           /\ c.buffer = <<>> => Telling(Decided(c)) = Telling(c)
  <1> DEFINE d == Decided(c)
             r == Words(c.reasoning.text)
             b == Words(c.buffer)
             T == STRING
  <1>1. c \in Conv /\ Tidy(c)
    BY DEF Honest
  <1>2. /\ d \in Conv /\ d.mode = "text" /\ d.buffer = <<>> /\ d.reasoning = c.reasoning
        /\ d.message = c.message /\ d.tools = c.tools /\ d.items = c.items /\ d.next = c.next
        /\ d.out = c.out /\ d.completed = c.completed /\ d.failed = c.failed
    <2>1. <<>> \in Tokens
      BY DEF Tokens
    <2>2. QED
      BY <1>1, <2>1, Zenon DEF Decided, Conv
  <1> HIDE DEF d
  <1>3. Honest(a, d) /\ Heard(d)
    BY <1>2, Quietly
  <1>4. Undecided(d) /\ AsBefore(d, c)
    BY <1>2 DEF Undecided, AsBefore
  <1>5. c.message.text = <<>>
    BY <1>1 DEF Tidy, TextKinds
  <1>6. Words(<<>>) = <<>>
    <2>1. <<>> \in Tokens
      BY DEF Tokens
    <2>2. QED
      BY <2>1, WordsNone
  <1>7. r \in Seq(T) /\ b \in Seq(T)
    BY <1>1, TellsText
  <1>8. Telling(c) = r \o (<<>> \o b) /\ Telling(d) = r \o (<<>> \o <<>>)
    BY <1>2, <1>5, <1>6, Zenon DEF Telling
  <1>9. c.buffer = <<>> => b = <<>>
    BY <1>6
  <1> HIDE DEF r, b, T
  <1>10. <<>> \o b = b /\ <<>> \o <<>> = <<>> /\ r \o <<>> = r
    BY <1>7
  <1>11. Telling(c) = Telling(d) \o b /\ Telling(d) = r
    BY <1>8, <1>10
  <1>12. QED
    BY <1>2, <1>3, <1>4, <1>7, <1>8, <1>9, <1>10, <1>11 DEF Telltale, d, b, T

(* A thought that is closed is told from what comes after it.              *)
LEMMA DrainThinkTells ==
    ASSUME NEW a, NEW c, Telltale(a, c), c.mode = "reasoning"
    PROVE  /\ Telltale(a, DrainThink(c)) /\ AsBefore(DrainThink(c), c)
           /\ Telling(DrainThink(c)) = Telling(c)
           /\ Closed(c.buffer) => DrainThink(c).mode = "text"
  <1> DEFINE b == c.buffer
             d == Decided(c)
             t == PushThought(d, Thought(b))
             rest == Rest(b)
  <1>1. CASE ~Closed(b)
    <2>1. DrainThink(c) = c
      BY <1>1 DEF DrainThink
    <2>2. QED
      BY <1>1, <2>1 DEF AsBefore
  <1>2. CASE Closed(b)
    <2>1. /\ Honest(a, c) /\ Heard(c) /\ ~c.message.done /\ c.message.at < 0
          /\ ~c.reasoning.done /\ b \in Tokens
      BY DEF Telltale, Undecided, Honest, Conv
    <2>2. /\ Telltale(a, d) /\ AsBefore(d, c) /\ d.mode = "text" /\ d.message.at < 0
          /\ ~d.reasoning.done /\ Telling(c) = Telling(d) \o Words(b)
          /\ Telling(d) \in Seq(STRING)
      BY <2>1, DecidedTells
    <2>3. /\ Words(Thought(b)) \o Words(rest) = Words(b)
          /\ Thought(b) \in Tokens /\ rest \in Tokens
      BY <1>2, <2>1, WordsClosed
    <2>4. DrainThink(c) = PushSome(t, "message", rest)
      BY <1>2 DEF DrainThink
    <2> HIDE DEF b, d, rest
    <2>5. /\ Telltale(a, t) /\ AsBefore(t, d) /\ t.mode = "text"
          /\ Telling(t) = Telling(d) \o Words(Thought(b))
      BY <2>2, <2>3, PushThoughtTells
    <2> HIDE DEF t
    <2> DEFINE p == PushSome(t, "message", rest)
    <2>6. /\ Telltale(a, p) /\ AsBefore(p, t) /\ p.mode = "text"
          /\ Telling(p) = Telling(t) \o Words(rest)
      <3>1. CASE rest = <<>>
        <4>1. p = t
          BY <3>1 DEF PushSome
        <4>2. Words(rest) = <<>>
          BY <2>3, <3>1, WordsNone
        <4>3. Telling(t) \in Seq(STRING)
          <5> DEFINE T == STRING
                     h == Words(Thought(b))
                     g == Telling(d)
          <5>1. g \in Seq(T) /\ h \in Seq(T)
            BY <2>2, <2>3, WordsTyped DEF Tokens
          <5> HIDE DEF T, h, g
          <5>2. g \o h \in Seq(T)
            BY <5>1
          <5>3. QED
            BY <2>5, <5>2 DEF T, g, h
        <4>4. Telling(t) \o <<>> = Telling(t)
          BY <4>3
        <4>5. QED
          BY <2>5, <4>1, <4>2, <4>4 DEF AsBefore
      <3>2. CASE rest # <<>>
        <4>1. p = PushDelta(t, "message", rest)
          BY <3>2 DEF PushSome
        <4>2. QED
          BY <2>3, <2>5, <4>1, PushMessage, Zenon
      <3>3. QED
        BY <3>1, <3>2
    <2>7. Telling(p) = Telling(c)
      <3> DEFINE T == STRING
                 g == Telling(d)
                 h == Words(Thought(b))
                 k == Words(rest)
      <3>1. g \in Seq(T) /\ h \in Seq(T) /\ k \in Seq(T)
        BY <2>2, <2>3, WordsTyped DEF Tokens
      <3>2. Telling(p) = (g \o h) \o k /\ Telling(c) = g \o Words(b) /\ h \o k = Words(b)
        BY <2>2, <2>3, <2>5, <2>6
      <3> HIDE DEF T, g, h, k
      <3>3. g \o (h \o k) = (g \o h) \o k
        BY <3>1, Joining
      <3>4. QED
        BY <3>2, <3>3
    <2>8. QED
      BY <2>2, <2>4, <2>5, <2>6, <2>7 DEF AsBefore
  <1>3. QED
    BY <1>1, <1>2

(* The text that was held back is told, and what is pushed comes after it. *)
LEMMA PushAllTells ==
    ASSUME NEW a, NEW c, Honest(a, c), Heard(c), ~c.message.done, c.message.at < 0,
           ~c.reasoning.done
    PROVE  /\ Telltale(a, PushAnswer(Decided(c), c.buffer))
           /\ AsBefore(PushAnswer(Decided(c), c.buffer), c)
           /\ PushAnswer(Decided(c), c.buffer).mode = "text"
           /\ Telling(PushAnswer(Decided(c), c.buffer)) = Telling(c)
  <1> DEFINE d == Decided(c)
             b == c.buffer
  <1>1. /\ Telltale(a, d) /\ AsBefore(d, c) /\ d.mode = "text"
        /\ Telling(c) = Telling(d) \o Words(b)
    BY DecidedTells
  <1>2. b \in Tokens
    BY DEF Honest, Conv
  <1> HIDE DEF d, b
  <1> DEFINE p == PushAnswer(d, b)
  <1>3. /\ Telltale(a, p) /\ AsBefore(p, d) /\ p.mode = "text"
        /\ Telling(p) = Telling(d) \o Words(b)
    BY <1>1, <1>2, PushAnswerTells
  <1>4. QED
    BY <1>1, <1>3 DEF AsBefore, d, b

(* More text is held back.                                                 *)
Holding(c, text) == [c EXCEPT !.buffer = @ \o text]

(* Text that is held back is counted with what is told.                    *)
LEMMA HoldsBack ==
    ASSUME NEW a, NEW c, Telltale(a, c), c.mode # "text", NEW text \in Tokens
    PROVE  /\ Telltale(a, Holding(c, text)) /\ AsBefore(Holding(c, text), c)
           /\ Telling(Holding(c, text)) = Telling(c) \o Words(text)
           /\ Holding(c, text).mode = c.mode /\ Holding(c, text).buffer = c.buffer \o text
           /\ Holding(c, text).message = c.message /\ Holding(c, text).reasoning = c.reasoning
  <1> DEFINE d == Holding(c, text)
             n == c.buffer \o text
             r == Words(c.reasoning.text)
             m == Words(c.message.text)
             b == Words(c.buffer)
             t == Words(text)
             T == STRING
  <1>1. Honest(a, c) /\ c \in Conv /\ c.buffer \in Tokens
    BY DEF Telltale, Honest, Conv
  <1>2. n \in Tokens
    <2> DEFINE s == c.buffer
    <2>1. s \in Seq(T) /\ text \in Seq(T)
      BY <1>1 DEF Tokens
    <2> HIDE DEF T, s
    <2>2. s \o text \in Seq(T)
      BY <2>1
    <2>3. QED
      BY <2>2 DEF T, s, Tokens
  <1>3. d = [c EXCEPT !.buffer = n]
    BY DEF Holding
  <1> HIDE DEF d, n
  <1>4. /\ d \in Conv /\ d.mode = c.mode /\ d.buffer = n /\ d.reasoning = c.reasoning
        /\ d.message = c.message /\ d.tools = c.tools /\ d.items = c.items /\ d.next = c.next
        /\ d.out = c.out /\ d.completed = c.completed /\ d.failed = c.failed
    BY <1>1, <1>2, <1>3, Zenon DEF Conv
  <1>5. Honest(a, d) /\ Heard(d)
    BY <1>1, <1>4, Quietly DEF Telltale
  <1>6. Undecided(d)
    <2>1. c.mode = "reasoning" => Opens(n)
      BY <1>1, OpensMore DEF Telltale, Undecided, n
    <2>2. QED
      BY <1>4, <2>1 DEF Telltale, Undecided
  <1>7. Words(n) = b \o t
    BY <1>1, WordsJoin DEF n
  <1>8. r \in Seq(T) /\ m \in Seq(T) /\ b \in Seq(T) /\ t \in Seq(T)
    BY <1>1, TellsText, WordsTyped DEF Tokens
  <1>9. Telling(d) = r \o (m \o (b \o t)) /\ Telling(c) = r \o (m \o b)
    BY <1>4, <1>7 DEF Telling
  <1> HIDE DEF r, m, b, t, T
  <1>10. Telling(d) = Telling(c) \o t
    <2>1. m \o (b \o t) = (m \o b) \o t /\ m \o b \in Seq(T)
      BY <1>8, Joining
    <2> DEFINE u == m \o b
    <2> HIDE DEF u
    <2>4. u \in Seq(T)
      BY <2>1 DEF u
    <2>2. r \o (u \o t) = (r \o u) \o t
      <3>1. r \in Seq(T) /\ u \in Seq(T) /\ t \in Seq(T)
        BY <1>8, <2>4
      <3>2. QED
        BY <3>1, Joining
    <2>3. QED
      BY <1>9, <2>1, <2>2 DEF u
  <1>11. ~d.message.done
    BY <1>4 DEF Telltale
  <1>12. QED
    BY <1>4, <1>5, <1>6, <1>10, <1>11 DEF Telltale, AsBefore, d, n, t

(* A piece of text is taken.                                               *)
LEMMA PushContentTells ==
    ASSUME NEW a, NEW c, Telltale(a, c), NEW text \in Tokens
    PROVE  /\ Telltale(a, PushContent(c, text)) /\ AsBefore(PushContent(c, text), c)
           /\ Telling(PushContent(c, text)) = Telling(c) \o Words(text)
  <1> DEFINE b == Holding(c, text)
             k == [b EXCEPT !.mode = "reasoning"]
             p == PushContent(c, text)
  <1>1. c \in Conv /\ c.mode \in {"detecting", "reasoning", "text"}
    BY DEF Telltale, Honest, Conv
  <1>2. CASE c.mode = "text"
    <2>1. p = PushAnswer(c, text)
      BY <1>2 DEF PushContent
    <2> HIDE DEF p
    <2>2. QED
      BY <1>2, <2>1, PushAnswerTells DEF p
  <1>3. CASE c.mode = "reasoning"
    <2>1. p = DrainThink(b)
      BY <1>3 DEF PushContent, Holding
    <2>2. /\ Telltale(a, b) /\ AsBefore(b, c) /\ Telling(b) = Telling(c) \o Words(text)
          /\ b.mode = "reasoning"
      BY <1>3, HoldsBack
    <2> HIDE DEF b, p
    <2>3. /\ Telltale(a, DrainThink(b)) /\ AsBefore(DrainThink(b), b)
          /\ Telling(DrainThink(b)) = Telling(b)
      BY <2>2, DrainThinkTells, Zenon
    <2>4. QED
      BY <2>1, <2>2, <2>3 DEF AsBefore, p
  <1>4. CASE c.mode = "detecting"
    <2>1. p = IF Opens(b.buffer) THEN DrainThink(k)
              ELSE IF MayOpen(b.buffer) THEN b ELSE PushAnswer(Decided(b), b.buffer)
      BY <1>4 DEF PushContent, Holding
    <2>2. /\ Telltale(a, b) /\ AsBefore(b, c) /\ Telling(b) = Telling(c) \o Words(text)
          /\ b.mode = "detecting"
      BY <1>4, HoldsBack
    <2> HIDE DEF b, p
    <2>3. /\ Honest(a, b) /\ Heard(b) /\ ~b.message.done /\ b.message.at < 0
          /\ ~b.reasoning.done /\ b \in Conv
      BY <2>2 DEF Telltale, Undecided, Honest
    <2>4. CASE Opens(b.buffer)
      <3>1. /\ k \in Conv /\ k.mode = "reasoning" /\ k.buffer = b.buffer
            /\ k.reasoning = b.reasoning
            /\ k.message = b.message /\ k.tools = b.tools /\ k.items = b.items
            /\ k.next = b.next
            /\ k.out = b.out /\ k.completed = b.completed /\ k.failed = b.failed
        BY <2>3 DEF Conv
      <3> HIDE DEF k
      <3>2. Honest(a, k) /\ Heard(k)
        BY <2>3, <3>1, Quietly
      <3>3. Telltale(a, k) /\ Telling(k) = Telling(b) /\ AsBefore(k, b)
        BY <2>3, <2>4, <3>1, <3>2 DEF Telltale, Undecided, Telling, AsBefore
      <3>4. /\ Telltale(a, DrainThink(k)) /\ AsBefore(DrainThink(k), k)
            /\ Telling(DrainThink(k)) = Telling(k)
        BY <3>1, <3>3, DrainThinkTells
      <3>5. p = DrainThink(k)
        BY <2>1, <2>4
      <3>6. QED
        BY <2>2, <3>3, <3>4, <3>5 DEF AsBefore, p
    <2>5. CASE ~Opens(b.buffer) /\ MayOpen(b.buffer)
      <3>1. p = b
        BY <2>1, <2>5
      <3>2. QED
        BY <2>2, <3>1 DEF p
    <2>6. CASE ~Opens(b.buffer) /\ ~MayOpen(b.buffer)
      <3> DEFINE q == PushAnswer(Decided(b), b.buffer)
      <3>1. p = q
        BY <2>1, <2>6
      <3>2. Telltale(a, q) /\ AsBefore(q, b) /\ Telling(q) = Telling(b)
        BY <2>3, PushAllTells
      <3> HIDE DEF q
      <3>3. QED
        BY <2>2, <3>1, <3>2 DEF AsBefore, p
    <2>7. QED
      BY <2>4, <2>5, <2>6
  <1>5. QED
    BY <1>1, <1>2, <1>3, <1>4

(* What was held back is told before the answer goes on otherwise.         *)
LEMMA FlushThinkTells ==
    ASSUME NEW a, NEW c, Telltale(a, c)
    PROVE  /\ Telltale(a, FlushThink(c)) /\ AsBefore(FlushThink(c), c)
           /\ FlushThink(c).mode = "text"
           /\ Telling(FlushThink(c)) = Telling(c)
  <1> DEFINE d == Decided(c)
             b == c.buffer
             p == FlushThink(c)
  <1>1. c \in Conv /\ b \in Tokens /\ c.mode \in {"detecting", "reasoning", "text"}
    BY DEF Telltale, Honest, Conv
  <1>2. CASE c.mode = "text"
    <2>1. p = c
      BY <1>2 DEF FlushThink
    <2>2. QED
      BY <1>2, <2>1 DEF AsBefore
  <1>3. CASE c.mode # "text"
    <2>1. /\ Honest(a, c) /\ Heard(c) /\ ~c.message.done /\ c.message.at < 0
          /\ ~c.reasoning.done
      BY <1>3 DEF Telltale, Undecided
    <2>2. /\ Telltale(a, d) /\ AsBefore(d, c) /\ d.mode = "text" /\ d.message.at < 0
          /\ ~d.reasoning.done /\ Telling(c) = Telling(d) \o Words(b)
          /\ (b = <<>> => Telling(d) = Telling(c))
      BY <2>1, DecidedTells
    <2>3. CASE c.mode = "detecting"
      <3>1. p = IF b = <<>> THEN d ELSE PushAnswer(d, b)
        BY <2>3 DEF FlushThink
      <3>2. CASE b = <<>>
        <4>1. p = d
          BY <3>1, <3>2
        <4> HIDE DEF d, b, p
        <4>2. QED
          BY <2>2, <3>2, <4>1 DEF p
      <3>3. CASE b # <<>>
        <4>1. p = PushAnswer(Decided(c), c.buffer)
          BY <3>1, <3>3
        <4> HIDE DEF p
        <4>2. QED
          BY <2>1, <4>1, PushAllTells DEF p
      <3>4. QED
        BY <3>2, <3>3
    <2>4. CASE c.mode = "reasoning"
      <3>1. p = IF Closed(b) THEN DrainThink(c) ELSE PushThought(d, Trim(Body(b)))
        BY <2>4 DEF FlushThink
      <3>2. CASE Closed(b)
        <4>1. p = DrainThink(c)
          BY <3>1, <3>2
        <4> HIDE DEF p
        <4>2. QED
          BY <2>4, <3>2, <4>1, DrainThinkTells DEF p
      <3>3. CASE ~Closed(b)
        <4> DEFINE t == Trim(Body(b))
                   q == PushThought(d, t)
        <4>1. p = q
          BY <3>1, <3>3
        <4>2. Opens(b)
          BY <2>4 DEF Telltale, Undecided
        <4>3. t \in Tokens /\ Words(t) = Words(b)
          <5>1. Words(Body(b)) = Words(b) /\ Body(b) \in Tokens
            BY <1>1, <4>2, WordsOpened
          <5>2. QED
            BY <5>1, WordsTrimmed
        <4> HIDE DEF t, d, b
        <4>4. /\ Telltale(a, q) /\ AsBefore(q, d) /\ q.mode = "text"
              /\ Telling(q) = Telling(d) \o Words(t)
          BY <2>2, <4>3, PushThoughtTells
        <4> HIDE DEF q, p
        <4>5. QED
          BY <2>2, <4>1, <4>3, <4>4 DEF AsBefore, p
      <3>4. QED
        BY <3>2, <3>3
    <2>5. QED
      BY <1>1, <1>3, <2>3, <2>4
  <1>4. QED
    BY <1>2, <1>3

(* The answer is announced.                                                *)
LEMMA EnsureStartedTells ==
    ASSUME NEW a, NEW c, Telltale(a, c)
    PROVE  /\ Telltale(a, EnsureStarted(c)) /\ AsBefore(EnsureStarted(c), c)
           /\ Telling(EnsureStarted(c)) = Telling(c)
  <1> DEFINE d == [c EXCEPT !.started = TRUE]
             e == [ev |-> "created"]
             p == Emit(d, e)
  <1>1. EnsureStarted(c) = IF c.started THEN c ELSE p
    BY DEF EnsureStarted
  <1>2. c \in Conv /\ Honest(a, c) /\ a \in AppState
    BY DEF Telltale, Honest
  <1>3. /\ d \in Conv /\ d.mode = c.mode /\ d.buffer = c.buffer /\ d.reasoning = c.reasoning
        /\ d.message = c.message /\ d.tools = c.tools /\ d.items = c.items /\ d.next = c.next
        /\ d.out = c.out /\ d.completed = c.completed /\ d.failed = c.failed
    BY <1>2, Zenon DEF Conv
  <1>4. e \in Event
    BY DEF Event
  <1> HIDE DEF d
  <1>5. Honest(a, d)
    BY <1>2, <1>3, Quietly
  <1>6. /\ p \in Conv /\ p.mode = c.mode /\ p.buffer = c.buffer /\ p.reasoning = c.reasoning
        /\ p.message = c.message /\ p.tools = c.tools /\ p.items = c.items /\ p.next = c.next
        /\ p.completed = c.completed /\ p.failed = c.failed
    BY <1>3, <1>4, EmitIs
  <1>7. HasRead(a, p) = HasRead(a, d) /\ Cells(p) = Cells(d)
    <2>1. HasRead(a, p) = Receive(HasRead(a, d), e) /\ Cells(p) = Cells(d)
      BY <1>2, <1>3, <1>4, EmitRead
    <2>2. Receive(HasRead(a, d), e) = HasRead(a, d)
      BY DEF Receive
    <2>3. QED
      BY <2>1, <2>2
  <1>8. Tidy(p)
    BY <1>3, <1>4, <1>5, EmitBeside DEF Honest
  <1>9. Honest(a, p)
    BY <1>3, <1>5, <1>6, <1>7, <1>8 DEF Honest
  <1>10. Heard(p) /\ Undecided(p) /\ ~p.message.done /\ Telling(p) = Telling(c) /\ AsBefore(p, c)
    <2>1. \A kind \in TextKinds : p[kind] = c[kind]
      BY <1>6 DEF TextKinds
    <2>2. Heard(p)
      BY <1>6, <2>1 DEF Telltale, Heard, HeardOf
    <2>3. QED
      BY <1>6, <2>2, Zenon DEF Telltale, Undecided, Telling, AsBefore
  <1>11. QED
    BY <1>1, <1>9, <1>10 DEF Telltale, AsBefore

(* Nothing has changed but one call and what is said of it.                *)
OnlyCall(d, c, i) ==
    /\ Beside(d, c) /\ d.reasoning = c.reasoning /\ d.message = c.message
    /\ \A j \in ToolSlots : j # i => d.tools[j] = c.tools[j]
WithCall(c, i, t) == [c EXCEPT !.tools[i] = t]

(* Of the converter only one call has changed.                             *)
LEMMA CallChanges ==
    ASSUME NEW c \in Conv, NEW i \in ToolSlots, NEW t \in ToolItem
    PROVE  /\ WithCall(c, i, t) \in Conv /\ OnlyCall(WithCall(c, i, t), c, i)
           /\ WithCall(c, i, t).out = c.out /\ WithCall(c, i, t).items = c.items
           /\ WithCall(c, i, t).next = c.next
           /\ WithCall(c, i, t).tools[i] = t
           /\ Cells(WithCall(c, i, t)) = [Cells(c) EXCEPT ![i] = CallCell(t)]
           /\ i \in Keys /\ Cells(c)[i] = CallCell(c.tools[i])
           /\ c.tools[i] \in ToolItem
  <1> DEFINE u == [c.tools EXCEPT ![i] = t]
             d == [c EXCEPT !.tools = u]
             o == Cells(c)
             x == CallCell(t)
             n == [o EXCEPT ![i] = x]
  <1>1. c.tools \in [ToolSlots -> ToolItem] /\ u \in [ToolSlots -> ToolItem] /\ u[i] = t
        /\ \A j \in ToolSlots : j # i => u[j] = c.tools[j]
    BY DEF Conv
  <1>2. d = WithCall(c, i, t)
    BY DEF WithCall
  <1> HIDE DEF u
  <1>3. /\ d \in Conv /\ d.reasoning = c.reasoning /\ d.message = c.message /\ d.tools = u
        /\ d.out = c.out /\ d.items = c.items /\ d.next = c.next /\ Beside(d, c)
    BY <1>1, Zenon DEF Conv, Beside
  <1> HIDE DEF d
  <1>4. i \in Keys /\ i # -1 /\ i # -2 /\ i \in Int /\ i >= 0
    BY StreamAssumption DEF Keys, ToolSlots
  <1>5. \A key \in Keys : key # -1 /\ key # -2 => key \in ToolSlots
    BY StreamAssumption DEF Keys, ToolSlots
  <1>6. /\ n[i] = x /\ \A key \in Keys : key # i => n[key] = o[key]
    BY <1>4 DEF Cells
  <1>7. n = [key \in Keys |-> n[key]] /\ Cells(d) = [key \in Keys |-> Cells(d)[key]]
    BY <1>4, Zenon DEF Cells
  <1>8. Cells(d)[i] = x
    BY <1>1, <1>3, <1>4 DEF Cells
  <1>9. \A key \in Keys : key # i => Cells(d)[key] = o[key]
    BY <1>1, <1>3, <1>5 DEF Cells
  <1>10. Cells(c)[i] = CallCell(c.tools[i])
    BY <1>4 DEF Cells
  <1>11. Cells(d) = n
    <2> HIDE DEF o, n, x
    <2>1. \A key \in Keys : Cells(d)[key] = n[key]
      BY <1>6, <1>8, <1>9
    <2>2. QED
      BY <1>7, <2>1
  <1>12. OnlyCall(d, c, i)
    BY <1>1, <1>3 DEF OnlyCall
  <1>13. QED
    BY <1>1, <1>2, <1>3, <1>4, <1>10, <1>11, <1>12

(* A call keeps the texts as they are.                                     *)
LEMMA CallBeside ==
    ASSUME NEW c \in Conv, NEW d \in Conv, NEW i \in ToolSlots, OnlyCall(d, c, i)
    PROVE  /\ \A kind \in TextKinds : d[kind] = c[kind]
           /\ Tidy(c) /\ NamedCall(d.tools[i]) => Tidy(d)
  <1>1. \A kind \in TextKinds : d[kind] = c[kind]
    BY DEF TextKinds, OnlyCall
  <1>2. Tidy(c) /\ NamedCall(d.tools[i]) => Tidy(d)
    BY <1>1 DEF Tidy, OnlyCall
  <1>3. QED
    BY <1>1, <1>2

(* Writing an event leaves a call as it is.                                *)
LEMMA EmitCall ==
    ASSUME NEW c \in Conv, NEW d \in Conv, NEW i \in ToolSlots, OnlyCall(d, c, i),
           NEW e \in Event
    PROVE  OnlyCall(Emit(d, e), c, i) /\ Emit(d, e).tools[i] = d.tools[i]
  <1>1. Beside(Emit(d, e), d) /\ Emit(d, e).tools = d.tools
    BY EmitBeside
  <1>2. Emit(d, e).reasoning = d.reasoning /\ Emit(d, e).message = d.message
    BY EmitIs
  <1>3. QED
    BY <1>1, <1>2 DEF OnlyCall, Beside

(* A call is announced, with nothing told of it yet.                       *)
Untold(t) == [CallCell(t) EXCEPT !.shown = <<>>]
Announced(t, i, n) ==
    LET u == [t EXCEPT !.at   = n,
                       !.id   = IF t.id = NoId THEN <<"call", i>> ELSE t.id,
                       !.name = IF t.name = NoName THEN UnknownTool ELSE t.name]
    IN  [u EXCEPT !.item = ItemId(u)]

(* What is announced is a call with a name and an id.                      *)
LEMMA AnnouncedIs ==
    ASSUME NEW t \in ToolItem, NEW i \in ToolSlots, NEW n \in Nat, t.here
    PROVE  /\ Announced(t, i, n) \in ToolItem /\ Announced(t, i, n).at = n
           /\ Announced(t, i, n).here /\ Announced(t, i, n).args = t.args
           /\ Announced(t, i, n).done = t.done /\ NamedCall(Announced(t, i, n))
           /\ Announced(t, i, n).item = ItemId(Announced(t, i, n))
           /\ Announced(t, i, n).item \in CallIds
           /\ t.name # NoName => Announced(t, i, n).name = t.name
  <1> DEFINE id == IF t.id = NoId THEN <<"call", i>> ELSE t.id
             name == IF t.name = NoName THEN UnknownTool ELSE t.name
             u == [t EXCEPT !.at = n, !.id = id, !.name = name]
             s == IF IsCustom(name) THEN "ctc" ELSE "fc"
             item == <<s, id>>
             v == [t EXCEPT !.at = n, !.id = id, !.name = name, !.item = item]
  <1>1. id \in AnyIds /\ id # NoId
    BY DEF AnyIds, NoId, ToolItem
  <1>2. name \in STRING \cup {NoName, UnknownTool} /\ name # NoName
    <2>1. UnknownTool # NoName
      BY DEF UnknownTool, NoName
    <2>2. QED
      BY <2>1 DEF ToolItem
  <1>3. s \in {"ctc", "fc"}
    OBVIOUS
  <1> HIDE DEF id, name
  <1>4. u.id = id /\ u.name = name
    BY DEF ToolItem
  <1>5. ItemId(u) = item
    BY <1>4 DEF ItemId
  <1>6. item \in CallIds
    BY <1>1, <1>3 DEF CallIds
  <1>7. Announced(t, i, n) = v
    BY <1>5, Zenon DEF Announced, id, name
  <1> HIDE DEF item, s
  <1>8. /\ v \in ToolItem /\ v.at = n /\ v.here /\ v.args = t.args /\ v.done = t.done
        /\ v.id = id /\ v.name = name /\ v.item = item
    <2>1. n \in Int
      OBVIOUS
    <2>2. QED
      BY <1>1, <1>2, <1>6, <2>1, Zenon DEF ToolItem
  <1> HIDE DEF v
  <1>9. ItemId(v) = item
    BY <1>8 DEF ItemId, item, s
  <1>10. NamedCall(v)
    BY <1>1, <1>2, <1>8, <1>9 DEF NamedCall
  <1>11. t.name # NoName => name = t.name
    BY DEF name
  <1>12. QED
    BY <1>6, <1>7, <1>8, <1>9, <1>10, <1>11

(* A call is announced.                                                    *)
LEMMA AddToolTells ==
    ASSUME NEW a, NEW c, Honest(a, c), NEW i \in ToolSlots, c.tools[i].at < 0, c.tools[i].here,
           NEW u, u = Announced(c.tools[i], i, c.next)
    PROVE  /\ AddTool(c, i) \in Conv /\ OnlyCall(AddTool(c, i), c, i)
           /\ AddTool(c, i).tools[i] = u /\ u \in ToolItem /\ ~u.done
           /\ AddTool(c, i).items = c.items /\ AddTool(c, i).next = c.next + 1
           /\ Tidy(AddTool(c, i))
           /\ Cells(AddTool(c, i)) = [Cells(c) EXCEPT ![i] = CallCell(u)]
           /\ Shows([Cells(c) EXCEPT ![i] = Untold(u)], c.next + 1, c.items,
                    HasRead(a, AddTool(c, i)))
  <1> DEFINE t == c.tools[i]
             d == WithCall(c, i, u)
             n == c.next + 1
             f == [d EXCEPT !.next = n]
             e == Added(c.next, u.item, "call")
             p == Emit(f, e)
             x == Untold(u)
             new == [Cells(c) EXCEPT ![i] = CallCell(u)]
  <1>1. /\ c \in Conv /\ a \in AppState /\ Tidy(c) /\ t \in ToolItem
        /\ Shows(Cells(c), c.next, c.items, HasRead(a, c))
    BY DEF Honest, Conv
  <1>2. c.next \in Nat /\ c.next \in Int
    BY <1>1 DEF Conv
  <1>3. /\ u \in ToolItem /\ u.at = c.next /\ u.here /\ u.args = t.args /\ u.done = t.done
        /\ NamedCall(u) /\ u.item = ItemId(u) /\ u.item \in CallIds
    BY <1>1, <1>2, AnnouncedIs
  <1>4. AddTool(c, i) = p
    <2> DEFINE v == [t EXCEPT !.at   = c.next,
                              !.id   = IF t.id = NoId THEN <<"call", i>> ELSE t.id,
                              !.name = IF t.name = NoName THEN UnknownTool ELSE t.name]
               w == [v EXCEPT !.item = ItemId(v)]
    <2>1. u = w
      BY DEF Announced
    <2>2. v.at = c.next
      BY <1>1 DEF ToolItem
    <2>3. w.item = ItemId(v)
      BY <1>1 DEF ToolItem
    <2>4. AddTool(c, i) = Emit([c EXCEPT !.tools[i] = w, !.next = @ + 1],
                               Added(v.at, ItemId(v), "call"))
      BY DEF AddTool
    <2>5. [c EXCEPT !.tools[i] = w, !.next = @ + 1] = f
      BY <1>1, <2>1 DEF WithCall, Conv
    <2>6. QED
      BY <2>1, <2>2, <2>3, <2>4, <2>5
  <1>5. /\ d \in Conv /\ OnlyCall(d, c, i) /\ d.out = c.out /\ d.items = c.items
        /\ d.next = c.next /\ d.tools[i] = u /\ Cells(d) = new
        /\ i \in Keys /\ Cells(c)[i] = CallCell(t)
    BY <1>1, <1>3, CallChanges
  <1> HIDE DEF d
  <1>6. n \in Nat
    BY <1>2
  <1> HIDE DEF n
  <1>7. /\ f \in Conv /\ f.out = d.out /\ f.items = d.items /\ f.next = n
        /\ f.tools = d.tools /\ f.reasoning = d.reasoning /\ f.message = d.message
        /\ Beside(f, d)
    BY <1>5, <1>6, Zenon DEF Conv, Beside
  <1> HIDE DEF f
  <1>8. OnlyCall(f, c, i) /\ f.tools[i] = u
    BY <1>5, <1>7 DEF OnlyCall, Beside
  <1>9. Cells(f) = new /\ HasRead(a, f) = HasRead(a, c)
    BY <1>5, <1>7 DEF Cells, HasRead
  <1>10. e \in Event
    BY <1>2, <1>3 DEF Added, Event, LiveIds
  <1>11. Tidy(f)
    BY <1>1, <1>3, <1>7, <1>8, CallBeside
  <1>12. /\ p \in Conv /\ Tidy(p) /\ p.items = c.items /\ p.next = n
         /\ OnlyCall(p, c, i) /\ p.tools[i] = u
    <2>1. p \in Conv /\ Tidy(p) /\ p.items = f.items /\ p.next = f.next
      BY <1>7, <1>10, <1>11, EmitIs, EmitBeside
    <2>2. OnlyCall(p, c, i) /\ p.tools[i] = f.tools[i]
      BY <1>1, <1>7, <1>8, <1>10, EmitCall
    <2>3. QED
      BY <1>5, <1>7, <1>8, <2>1, <2>2
  <1>13. HasRead(a, p) = Receive(HasRead(a, c), e) /\ Cells(p) = new
    <2>1. HasRead(a, Emit(f, e)) = Receive(HasRead(a, f), e) /\ Cells(Emit(f, e)) = Cells(f)
      BY <1>1, <1>7, <1>10, EmitRead
    <2> HIDE DEF new, e
    <2>2. QED
      BY <1>9, <2>1
  <1>14. Cells(c)[i].at < 0 /\ ~t.done
    <2>1. Cells(c)[i].at = t.at /\ Cells(c)[i].done = t.done
      BY <1>5 DEF CallCell
    <2>2. Cells(c)[i].done => Cells(c)[i].at >= 0
      BY <1>1, <1>5 DEF Shows, Given
    <2>3. t.at \in Int
      BY <1>1 DEF ToolItem
    <2>4. QED
      BY <2>1, <2>2, <2>3
  <1>15. /\ x \in Cell /\ x.at = c.next /\ ~x.done /\ x.shown = <<>> /\ x.id = u.item
         /\ x.kind = "call" /\ x.id \in LiveIds
    <2>1. <<>> \in Tokens
      BY DEF Tokens
    <2>2. x = [at |-> u.at, id |-> u.item, kind |-> "call", text |-> u.args, shown |-> <<>>,
               done |-> u.done]
      BY DEF Untold, CallCell
    <2>3. x \in Cell
      BY <1>3, <2>1, <2>2 DEF Cell, ToolItem, LiveIds
    <2>4. QED
      BY <1>3, <1>14, <2>2, <2>3 DEF LiveIds
  <1> HIDE DEF x, p
  <1>16. Shows([Cells(c) EXCEPT ![i] = x], c.next + 1, c.items,
               Receive(HasRead(a, c), Added(c.next, x.id, x.kind)))
    BY <1>1, <1>2, <1>5, <1>14, <1>15, Announces, Zenon
  <1>17. HasRead(a, p) = Receive(HasRead(a, c), Added(c.next, x.id, x.kind))
    BY <1>13, <1>15
  <1>18. QED
    BY <1>3, <1>4, <1>12, <1>13, <1>14, <1>16, <1>17 DEF n, x

(* What a chunk says of a call.                                            *)
Spoken(t, delta) ==
    [t EXCEPT !.here = TRUE,
              !.id   = GivenId(@, delta.id),
              !.name = IF delta.name = NoName THEN @ ELSE delta.name,
              !.args = @ \o delta.args]
(* A chunk renames no call that is announced.                              *)
Keeps(t, delta) ==
    t.at >= 0 => delta.id \in {NoId, t.id} /\ delta.name \in {NoName, t.name}

(* No call has the empty id.                                               *)
LEMMA BlankIsNoId == Blank \notin AnyIds /\ Blank # NoId
  <1>1. \A i : <<"call", i>> # Blank
    <2>1. \A i : Len(<<"call", i>>) = 2 /\ Len(Blank) = 1
      BY DEF Blank
    <2>2. QED
      BY <2>1
  <1>2. Blank # NoId
    BY DEF Blank, NoId
  <1>3. QED
    BY <1>1, <1>2, StreamAssumption DEF AnyIds

(* What is said of a call adds to it: place, item and end stay.            *)
LEMMA SpokenIs ==
    ASSUME NEW t \in ToolItem, NEW delta \in ToolDelta
    PROVE  /\ Spoken(t, delta) \in ToolItem /\ Spoken(t, delta).here
           /\ Spoken(t, delta).at = t.at /\ Spoken(t, delta).item = t.item
           /\ Spoken(t, delta).done = t.done /\ Spoken(t, delta).args = t.args \o delta.args
           /\ delta.id \in {NoId, t.id} => Spoken(t, delta).id = t.id
           /\ delta.name \in {NoName, t.name} => Spoken(t, delta).name = t.name
           /\ delta.args \in Tokens
  <1> DEFINE id == GivenId(t.id, delta.id)
             name == IF delta.name = NoName THEN t.name ELSE delta.name
             args == t.args \o delta.args
             u == [t EXCEPT !.here = TRUE, !.id = id, !.name = name, !.args = args]
  <1>1. id \in AnyIds /\ name \in STRING \cup {NoName, UnknownTool}
    BY DEF ToolItem, ToolDelta, AnyIds, GivenId
  <1>2. args \in Tokens /\ delta.args \in Tokens
    BY DEF ToolItem, ToolDelta, Tokens
  <1>3. Spoken(t, delta) = u
    BY DEF Spoken
  <1>4. delta.id \in {NoId, t.id} => id = t.id
    BY BlankIsNoId DEF ToolItem, GivenId
  <1>5. delta.name \in {NoName, t.name} => name = t.name
    OBVIOUS
  <1> HIDE DEF id, name, args
  <1>6. /\ u \in ToolItem /\ u.here /\ u.at = t.at /\ u.item = t.item /\ u.done = t.done
        /\ u.args = args /\ u.id = id /\ u.name = name
    BY <1>1, <1>2, Zenon DEF ToolItem
  <1> HIDE DEF u
  <1>7. QED
    BY <1>2, <1>3, <1>4, <1>5, <1>6 DEF args

(* As long as a call is not announced the app does not see it change.      *)
LEMMA SpeaksQuietly ==
    ASSUME NEW a, NEW c, Honest(a, c), NEW i \in ToolSlots, c.tools[i].at < 0,
           NEW u \in ToolItem, u.at = c.tools[i].at, u.done = c.tools[i].done
    PROVE  /\ Honest(a, WithCall(c, i, u)) /\ OnlyCall(WithCall(c, i, u), c, i)
           /\ WithCall(c, i, u).items = c.items /\ WithCall(c, i, u).tools[i] = u
  <1> DEFINE d == WithCall(c, i, u)
             x == CallCell(u)
             old == Cells(c)[i]
  <1>1. /\ c \in Conv /\ a \in AppState /\ Tidy(c) /\ c.tools[i] \in ToolItem
        /\ Shows(Cells(c), c.next, c.items, HasRead(a, c))
    BY DEF Honest, Conv
  <1>2. /\ d \in Conv /\ OnlyCall(d, c, i) /\ d.out = c.out /\ d.items = c.items
        /\ d.next = c.next /\ d.tools[i] = u /\ Cells(d) = [Cells(c) EXCEPT ![i] = x]
        /\ i \in Keys /\ old = CallCell(c.tools[i]) /\ Cells(d) \in [Keys -> Cell]
    BY <1>1, CallChanges, CellsTyped
  <1> HIDE DEF d
  <1>3. ~(u.at >= 0) /\ u.at \in Int
    BY <1>1 DEF ToolItem
  <1>4. NamedCall(u)
    BY <1>3 DEF NamedCall
  <1>5. Tidy(d)
    BY <1>1, <1>2, <1>4, CallBeside
  <1>6. x.at = u.at /\ x.done = u.done /\ old.at = u.at /\ old.done = u.done
    BY <1>2 DEF CallCell
  <1>7. x \in Cell
    <2>1. Cells(d)[i] = x
      BY <1>1, <1>2, CellsTyped
    <2>2. QED
      BY <1>2, <2>1
  <1>8. HasRead(a, d) = HasRead(a, c)
    BY <1>2 DEF HasRead
  <1> HIDE DEF x
  <1>9. Shows([Cells(c) EXCEPT ![i] = x], c.next, c.items, HasRead(a, c))
    <2>1. x.at = Cells(c)[i].at /\ x.done = Cells(c)[i].done /\ ~(x.at >= 0)
      BY <1>3, <1>6
    <2>2. QED
      BY <1>1, <1>2, <1>7, <2>1, Unnoticed, Zenon
  <1>10. QED
    BY <1>1, <1>2, <1>5, <1>8, <1>9 DEF Honest, d

(* Of a call that is announced the app is told the next piece.             *)
LEMMA SpeaksOn ==
    ASSUME NEW a, NEW c, Honest(a, c), NEW i \in ToolSlots, c.tools[i].at >= 0,
           NEW delta \in ToolDelta, Keeps(c.tools[i], delta),
           NEW u, u = Spoken(c.tools[i], delta),
           NEW p, p = PushArgs(WithCall(c, i, u), i, delta.args)
    PROVE  /\ Honest(a, p) /\ OnlyCall(p, c, i) /\ p.items = c.items /\ p.tools[i] = u
           /\ u.done = c.tools[i].done
  <1> DEFINE d == WithCall(c, i, u)
             t == c.tools[i]
             x == CallCell(u)
             old == Cells(c)[i]
             e == Delta(u.at, u.item, delta.args)
  <1>1. /\ c \in Conv /\ a \in AppState /\ Tidy(c) /\ t \in ToolItem
        /\ Shows(Cells(c), c.next, c.items, HasRead(a, c))
    BY DEF Honest, Conv
  <1>2. /\ u \in ToolItem /\ u.here /\ u.at = t.at /\ u.item = t.item /\ u.done = t.done
        /\ u.args = t.args \o delta.args /\ u.id = t.id /\ u.name = t.name
        /\ delta.args \in Tokens
    BY <1>1, SpokenIs, Zenon DEF Keeps
  <1>3. /\ d \in Conv /\ OnlyCall(d, c, i) /\ d.out = c.out /\ d.items = c.items
        /\ d.next = c.next /\ d.tools[i] = u /\ Cells(d) = [Cells(c) EXCEPT ![i] = x]
        /\ i \in Keys /\ old = CallCell(t) /\ Cells(d) \in [Keys -> Cell]
    BY <1>1, <1>2, CallChanges, CellsTyped
  <1>4. p = IF delta.args = <<>> \/ IsCustom(u.name) THEN d ELSE Emit(d, e)
    BY <1>3 DEF PushArgs
  <1> HIDE DEF d
  <1>5. NamedCall(u) /\ u.item = ItemId(u) /\ u.item \in CallIds
    <2>1. NamedCall(t)
      BY <1>1 DEF Tidy
    <2>2. ItemId(u) = ItemId(t)
      BY <1>2 DEF ItemId
    <2>3. NamedCall(u) /\ u.item = ItemId(u)
      BY <1>2, <2>1, <2>2 DEF NamedCall
    <2>4. u.id \in AnyIds
      BY <1>2 DEF ToolItem
    <2>5. QED
      BY <2>3, <2>4 DEF ItemId, CallIds
  <1>6. Tidy(d)
    BY <1>1, <1>3, <1>5, CallBeside
  <1>7. HasRead(a, d) = HasRead(a, c)
    BY <1>3 DEF HasRead
  <1>8. /\ x.at = u.at /\ x.done = u.done /\ x.kind = "call" /\ x.id = u.item
        /\ x.shown = IF IsCustom(u.name) THEN <<>> ELSE u.args
        /\ old.at = u.at /\ old.done = u.done /\ old.kind = "call" /\ old.id = u.item
        /\ old.shown = IF IsCustom(u.name) THEN <<>> ELSE t.args
    <2>1. /\ x.at = u.at /\ x.done = u.done /\ x.kind = "call" /\ x.id = u.item
          /\ x.shown = IF IsCustom(u.name) THEN <<>> ELSE u.args
      BY DEF CallCell
    <2> DEFINE w == CallCell(t)
    <2>2. /\ w.at = t.at /\ w.done = t.done /\ w.kind = "call" /\ w.id = t.item
          /\ w.shown = IF IsCustom(t.name) THEN <<>> ELSE t.args
      BY DEF CallCell
    <2>3. old = w
      BY <1>3
    <2> HIDE DEF w, old, x
    <2>4. QED
      BY <1>2, <2>1, <2>2, <2>3
  <1>9. x \in Cell /\ t.args \in Tokens
    <2>1. Cells(d)[i] = x
      BY <1>1, <1>3, CellsTyped
    <2>2. QED
      BY <1>1, <1>3, <2>1 DEF ToolItem
  <1> HIDE DEF x, old
  <1>10. CASE delta.args = <<>> \/ IsCustom(u.name)
    <2>1. x.shown = old.shown
      <3>1. t.args \o <<>> = t.args
        BY <1>9, Joining DEF Tokens
      <3>2. QED
        BY <1>2, <1>8, <1>10, <3>1, Zenon
    <2>2. Shows([Cells(c) EXCEPT ![i] = x], c.next, c.items, HasRead(a, c))
      <3>1. /\ x.at = Cells(c)[i].at /\ x.done = Cells(c)[i].done /\ x.kind = Cells(c)[i].kind
            /\ x.id = Cells(c)[i].id /\ x.shown = Cells(c)[i].shown
        BY <1>8, <2>1 DEF old
      <3>2. QED
        BY <1>1, <1>3, <1>9, <3>1, Unnoticed, Zenon
    <2>3. Honest(a, d)
      BY <1>1, <1>3, <1>6, <1>7, <2>2 DEF Honest
    <2>4. QED
      BY <1>2, <1>3, <1>4, <1>10, <2>3
  <1>11. CASE ~(delta.args = <<>> \/ IsCustom(u.name))
    <2>1. x.shown = old.shown \o delta.args
      BY <1>2, <1>8, <1>11, Zenon
    <2>2. Shows([Cells(c) EXCEPT ![i] = x], c.next, c.items,
                Receive(HasRead(a, c), Delta(x.at, x.id, delta.args)))
      <3>1. /\ x.at = Cells(c)[i].at /\ x.done = Cells(c)[i].done /\ x.kind = Cells(c)[i].kind
            /\ x.id = Cells(c)[i].id /\ x.shown = Cells(c)[i].shown \o delta.args /\ x.at >= 0
        BY <1>2, <1>8, <2>1, Zenon DEF old
      <3>2. QED
        BY <1>1, <1>2, <1>3, <1>9, <3>1, Grows, Zenon
    <2>3. e \in Event
      <3>1. u.at \in Int /\ u.item \in LiveIds
        BY <1>2, <1>5 DEF ToolItem, LiveIds
      <3>2. QED
        BY <1>2, <3>1 DEF Delta, Event
    <2> DEFINE q == Emit(d, e)
    <2>4. q \in Conv /\ Tidy(q) /\ q.items = c.items /\ q.next = c.next
      BY <1>3, <1>6, <2>3, EmitIs, EmitBeside
    <2>5. OnlyCall(q, c, i) /\ q.tools[i] = u
      BY <1>1, <1>3, <2>3, EmitCall
    <2>6. HasRead(a, q) = Receive(HasRead(a, c), Delta(x.at, x.id, delta.args))
          /\ Cells(q) = Cells(d)
      <3>1. HasRead(a, Emit(d, e)) = Receive(HasRead(a, d), e) /\ Cells(Emit(d, e)) = Cells(d)
        BY <1>1, <1>3, <2>3, EmitRead
      <3>2. e = Delta(x.at, x.id, delta.args)
        BY <1>8
      <3> HIDE DEF e
      <3>3. QED
        BY <1>7, <3>1, <3>2
    <2> HIDE DEF q
    <2>7. Honest(a, q)
      BY <1>1, <1>3, <2>2, <2>4, <2>6 DEF Honest
    <2>8. p = q
      BY <1>4, <1>11 DEF q
    <2>9. QED
      BY <1>2, <2>4, <2>5, <2>7, <2>8
  <1>12. QED
    BY <1>10, <1>11

(* A call is announced, and what was said of it so far is told.            *)
LEMMA SpeaksFirst ==
    ASSUME NEW a, NEW c, Honest(a, c), NEW i \in ToolSlots, c.tools[i].at < 0, c.tools[i].here,
           NEW args, args = c.tools[i].args,
           NEW p, p = PushArgs(AddTool(c, i), i, args)
    PROVE  /\ Honest(a, p) /\ OnlyCall(p, c, i) /\ p.items = c.items /\ ~p.tools[i].done
           /\ p.tools[i].here /\ p.tools[i].at >= 0
  <1> DEFINE d == AddTool(c, i)
             t == c.tools[i]
             u == Announced(t, i, c.next)
             x == CallCell(u)
             y == Untold(u)
             e == Delta(u.at, u.item, args)
             some == [Cells(c) EXCEPT ![i] = y]
             all == [Cells(c) EXCEPT ![i] = x]
             n == c.next + 1
  <1>1. /\ c \in Conv /\ a \in AppState /\ Tidy(c) /\ t \in ToolItem /\ c.next \in Nat
    BY DEF Honest, Conv
  <1>2. /\ u \in ToolItem /\ u.at = c.next /\ u.here /\ u.args = args
        /\ NamedCall(u) /\ u.item = ItemId(u) /\ u.item \in CallIds
    BY <1>1, AnnouncedIs
  <1>3. /\ d \in Conv /\ OnlyCall(d, c, i) /\ d.tools[i] = u /\ ~u.done /\ d.items = c.items
        /\ d.next = n /\ Tidy(d) /\ Cells(d) = all
        /\ Shows(some, n, c.items, HasRead(a, d))
    <2> HIDE DEF u
    <2>1. QED
      BY AddToolTells DEF u
  <1>4. p = IF args = <<>> \/ IsCustom(u.name) THEN d ELSE Emit(d, e)
    BY <1>3 DEF PushArgs
  <1>5. i \in Keys /\ Cells(d) \in [Keys -> Cell] /\ Cells(c) \in [Keys -> Cell]
    BY <1>1, <1>3, CallChanges, CellsTyped
  <1> HIDE DEF d, u, n
  <1>6. /\ x.at = u.at /\ x.done = u.done /\ x.kind = "call" /\ x.id = u.item
        /\ x.shown = IF IsCustom(u.name) THEN <<>> ELSE args
        /\ y.at = u.at /\ y.done = u.done /\ y.kind = "call" /\ y.id = u.item
        /\ y.shown = <<>>
    BY <1>2 DEF CallCell, Untold
  <1>7. x \in Cell /\ args \in Tokens
    <2>1. Cells(d)[i] = x
      BY <1>3, <1>5
    <2>2. QED
      BY <1>1, <1>5, <2>1 DEF ToolItem
  <1> HIDE DEF x, y
  <1>8. some[i] = y /\ [some EXCEPT ![i] = x] = all
    BY <1>5, Zenon
  <1> HIDE DEF some, all
  <1>9. u.at >= 0
    BY <1>1, <1>2
  <1>10. CASE args = <<>> \/ IsCustom(u.name)
    <2>1. x.shown = y.shown
      BY <1>6, <1>10
    <2>2. Shows([some EXCEPT ![i] = x], n, c.items, HasRead(a, d))
      <3>1. /\ x.at = some[i].at /\ x.done = some[i].done /\ x.kind = some[i].kind
            /\ x.id = some[i].id /\ x.shown = some[i].shown
        BY <1>6, <1>8, <2>1
      <3>2. QED
        BY <1>3, <1>5, <1>7, <3>1, Unnoticed
    <2>3. Honest(a, d)
      BY <1>1, <1>3, <1>8, <2>2, Zenon DEF Honest
    <2>4. QED
      BY <1>2, <1>3, <1>4, <1>9, <1>10, <2>3
  <1>11. CASE ~(args = <<>> \/ IsCustom(u.name))
    <2>1. x.shown = y.shown \o args
      <3>1. <<>> \o args = args
        BY <1>7, Joining DEF Tokens
      <3>2. QED
        BY <1>6, <1>11, <3>1
    <2>2. Shows([some EXCEPT ![i] = x], n, c.items,
                Receive(HasRead(a, d), Delta(x.at, x.id, args)))
      <3>1. /\ x.at = some[i].at /\ x.done = some[i].done /\ x.kind = some[i].kind
            /\ x.id = some[i].id /\ x.shown = some[i].shown \o args /\ x.at >= 0
        BY <1>6, <1>8, <1>9, <2>1, Zenon
      <3>2. QED
        BY <1>3, <1>5, <1>7, <3>1, Grows, Zenon
    <2>3. e \in Event
      <3>1. u.at \in Int /\ u.item \in LiveIds
        BY <1>2 DEF ToolItem, LiveIds
      <3>2. QED
        BY <1>7, <3>1 DEF Delta, Event
    <2> DEFINE q == Emit(d, e)
    <2>4. q \in Conv /\ Tidy(q) /\ q.items = c.items /\ q.next = n
      BY <1>3, <2>3, EmitIs, EmitBeside
    <2>5. OnlyCall(q, c, i) /\ q.tools[i] = u
      BY <1>1, <1>3, <2>3, EmitCall
    <2>6. HasRead(a, q) = Receive(HasRead(a, d), Delta(x.at, x.id, args))
          /\ Cells(q) = Cells(d)
      BY <1>1, <1>3, <1>6, <2>3, EmitRead
    <2> HIDE DEF q
    <2>7. Honest(a, q)
      BY <1>1, <1>3, <1>8, <2>2, <2>4, <2>6, Zenon DEF Honest
    <2>8. p = q
      BY <1>4, <1>11 DEF q
    <2>9. QED
      BY <1>2, <1>3, <1>9, <2>4, <2>5, <2>7, <2>8
  <1>12. QED
    BY <1>10, <1>11

(* A change of one call after another.                                     *)
LEMMA OnlyCallTwice ==
    ASSUME NEW c \in Conv, NEW d, NEW p, NEW i \in ToolSlots, OnlyCall(d, c, i), OnlyCall(p, d, i)
    PROVE  OnlyCall(p, c, i)
  BY DEF OnlyCall, Beside

(* What a chunk says of a call is taken.                                   *)
LEMMA PushToolTells ==
    ASSUME NEW a, NEW c, Honest(a, c), NEW delta \in ToolDelta,
           Keeps(c.tools[delta.index], delta), ~c.tools[delta.index].done,
           NEW p, p = PushTool(c, delta)
    PROVE  /\ Honest(a, p) /\ OnlyCall(p, c, delta.index) /\ p.items = c.items
           /\ ~p.tools[delta.index].done
  <1> DEFINE i == delta.index
             t == c.tools[i]
             u == Spoken(t, delta)
             d == WithCall(c, i, u)
             w == CustomNames # {} /\ u.name = NoName
  <1>1. c \in Conv /\ i \in ToolSlots /\ t \in ToolItem
    BY DEF Honest, Conv, ToolDelta
  <1>2. /\ u \in ToolItem /\ u.here /\ u.at = t.at /\ u.done = t.done /\ u.at \in Int
    BY <1>1, SpokenIs, Zenon DEF ToolItem
  <1>3. p = IF u.at >= 0 THEN PushArgs(d, i, delta.args)
            ELSE IF (u.id /= NoId \/ u.name /= NoName) /\ ~w
                 THEN PushArgs(AddTool(d, i), i, u.args)
                 ELSE d
    BY DEF PushTool, Spoken, WithCall
  <1> HIDE DEF u, w
  <1>4. CASE u.at >= 0
    <2>1. p = PushArgs(WithCall(c, i, u), i, delta.args)
      BY <1>3, <1>4
    <2>2. QED
      BY <1>1, <1>2, <1>4, <2>1, SpeaksOn DEF u
  <1>5. CASE u.at < 0
    <2>1. /\ Honest(a, d) /\ OnlyCall(d, c, i) /\ d.items = c.items /\ d.tools[i] = u
      BY <1>1, <1>2, <1>5, SpeaksQuietly
    <2> HIDE DEF d, i
    <2>2. p = PushArgs(AddTool(d, i), i, u.args) \/ p = d
      BY <1>2, <1>3, <1>5
    <2>3. CASE p = d
      BY <1>2, <2>1, <2>3 DEF i
    <2>4. CASE p = PushArgs(AddTool(d, i), i, u.args)
      <3>1. /\ Honest(a, p) /\ OnlyCall(p, d, i) /\ p.items = d.items /\ ~p.tools[i].done
        BY <1>1, <1>2, <1>5, <2>1, <2>4, SpeaksFirst
      <3>2. OnlyCall(p, c, i)
        BY <1>1, <2>1, <3>1, OnlyCallTwice
      <3>3. QED
        BY <2>1, <3>1, <3>2 DEF i
    <2>5. QED
      BY <2>2, <2>3, <2>4
  <1>6. QED
    BY <1>2, <1>4, <1>5

(* A call is finished.                                                     *)
CallGiven(d, i) ==
    Emit([d EXCEPT !.tools[i].done = TRUE,
                   !.items = Append(@, [at |-> d.tools[i].at, item |-> CallItem(d.tools[i])])],
         Finished(d.tools[i].at, CallItem(d.tools[i])))

(* The app is given the call as it was collected.                          *)
LEMMA GivesCall ==
    ASSUME NEW a \in AppState, NEW d \in Conv, NEW i \in ToolSlots, Tidy(d),
           d.tools[i].at >= 0, ~d.tools[i].done,
           NEW cells, Shows(cells, d.next, d.items, HasRead(a, d)),
           cells \in [Keys -> Cell],
           \A key \in Keys : key # i => cells[key] = Cells(d)[key],
           cells[i].at = d.tools[i].at, cells[i].kind = "call", cells[i].id = d.tools[i].item,
           ~cells[i].done, cells[i].shown \in {<<>>, d.tools[i].args},
           NEW p, p = CallGiven(d, i)
    PROVE  /\ Honest(a, p) /\ OnlyCall(p, d, i) /\ p.tools[i].done
           /\ p.tools[i].here
           /\ p.items = Append(d.items, [at |-> d.tools[i].at, item |-> CallItem(d.tools[i])])
  <1> DEFINE t == d.tools[i]
             v == [t EXCEPT !.done = TRUE]
             item == CallItem(t)
             z == [at |-> t.at, item |-> item]
             its == Append(d.items, z)
             g == WithCall(d, i, v)
             f == [g EXCEPT !.items = its]
             e == Finished(t.at, item)
             x == CallCell(v)
  <1>1. t \in ToolItem /\ i \in Keys /\ d.items \in Seq(PlacedItem)
    BY CallChanges DEF Conv
  <1>2. /\ v \in ToolItem /\ v.at = t.at /\ v.done = TRUE /\ v.item = t.item /\ v.args = t.args
        /\ v.name = t.name /\ v.id = t.id /\ v.here = t.here
    BY <1>1, Zenon DEF ToolItem
  <1>3. NamedCall(t) /\ t.item = ItemId(t) /\ t.here
    BY DEF Tidy, NamedCall
  <1>4. NamedCall(v)
    <2>1. ItemId(v) = ItemId(t)
      BY <1>2 DEF ItemId
    <2> HIDE DEF v
    <2>2. QED
      BY <1>2, <1>3, <2>1 DEF NamedCall
  <1>5. /\ item \in AnswerItem /\ item.kind = "call" /\ item.id = t.item /\ item.text = t.args
    <2>1. ItemId(t) \in CallIds /\ t.args \in Tokens
          /\ t.name \in STRING \cup {NoName, UnknownTool}
      BY <1>1 DEF ItemId, CallIds, ToolItem
    <2>2. item = [kind |-> "call", id |-> ItemId(t), text |-> t.args, name |-> t.name]
      BY DEF CallItem
    <2> HIDE DEF item
    <2>3. item \in CallRecord
      BY <2>1, <2>2 DEF CallRecord
    <2>4. QED
      BY <1>3, <2>1, <2>2, <2>3 DEF AnswerItem
  <1>6. p = Emit(f, e)
    <2>1. [d EXCEPT !.tools[i].done = TRUE, !.items = Append(@, z)] = f
      BY <1>1 DEF Conv, WithCall
    <2>2. QED
      BY <2>1 DEF CallGiven
  <1> HIDE DEF item, v
  <1>7. z \in PlacedItem /\ its \in Seq(PlacedItem)
    <2>1. t.at \in Int
      BY <1>1 DEF ToolItem
    <2>2. z \in PlacedItem
      BY <1>5, <2>1 DEF PlacedItem
    <2> HIDE DEF z
    <2>3. QED
      BY <1>1, <2>2
  <1> HIDE DEF its
  <1>8. /\ g \in Conv /\ OnlyCall(g, d, i) /\ g.out = d.out /\ g.items = d.items
        /\ g.next = d.next /\ g.tools[i] = v /\ Cells(g) = [Cells(d) EXCEPT ![i] = x]
        /\ Cells(g) \in [Keys -> Cell] /\ Cells(d) \in [Keys -> Cell]
    BY <1>2, CallChanges, CellsTyped
  <1> HIDE DEF g
  <1>9. /\ f \in Conv /\ f.out = g.out /\ f.items = its /\ f.next = g.next
        /\ f.tools = g.tools /\ f.reasoning = g.reasoning /\ f.message = g.message
        /\ Beside(f, g)
    BY <1>7, <1>8, Zenon DEF Conv, Beside
  <1> HIDE DEF f
  <1>10. OnlyCall(f, d, i) /\ f.tools[i] = v
    BY <1>8, <1>9 DEF OnlyCall, Beside
  <1>11. Cells(f) = Cells(g) /\ HasRead(a, f) = HasRead(a, d)
    BY <1>8, <1>9 DEF Cells, HasRead
  <1>12. Tidy(f)
    BY <1>4, <1>9, <1>10, CallBeside
  <1>13. e \in Event
    BY <1>5, <1>7 DEF Finished, Event, PlacedItem
  <1>14. /\ p \in Conv /\ Tidy(p) /\ p.items = its /\ p.next = d.next
         /\ OnlyCall(p, d, i) /\ p.tools[i] = v
    <2>1. p \in Conv /\ Tidy(p) /\ p.items = f.items /\ p.next = f.next
      BY <1>6, <1>9, <1>12, <1>13, EmitIs, EmitBeside
    <2>2. OnlyCall(p, d, i) /\ p.tools[i] = f.tools[i]
      BY <1>6, <1>9, <1>10, <1>13, EmitCall
    <2>3. QED
      BY <1>8, <1>9, <1>10, <2>1, <2>2
  <1>15. HasRead(a, p) = Receive(HasRead(a, d), e) /\ Cells(p) = Cells(g)
    BY <1>6, <1>9, <1>11, <1>13, EmitRead
  <1>16. x \in Cell
    <2>1. Cells(g)[i] = x
      BY <1>1, <1>8
    <2>2. QED
      BY <1>1, <1>8, <2>1
  <1>17. x.at = t.at /\ x.done /\ x.kind = "call" /\ x.id = t.item
    BY <1>2 DEF CallCell
  <1>18. [cells EXCEPT ![i] = x] = Cells(g)
    <2> DEFINE some == [cells EXCEPT ![i] = x]
               all == Cells(g)
    <2>1. some[i] = x /\ all[i] = x
      BY <1>1, <1>8
    <2>2. \A key \in Keys : key # i => some[key] = all[key]
      BY <1>8
    <2>3. some = [key \in Keys |-> some[key]] /\ all = [key \in Keys |-> all[key]]
      BY <1>8, Zenon
    <2> HIDE DEF some, all
    <2>4. \A key \in Keys : some[key] = all[key]
      BY <2>1, <2>2
    <2>5. some = all
      BY <2>3, <2>4
    <2>6. QED
      BY <2>5 DEF some, all
  <1> HIDE DEF x, z
  <1>19. Shows([cells EXCEPT ![i] = x], d.next, Append(d.items, [at |-> x.at, item |-> item]),
               Receive(HasRead(a, d), Finished(x.at, item)))
    <2>1. /\ cells[i].at >= 0 /\ ~cells[i].done
          /\ item.kind = cells[i].kind /\ item.id = cells[i].id
          /\ item.text = cells[i].shown \/ (item.kind = "call" /\ cells[i].shown = <<>>)
          /\ x.at = cells[i].at /\ x.kind = cells[i].kind /\ x.id = cells[i].id
      BY <1>5, <1>17
    <2>2. QED
      BY <1>1, <1>5, <1>16, <1>17, <2>1, Finishes, Zenon
  <1>20. Shows(Cells(p), p.next, p.items, HasRead(a, p))
    BY <1>14, <1>15, <1>17, <1>18, <1>19, Zenon DEF its, z
  <1>21. Honest(a, p)
    BY <1>14, <1>20 DEF Honest
  <1>22. p.tools[i].done /\ p.tools[i].here
    BY <1>2, <1>3, <1>14, Zenon
  <1>23. QED
    BY <1>14, <1>21, <1>22 DEF its, z, item

(* A call that was begun is finished, and announced first if need be.      *)
LEMMA FinalizeToolTells ==
    ASSUME NEW a, NEW c, Honest(a, c), NEW i \in ToolSlots, NEW p, p = FinalizeTool(c, i)
    PROVE  /\ Honest(a, p) /\ OnlyCall(p, c, i) /\ (p.tools[i].at >= 0 => p.tools[i].done)
           /\ \/ p.items = c.items
              \/ \E y \in PlacedItem : y.item.kind = "call" /\ p.items = Append(c.items, y)
  <1> DEFINE t == c.tools[i]
             n == AddTool(c, i)
             u == Announced(t, i, c.next)
  <1>1. /\ c \in Conv /\ a \in AppState /\ Tidy(c) /\ t \in ToolItem /\ i \in Keys
        /\ Shows(Cells(c), c.next, c.items, HasRead(a, c))
        /\ Cells(c)[i] = CallCell(t) /\ Cells(c) \in [Keys -> Cell]
    <2>1. c \in Conv /\ c.tools[i] \in ToolItem
      BY DEF Honest, Conv
    <2>2. QED
      BY <2>1, CallChanges, CellsTyped DEF Honest
  <1>2. p = IF ~t.here \/ t.done THEN c
            ELSE CallGiven(IF t.at >= 0 THEN c ELSE n, i)
    BY DEF FinalizeTool, CallGiven
  <1>3. ASSUME NEW d \in Conv, OnlyCall(d, c, i), d.items = c.items, OnlyCall(p, d, i),
               d.tools[i] \in ToolItem,
               p.items = Append(d.items, [at |-> d.tools[i].at, item |-> CallItem(d.tools[i])]),
               Honest(a, p), p.tools[i].done
        PROVE  /\ Honest(a, p) /\ OnlyCall(p, c, i) /\ (p.tools[i].at >= 0 => p.tools[i].done)
               /\ \E y \in PlacedItem : y.item.kind = "call" /\ p.items = Append(c.items, y)
    <2> DEFINE v == d.tools[i]
               y == [at |-> v.at, item |-> CallItem(v)]
    <2>1. /\ CallItem(v) \in AnswerItem /\ v.at \in Int /\ CallItem(v).kind = "call"
      <3>1. ItemId(v) \in CallIds /\ v.args \in Tokens /\ v.at \in Int
            /\ v.name \in STRING \cup {NoName, UnknownTool}
        BY <1>3 DEF ItemId, CallIds, ToolItem
      <3>2. CallItem(v) = [kind |-> "call", id |-> ItemId(v), text |-> v.args,
                           name |-> v.name]
        BY DEF CallItem
      <3> HIDE DEF v
      <3>3. CallItem(v) \in CallRecord
        BY <3>1, <3>2 DEF CallRecord
      <3>4. QED
        BY <3>1, <3>2, <3>3 DEF AnswerItem
    <2>2. y \in PlacedItem /\ y.item.kind = "call" /\ p.items = Append(c.items, y)
      BY <1>3, <2>1 DEF PlacedItem
    <2>3. OnlyCall(p, c, i)
      BY <1>1, <1>3, OnlyCallTwice
    <2> HIDE DEF y
    <2>4. QED
      BY <1>3, <2>2, <2>3
  <1>4. CASE ~t.here \/ t.done
    <2>1. p = c
      BY <1>2, <1>4
    <2>2. NamedCall(t)
      BY <1>1 DEF Tidy
    <2>3. OnlyCall(c, c, i)
      BY DEF OnlyCall, Beside
    <2>4. QED
      BY <1>4, <2>1, <2>2, <2>3 DEF NamedCall
  <1>5. CASE t.here /\ ~t.done /\ t.at >= 0
    <2>1. p = CallGiven(c, i)
      BY <1>2, <1>5
    <2>2. /\ Cells(c)[i].at = t.at /\ Cells(c)[i].kind = "call" /\ Cells(c)[i].id = t.item
          /\ ~Cells(c)[i].done /\ Cells(c)[i].shown \in {<<>>, t.args}
      BY <1>1, <1>5 DEF CallCell
    <2>3. /\ Honest(a, p) /\ OnlyCall(p, c, i) /\ p.tools[i].done
          /\ p.items = Append(c.items, [at |-> t.at, item |-> CallItem(t)])
      BY <1>1, <1>5, <2>1, <2>2, GivesCall
    <2>4. OnlyCall(c, c, i)
      BY DEF OnlyCall, Beside
    <2>5. QED
      BY <1>1, <1>3, <2>3, <2>4
  <1>6. CASE t.here /\ ~t.done /\ t.at < 0
    <2> DEFINE some == [Cells(c) EXCEPT ![i] = Untold(u)]
    <2>1. p = CallGiven(n, i)
      <3>1. t.at \in Int
        BY <1>1 DEF ToolItem
      <3>2. QED
        BY <1>2, <1>6, <3>1
    <2>2. c.next \in Nat
      BY <1>1 DEF Conv
    <2>3. u.at = c.next /\ u \in ToolItem
      BY <1>1, <1>6, <2>2, AnnouncedIs
    <2>4. /\ n \in Conv /\ OnlyCall(n, c, i) /\ n.tools[i] = u /\ ~u.done /\ n.items = c.items
          /\ n.next = c.next + 1 /\ Tidy(n) /\ Cells(n) = [Cells(c) EXCEPT ![i] = CallCell(u)]
          /\ Shows(some, c.next + 1, c.items, HasRead(a, n))
      <3> HIDE DEF u
      <3>1. QED
        BY <1>6, AddToolTells DEF u
    <2> HIDE DEF n, u
    <2>5. some[i] = Untold(u) /\ \A key \in Keys : key # i => some[key] = Cells(n)[key]
      BY <1>1, <2>4
    <2>6. /\ some[i].at = u.at /\ some[i].kind = "call" /\ some[i].id = u.item
          /\ ~some[i].done /\ some[i].shown = <<>>
      BY <2>4, <2>5 DEF Untold, CallCell
    <2>7. some \in [Keys -> Cell]
      BY <2>4 DEF Shows
    <2>8. u.at >= 0
      BY <2>2, <2>3
    <2> HIDE DEF some
    <2>9. Shows(some, n.next, n.items, HasRead(a, n))
      BY <2>4
    <2>10. /\ Honest(a, p) /\ OnlyCall(p, n, i) /\ p.tools[i].done
           /\ p.items = Append(n.items, [at |-> n.tools[i].at, item |-> CallItem(n.tools[i])])
      <3>1. /\ n \in Conv /\ Tidy(n) /\ n.tools[i].at >= 0 /\ ~n.tools[i].done
            /\ some[i].at = n.tools[i].at /\ some[i].kind = "call"
            /\ some[i].id = n.tools[i].item
            /\ ~some[i].done /\ some[i].shown \in {<<>>, n.tools[i].args}
        BY <2>4, <2>6, <2>8
      <3>2. a \in AppState
        BY <1>1
      <3>3. QED
        BY <2>1, <2>5, <2>7, <2>9, <3>1, <3>2, GivesCall
    <2>11. QED
      BY <1>3, <2>3, <2>4, <2>10
  <1>7. QED
    BY <1>1, <1>4, <1>5, <1>6 DEF ToolItem

(* What ends an answer is left alone, and no call is finished.             *)
SameEnd(d, c) == d.completed = c.completed /\ d.failed = c.failed
Ongoing(c) == \A j \in ToolSlots : ~c.tools[j].done

(* What happens to a call changes no text.                                 *)
LEMMA CallTells ==
    ASSUME NEW a, NEW c, Honest(a, c), Heard(c), Undecided(c), NEW d, NEW i \in ToolSlots,
           Honest(a, d), OnlyCall(d, c, i),
           \/ d.items = c.items
           \/ \E y \in PlacedItem : y.item.kind = "call" /\ d.items = Append(c.items, y)
    PROVE  /\ Heard(d) /\ Undecided(d) /\ d.message = c.message /\ d.reasoning = c.reasoning
           /\ Telling(d) = Telling(c) /\ d.mode = c.mode /\ SameEnd(d, c)
           /\ d.buffer = c.buffer
  <1>1. c \in Conv /\ d \in Conv /\ c.items \in Seq(PlacedItem)
    BY DEF Honest, Conv
  <1>2. /\ d.message = c.message /\ d.reasoning = c.reasoning /\ d.mode = c.mode
        /\ d.buffer = c.buffer /\ SameEnd(d, c)
    BY DEF OnlyCall, Beside, SameEnd
  <1>3. Undecided(d) /\ Telling(d) = Telling(c)
    BY <1>2 DEF Undecided, Telling
  <1>4. \A kind \in TextKinds : d[kind] = c[kind]
    BY <1>1, CallBeside
  <1>5. ASSUME NEW kind \in TextKinds, NEW p \in 1..Len(d.items), d.items[p].item.kind = kind
        PROVE  Words(d.items[p].item.text) = Words(d[kind].text)
    <2>1. CASE d.items = c.items
      BY <1>4, <1>5, <2>1 DEF Heard, HeardOf
    <2>2. CASE d.items # c.items
      <3>1. PICK y \in PlacedItem : y.item.kind = "call" /\ d.items = Append(c.items, y)
        BY <2>2
      <3>2. \/ p \in 1..Len(c.items) /\ d.items[p] = c.items[p]
            \/ d.items[p] = y
        BY <1>1, <3>1
      <3>3. d.items[p] # y
        BY <1>5, <3>1 DEF TextKinds
      <3>4. QED
        BY <1>4, <1>5, <3>2, <3>3 DEF Heard, HeardOf
    <2>3. QED
      BY <2>1, <2>2
  <1>6. Heard(d)
    BY <1>5 DEF Heard, HeardOf
  <1>7. QED
    BY <1>2, <1>3, <1>6

(* The calls of a chunk are taken one after another.                       *)
PushingTools(N, deltas) ==
    [i \in 1..N |-> [x \in Conv |-> IF PushTool(x, deltas[i]) \in Conv
                                    THEN PushTool(x, deltas[i]) ELSE x]]
(* After n of them, those that were not spoken of are as they were.        *)
TakenTools(a, c, deltas, n, d) ==
    /\ Telltale(a, d) /\ SameEnd(d, c) /\ Telling(d) = Telling(c) /\ Ongoing(d)
    /\ \A j \in ToolSlots : (\A k \in 1..n : deltas[k].index # j) => d.tools[j] = c.tools[j]
Apart(deltas) ==
    \A j, k \in DOMAIN deltas : deltas[j].index = deltas[k].index => j = k

(* After one call more of a chunk the others are as they were.             *)
LEMMA TakesOneTool ==
    ASSUME NEW a, NEW c, c \in Conv, Ongoing(c), NEW deltas \in Seq(ToolDelta), Apart(deltas),
           \A k \in DOMAIN deltas : Keeps(c.tools[deltas[k].index], deltas[k]),
           NEW n \in Nat, n + 1 <= Len(deltas), NEW d, TakenTools(a, c, deltas, n, d),
           NEW p, p = PushTool(d, deltas[n + 1])
    PROVE  TakenTools(a, c, deltas, n + 1, p)
  <1> DEFINE delta == deltas[n + 1]
             i == delta.index
  <1>1. /\ n + 1 \in DOMAIN deltas /\ delta \in ToolDelta /\ i \in ToolSlots
        /\ \A k \in 1..n : k \in DOMAIN deltas /\ k # n + 1 /\ k \in 1..(n + 1)
        /\ n + 1 \in 1..(n + 1)
    <2>1. Len(deltas) \in Nat /\ DOMAIN deltas = 1..Len(deltas)
      OBVIOUS
    <2>2. n + 1 \in DOMAIN deltas /\ n + 1 \in 1..(n + 1)
      BY <2>1
    <2>3. \A k \in 1..n : k \in DOMAIN deltas /\ k # n + 1 /\ k \in 1..(n + 1)
      BY <2>1
    <2>4. delta \in ToolDelta
      BY <2>2
    <2>5. QED
      BY <2>2, <2>3, <2>4 DEF ToolDelta
  <1>2. \A k \in 1..n : deltas[k].index # i
    BY <1>1 DEF Apart
  <1>3. d.tools[i] = c.tools[i] /\ ~d.tools[i].done
    BY <1>1, <1>2 DEF TakenTools, Ongoing
  <1>4. Honest(a, d) /\ Heard(d) /\ Undecided(d) /\ ~d.message.done
    BY DEF TakenTools, Telltale
  <1>5. /\ Honest(a, p) /\ OnlyCall(p, d, i) /\ p.items = d.items /\ ~p.tools[i].done
    <2>1. Keeps(d.tools[i], delta)
      BY <1>1, <1>3
    <2> HIDE DEF delta
    <2>2. QED
      BY <1>1, <1>3, <1>4, <2>1, PushToolTells DEF delta
  <1>6. /\ Heard(p) /\ Undecided(p) /\ p.message = d.message
        /\ Telling(p) = Telling(d) /\ SameEnd(p, d)
    BY <1>1, <1>4, <1>5, CallTells
  <1>7. Telltale(a, p)
    BY <1>4, <1>5, <1>6 DEF Telltale
  <1>8. SameEnd(p, c) /\ Telling(p) = Telling(c)
    BY <1>6 DEF SameEnd, TakenTools
  <1>9. \A j \in ToolSlots : j # i => p.tools[j] = d.tools[j]
    BY <1>5 DEF OnlyCall
  <1>10. Ongoing(p)
    BY <1>5, <1>9 DEF Ongoing, TakenTools
  <1>11. ASSUME NEW j \in ToolSlots, \A k \in 1..(n + 1) : deltas[k].index # j
         PROVE  p.tools[j] = c.tools[j]
    <2>1. j # i
      BY <1>1, <1>11
    <2>2. \A k \in 1..n : deltas[k].index # j
      BY <1>1, <1>11
    <2>3. QED
      BY <1>9, <2>1, <2>2 DEF TakenTools
  <1>12. QED
    BY <1>7, <1>8, <1>10, <1>11 DEF TakenTools

(* The steps of taking them.                                               *)
LEMMA TakeToolsUnfolds ==
    ASSUME NEW a, NEW c, c \in Conv, Ongoing(c), NEW deltas \in Seq(ToolDelta), Apart(deltas),
           \A k \in DOMAIN deltas : Keeps(c.tools[deltas[k].index], deltas[k]),
           NEW start, start = FinalizeItem(FlushThink(c), "reasoning"),
           TakenTools(a, c, deltas, 0, start)
    PROVE  TakenTools(a, c, deltas, Len(deltas), TakeTools(c, deltas))
  <1> DEFINE N == Len(deltas)
             step == PushingTools(N, deltas)
  <1>1. N \in Nat
    OBVIOUS
  <1>2. \A n \in Nat : \A d : TakenTools(a, c, deltas, n, d) => d \in Conv
    BY DEF TakenTools, Telltale, Honest
  <1>3. start \in Conv
    BY <1>2
  <1>4. step \in [1..N -> [Conv -> Conv]]
    BY DEF PushingTools
  <1>5. \A i \in 1..N : \A x \in Conv :
           PushTool(x, deltas[i]) \in Conv => step[i][x] = PushTool(x, deltas[i])
    BY DEF PushingTools
  <1> HIDE DEF step
  <1>6. PICK f : Recurs(f, N, Conv, start, step)
    BY <1>1, <1>3, <1>4, Recursion
  <1>7. ASSUME NEW n \in Nat, n + 1 <= N, TakenTools(a, c, deltas, n, f[n])
        PROVE  /\ f[n + 1] = PushTool(f[n], deltas[n + 1])
               /\ TakenTools(a, c, deltas, n + 1, f[n + 1])
    <2> DEFINE m == n + 1
               d == f[n]
               p == PushTool(d, deltas[m])
    <2>1. m \in 1..N /\ m - 1 = n /\ m \in Nat
      BY <1>1, <1>7
    <2>2. TakenTools(a, c, deltas, m, p)
      BY <1>7, TakesOneTool
    <2>3. p \in Conv /\ d \in Conv
      BY <1>2, <1>7, <2>1, <2>2
    <2> HIDE DEF m
    <2>4. f[m] = step[m][d]
      BY <1>6, <2>1 DEF Recurs
    <2>5. step[m][d] = p
      BY <1>5, <2>1, <2>3
    <2>6. QED
      BY <2>2, <2>4, <2>5 DEF m
  <1>8. \A n \in 0..N : TakenTools(a, c, deltas, n, f[n])
    <2> DEFINE S == {n \in Nat : n <= N => TakenTools(a, c, deltas, n, f[n])}
    <2>1. 0 \in S
      BY <1>6 DEF Recurs
    <2>2. ASSUME NEW n \in Nat, n \in S PROVE n + 1 \in S
      <3>1. n + 1 <= N => n <= N
        BY <1>1
      <3>2. QED
        BY <1>7, <2>2, <3>1
    <2> HIDE DEF S
    <2>3. \A n \in Nat : n \in S
      BY <2>1, <2>2, Induction
    <2>4. QED
      BY <2>3, <1>1 DEF S
  <1>9. \A i \in 1..N : f[i] = PushTool(f[i - 1], deltas[i])
    <2> SUFFICES ASSUME NEW i \in 1..N PROVE f[i] = PushTool(f[i - 1], deltas[i])
      OBVIOUS
    <2> DEFINE n == i - 1
    <2>1. n \in Nat /\ n \in 0..N /\ n + 1 = i /\ n + 1 <= N
      BY <1>1
    <2> HIDE DEF n
    <2>2. TakenTools(a, c, deltas, n, f[n])
      BY <1>8, <2>1
    <2>3. f[n + 1] = PushTool(f[n], deltas[n + 1])
      BY <1>7, <2>1, <2>2
    <2>4. QED
      BY <2>1, <2>3 DEF n
  <1>10. f = [n \in 0..N |-> IF n = 0 THEN start ELSE PushTool(f[n - 1], deltas[n])]
    <2>1. \A n \in 0..N : n = 0 \/ n \in 1..N
      BY <1>1
    <2>2. \A n \in 0..N : f[n] = IF n = 0 THEN start ELSE PushTool(f[n - 1], deltas[n])
      BY <1>6, <1>9, <2>1 DEF Recurs
    <2>3. QED
      BY <1>6, <2>2 DEF Recurs
  <1> DEFINE u[n \in 0..N] == IF n = 0 THEN start ELSE PushTool(u[n - 1], deltas[n])
  <1>11. u = [n \in 0..N |-> IF n = 0 THEN start ELSE PushTool(u[n - 1], deltas[n])]
    BY <1>10, Zenon
  <1>12. TakeTools(c, deltas) = u[N]
    BY DEF TakeTools
  <1> HIDE DEF u
  <1>13. \A n \in 0..N : u[n] = IF n = 0 THEN start ELSE PushTool(u[n - 1], deltas[n])
    BY <1>11
  <1>14. \A n \in 0..N : u[n] = f[n]
    <2> DEFINE S == {n \in Nat : n <= N => u[n] = f[n]}
    <2>1. 0 \in S
      <3>1. 0 \in 0..N
        BY <1>1
      <3>2. QED
        BY <1>6, <1>13, <3>1 DEF Recurs
    <2>2. ASSUME NEW n \in Nat, n \in S PROVE n + 1 \in S
      <3> DEFINE m == n + 1
      <3>1. m <= N => m \in 1..N /\ m \in 0..N /\ m # 0 /\ m - 1 = n /\ n <= N
        BY <1>1
      <3>2. m \in Nat
        OBVIOUS
      <3> HIDE DEF m
      <3>3. m <= N => u[m] = PushTool(u[n], deltas[m]) /\ f[m] = PushTool(f[n], deltas[m])
        BY <1>9, <1>13, <3>1
      <3>4. QED
        BY <2>2, <3>1, <3>2, <3>3 DEF m
    <2> HIDE DEF S
    <2>3. \A n \in Nat : n \in S
      BY <2>1, <2>2, Induction
    <2>4. QED
      BY <2>3, <1>1 DEF S
  <1>15. N \in 0..N
    BY <1>1
  <1>16. u[N] = f[N] /\ TakenTools(a, c, deltas, N, f[N])
    BY <1>8, <1>14, <1>15
  <1>17. QED
    BY <1>12, <1>16

(* The calls of a chunk are taken.                                         *)
LEMMA TakeToolsTells ==
    ASSUME NEW a, NEW c, Telltale(a, c), Ongoing(c), NEW deltas \in Seq(ToolDelta),
           Apart(deltas),
           \A k \in DOMAIN deltas : Keeps(c.tools[deltas[k].index], deltas[k]),
           NEW p, p = TakeTools(c, deltas)
    PROVE  Telltale(a, p) /\ SameEnd(p, c) /\ Telling(p) = Telling(c) /\ Ongoing(p)
  <1> DEFINE d == FlushThink(c)
             start == FinalizeItem(d, "reasoning")
  <1>1. c \in Conv
    BY DEF Telltale, Honest
  <1>2. /\ Telltale(a, d) /\ AsBefore(d, c) /\ d.mode = "text" /\ Telling(d) = Telling(c)
    BY FlushThinkTells
  <1> HIDE DEF d
  <1>3. /\ Telltale(a, start) /\ AsBefore(start, d) /\ Telling(start) = Telling(d)
    BY <1>2, CloseReasons
  <1> HIDE DEF start
  <1>4. start.tools = c.tools /\ SameEnd(start, c) /\ Telling(start) = Telling(c)
    BY <1>2, <1>3 DEF AsBefore, SameEnd
  <1>5. TakenTools(a, c, deltas, 0, start)
    BY <1>3, <1>4 DEF TakenTools, Ongoing
  <1>6. TakenTools(a, c, deltas, Len(deltas), TakeTools(c, deltas))
    BY <1>1, <1>5, TakeToolsUnfolds DEF start, d
  <1>7. QED
    BY <1>6 DEF TakenTools

(* A chunk is taken: the words of its content are told, or held back.      *)
Takeable(c, chunk) ==
    /\ chunk.reasoning \in Tokens /\ Words(chunk.reasoning) = <<>>
    /\ chunk.content \in Tokens /\ chunk.finish \in STRING
    /\ chunk.tools \in Seq(ToolDelta) /\ Apart(chunk.tools)
    /\ \A k \in DOMAIN chunk.tools : Keeps(c.tools[chunk.tools[k].index], chunk.tools[k])

(* A chunk adds its words to those that are told, and finishes no call.    *)
LEMMA TakeChunkTells ==
    ASSUME NEW a, NEW c, Telltale(a, c), Ongoing(c), NEW chunk, Takeable(c, chunk),
           NEW p, p = TakeChunk(c, chunk)
    PROVE  /\ Telltale(a, p) /\ SameEnd(p, c) /\ Ongoing(p)
           /\ Telling(p) = Telling(c) \o Words(chunk.content)
  <1> DEFINE s == EnsureStarted(c)
             r == PushSome(s, "reasoning", chunk.reasoning)
             t == IF chunk.content = <<>> THEN r ELSE PushContent(r, chunk.content)
             u == IF chunk.called THEN TakeTools(t, chunk.tools) ELSE t
             v == [u EXCEPT !.finish = chunk.finish]
             w == Words(chunk.content)
  <1>1. p = IF chunk.finish = "none" THEN u ELSE v
    BY DEF TakeChunk
  <1>2. chunk.content \in Tokens /\ chunk.reasoning \in Tokens /\ Words(chunk.reasoning) = <<>>
        /\ chunk.finish \in STRING /\ chunk.tools \in Seq(ToolDelta) /\ Apart(chunk.tools)
    BY DEF Takeable
  <1>3. Telltale(a, s) /\ AsBefore(s, c) /\ Telling(s) = Telling(c)
    BY EnsureStartedTells
  <1> HIDE DEF s
  <1>4. Telltale(a, r) /\ AsBefore(r, s) /\ Telling(r) = Telling(s)
    <2>1. CASE chunk.reasoning = <<>>
      BY <1>3, <2>1 DEF PushSome, AsBefore
    <2>2. CASE chunk.reasoning # <<>>
      <3>1. r = PushDelta(s, "reasoning", chunk.reasoning)
        BY <2>2 DEF PushSome
      <3>2. QED
        BY <1>2, <1>3, <3>1, PushReasons
    <2>3. QED
      BY <2>1, <2>2
  <1> HIDE DEF r
  <1>5. Telltale(a, t) /\ AsBefore(t, r) /\ Telling(t) = Telling(r) \o w
    <2>1. CASE chunk.content = <<>>
      <3>1. w = <<>>
        <4>1. chunk.content \in Tokens /\ \A n \in DOMAIN chunk.content :
                                              chunk.content[n] \notin Vocabulary
          BY <1>2, <2>1
        <4>2. QED
          BY <4>1, WordsNone
      <3>2. Telling(r) \in Seq(STRING)
        <4> DEFINE T == STRING
                   x == Words(r.reasoning.text)
                   y == Words(r.message.text)
                   z == Words(r.buffer)
        <4>1. r \in Conv
          BY <1>4 DEF Telltale, Honest
        <4>2. x \in Seq(T) /\ y \in Seq(T) /\ z \in Seq(T)
          BY <4>1, TellsText
        <4>3. Telling(r) = x \o (y \o z)
          BY DEF Telling
        <4> HIDE DEF x, y, z, T
        <4>4. y \o z \in Seq(T)
          BY <4>2, Joining
        <4>5. x \o (y \o z) \in Seq(T)
          BY <4>2, <4>4, Joining
        <4>6. QED
          BY <4>3, <4>5 DEF T
      <3>3. Telling(r) \o <<>> = Telling(r)
        BY <3>2, Joining
      <3>4. QED
        BY <1>4, <2>1, <3>1, <3>3, Zenon DEF AsBefore
    <2>2. CASE chunk.content # <<>>
      BY <1>2, <1>4, <2>2, PushContentTells, Zenon
    <2>3. QED
      BY <2>1, <2>2
  <1> HIDE DEF t
  <1>6. t.tools = c.tools /\ SameEnd(t, c) /\ Telling(t) = Telling(c) \o w
    BY <1>3, <1>4, <1>5 DEF AsBefore, SameEnd
  <1>7. Telltale(a, u) /\ SameEnd(u, t) /\ Telling(u) = Telling(t) /\ Ongoing(u)
    <2>1. Ongoing(t) /\ \A k \in DOMAIN chunk.tools :
                           Keeps(t.tools[chunk.tools[k].index], chunk.tools[k])
      BY <1>6 DEF Ongoing, Takeable
    <2>2. CASE chunk.called
      BY <1>2, <1>5, <2>1, <2>2, TakeToolsTells, Zenon
    <2>3. CASE ~chunk.called
      BY <1>5, <2>1, <2>3 DEF SameEnd
    <2>4. QED
      BY <2>2, <2>3
  <1> HIDE DEF u, w
  <1>8. /\ v \in Conv /\ v.reasoning = u.reasoning /\ v.message = u.message /\ v.tools = u.tools
        /\ v.items = u.items /\ v.next = u.next /\ v.out = u.out /\ v.mode = u.mode
        /\ v.buffer = u.buffer /\ v.completed = u.completed /\ v.failed = u.failed
    <2>1. u \in Conv
      BY <1>7 DEF Telltale, Honest
    <2>2. QED
      BY <1>2, <2>1, Zenon DEF Conv
  <1> HIDE DEF v
  <1>9. Telltale(a, v) /\ SameEnd(v, u) /\ Telling(v) = Telling(u) /\ Ongoing(v)
    <2>1. Honest(a, v) /\ Heard(v)
      BY <1>7, <1>8, Quietly DEF Telltale
    <2>2. QED
      BY <1>7, <1>8, <2>1, Zenon DEF Telltale, Undecided, SameEnd, Telling, Ongoing
  <1>10. QED
    BY <1>1, <1>6, <1>7, <1>9 DEF SameEnd, w

(* The calls are finished one after another.                               *)
ClosingTools ==
    [i \in 1..Slots |-> [x \in Conv |-> IF FinalizeTool(x, i - 1) \in Conv
                                        THEN FinalizeTool(x, i - 1) ELSE x]]
(* After n of them.                                                        *)
ClosedTools(a, c, n, d) ==
    /\ Honest(a, d) /\ Heard(d) /\ Undecided(d) /\ SameEnd(d, c)
    /\ d.message = c.message /\ d.reasoning = c.reasoning
    /\ d.buffer = c.buffer /\ d.mode = c.mode
    /\ \A j \in ToolSlots : j < n /\ d.tools[j].at >= 0 => d.tools[j].done

(* One call more is finished, with those before it.                        *)
LEMMA ClosesOneTool ==
    ASSUME NEW a, NEW c, NEW n \in Nat, n + 1 <= Slots, NEW d, ClosedTools(a, c, n, d),
           NEW p, p = FinalizeTool(d, n)
    PROVE  ClosedTools(a, c, n + 1, p)
  <1>1. n \in ToolSlots /\ \A j \in ToolSlots : j < n + 1 => j < n \/ j = n
    BY StreamAssumption DEF ToolSlots
  <1>2. Honest(a, d) /\ Heard(d) /\ Undecided(d)
    BY DEF ClosedTools
  <1>3. /\ Honest(a, p) /\ OnlyCall(p, d, n) /\ (p.tools[n].at >= 0 => p.tools[n].done)
        /\ \/ p.items = d.items
           \/ \E y \in PlacedItem : y.item.kind = "call" /\ p.items = Append(d.items, y)
    BY <1>1, <1>2, FinalizeToolTells
  <1>4. /\ Heard(p) /\ Undecided(p) /\ p.message = d.message /\ p.reasoning = d.reasoning
        /\ p.mode = d.mode /\ SameEnd(p, d) /\ p.buffer = d.buffer
    BY <1>1, <1>2, <1>3, CallTells
  <1>5. \A j \in ToolSlots : j # n => p.tools[j] = d.tools[j]
    BY <1>3 DEF OnlyCall
  <1>6. \A j \in ToolSlots : j < n + 1 /\ p.tools[j].at >= 0 => p.tools[j].done
    BY <1>1, <1>3, <1>5 DEF ClosedTools
  <1>7. QED
    BY <1>3, <1>4, <1>6 DEF ClosedTools, SameEnd

(* Afterwards every call that was announced is finished.                   *)
LEMMA FinalizeToolsTells ==
    ASSUME NEW a, NEW c, Honest(a, c), Heard(c), Undecided(c), NEW p, p = FinalizeTools(c)
    PROVE  /\ Honest(a, p) /\ Heard(p) /\ Undecided(p) /\ SameEnd(p, c)
           /\ p.message = c.message /\ p.reasoning = c.reasoning
           /\ p.buffer = c.buffer /\ p.mode = c.mode
           /\ \A j \in ToolSlots : p.tools[j].at >= 0 => p.tools[j].done
  <1> DEFINE N == Slots
             step == ClosingTools
  <1>1. N \in Nat
    BY StreamAssumption
  <1>2. \A n \in Nat : \A d : ClosedTools(a, c, n, d) => d \in Conv
    BY DEF ClosedTools, Honest
  <1>3. c \in Conv /\ ClosedTools(a, c, 0, c)
    <2>1. \A j \in ToolSlots : ~(j < 0)
      BY StreamAssumption DEF ToolSlots
    <2>2. QED
      BY <2>1 DEF ClosedTools, SameEnd, Honest
  <1>4. step \in [1..N -> [Conv -> Conv]]
    BY DEF ClosingTools
  <1>5. \A i \in 1..N : \A x \in Conv :
           FinalizeTool(x, i - 1) \in Conv => step[i][x] = FinalizeTool(x, i - 1)
    BY DEF ClosingTools
  <1> HIDE DEF step, N
  <1>6. PICK f : Recurs(f, N, Conv, c, step)
    BY <1>1, <1>3, <1>4, Recursion
  <1>7. ASSUME NEW n \in Nat, n + 1 <= N, ClosedTools(a, c, n, f[n])
        PROVE  /\ f[n + 1] = FinalizeTool(f[n], n)
               /\ ClosedTools(a, c, n + 1, f[n + 1])
    <2> DEFINE m == n + 1
               d == f[n]
               p1 == FinalizeTool(d, n)
    <2>1. m \in 1..N /\ m - 1 = n /\ m \in Nat
      BY <1>1, <1>7
    <2>2. ClosedTools(a, c, m, p1)
      BY <1>7, ClosesOneTool DEF N
    <2>3. p1 \in Conv /\ d \in Conv
      BY <1>2, <1>7, <2>1, <2>2
    <2> HIDE DEF m
    <2>4. f[m] = step[m][d]
      BY <1>6, <2>1 DEF Recurs
    <2>5. step[m][d] = p1
      BY <1>5, <2>1, <2>3
    <2>6. QED
      BY <2>2, <2>4, <2>5 DEF m
  <1>8. \A n \in 0..N : ClosedTools(a, c, n, f[n])
    <2> DEFINE S == {n \in Nat : n <= N => ClosedTools(a, c, n, f[n])}
    <2>1. 0 \in S
      BY <1>3, <1>6 DEF Recurs
    <2>2. ASSUME NEW n \in Nat, n \in S PROVE n + 1 \in S
      <3>1. n + 1 <= N => n <= N
        BY <1>1
      <3>2. QED
        BY <1>7, <2>2, <3>1
    <2> HIDE DEF S
    <2>3. \A n \in Nat : n \in S
      BY <2>1, <2>2, Induction
    <2>4. QED
      BY <2>3, <1>1 DEF S
  <1>9. \A i \in 1..N : f[i] = FinalizeTool(f[i - 1], i - 1)
    <2> SUFFICES ASSUME NEW i \in 1..N PROVE f[i] = FinalizeTool(f[i - 1], i - 1)
      OBVIOUS
    <2> DEFINE n == i - 1
    <2>1. n \in Nat /\ n \in 0..N /\ n + 1 = i /\ n + 1 <= N
      BY <1>1
    <2> HIDE DEF n
    <2>2. ClosedTools(a, c, n, f[n])
      BY <1>8, <2>1
    <2>3. f[n + 1] = FinalizeTool(f[n], n)
      BY <1>7, <2>1, <2>2
    <2>4. QED
      BY <2>1, <2>3 DEF n
  <1>10. f = [n \in 0..N |-> IF n = 0 THEN c ELSE FinalizeTool(f[n - 1], n - 1)]
    <2>1. \A n \in 0..N : n = 0 \/ n \in 1..N
      BY <1>1
    <2>2. \A n \in 0..N : f[n] = IF n = 0 THEN c ELSE FinalizeTool(f[n - 1], n - 1)
      BY <1>6, <1>9, <2>1 DEF Recurs
    <2>3. QED
      BY <1>6, <2>2 DEF Recurs
  <1> DEFINE u[n \in 0..N] == IF n = 0 THEN c ELSE FinalizeTool(u[n - 1], n - 1)
  <1>11. u = [n \in 0..N |-> IF n = 0 THEN c ELSE FinalizeTool(u[n - 1], n - 1)]
    BY <1>10, Zenon
  <1>12. p = u[N]
    BY DEF FinalizeTools, N
  <1> HIDE DEF u
  <1>13. \A n \in 0..N : u[n] = IF n = 0 THEN c ELSE FinalizeTool(u[n - 1], n - 1)
    BY <1>11, Zenon
  <1>14. \A n \in 0..N : u[n] = f[n]
    <2> DEFINE S == {n \in Nat : n <= N => u[n] = f[n]}
    <2>1. 0 \in S
      <3>1. 0 \in 0..N
        BY <1>1
      <3>2. QED
        BY <1>6, <1>13, <3>1 DEF Recurs
    <2>2. ASSUME NEW n \in Nat, n \in S PROVE n + 1 \in S
      <3> DEFINE m == n + 1
      <3>1. m <= N => m \in 1..N /\ m \in 0..N /\ m # 0 /\ m - 1 = n /\ n <= N
        BY <1>1
      <3>2. m \in Nat
        OBVIOUS
      <3> HIDE DEF m
      <3>3. m <= N => u[m] = FinalizeTool(u[n], n) /\ f[m] = FinalizeTool(f[n], n)
        BY <1>9, <1>13, <3>1
      <3>4. QED
        BY <2>2, <3>1, <3>2, <3>3 DEF m
    <2> HIDE DEF S
    <2>3. \A n \in Nat : n \in S
      BY <2>1, <2>2, Induction
    <2>4. QED
      BY <2>3, <1>1 DEF S
  <1>15. N \in 0..N
    BY <1>1
  <1>16. ClosedTools(a, c, N, p)
    BY <1>8, <1>12, <1>14, <1>15
  <1>17. \A j \in ToolSlots : j < N
    BY StreamAssumption DEF ToolSlots, N
  <1>18. QED
    BY <1>16, <1>17 DEF ClosedTools

(* The finished item at a place.                                           *)
HasItem(c, n) == \E x \in ToSet(c.items) : x.at = n - 1
ItemThere(c, n) == (CHOOSE x \in ToSet(c.items) : x.at = n - 1).item
Placing(c) ==
    [n \in 1..c.next |-> [s \in Seq(AnswerItem) |->
        IF HasItem(c, n) THEN Append(s, ItemThere(c, n)) ELSE s]]

(* What is finished is found there.                                        *)
LEMMA ItemThereIs ==
    ASSUME NEW c, c.items \in Seq(PlacedItem), NEW n \in Nat, HasItem(c, n)
    PROVE  /\ ItemThere(c, n) \in AnswerItem
           /\ \E p \in 1..Len(c.items) : c.items[p].at = n - 1 /\ c.items[p].item = ItemThere(c, n)
  <1> DEFINE x == CHOOSE x \in ToSet(c.items) : x.at = n - 1
  <1>1. x \in ToSet(c.items) /\ x.at = n - 1 /\ ItemThere(c, n) = x.item
    BY DEF HasItem, ItemThere
  <1> HIDE DEF x
  <1>2. PICK p \in 1..Len(c.items) : x = c.items[p]
    BY <1>1 DEF ToSet
  <1>3. c.items[p] \in PlacedItem
    OBVIOUS
  <1>4. QED
    BY <1>1, <1>2, <1>3 DEF PlacedItem

(* The items of the answer are those that are finished, in their places,   *)
(* and all of them when each is.                                           *)
LEMMA OutputItemsAre ==
    ASSUME NEW c, c.items \in Seq(PlacedItem), c.next \in Nat
    PROVE  /\ OutputItems(c) \in Seq(AnswerItem)
           /\ (\A n \in 1..c.next : HasItem(c, n)) =>
                 /\ Len(OutputItems(c)) = c.next
                 /\ \A n \in 1..c.next : OutputItems(c)[n] = ItemThere(c, n)
  <1> DEFINE N == c.next
             V == Seq(AnswerItem)
             start == <<>>
             step == Placing(c)
             Onto(s, n) == IF HasItem(c, n) THEN Append(s, ItemThere(c, n)) ELSE s
  <1>1. N \in Nat /\ start \in V
    OBVIOUS
  <1>2. \A n \in 1..N : HasItem(c, n) => ItemThere(c, n) \in AnswerItem
    <2>1. \A n \in 1..N : n \in Nat
      BY <1>1
    <2>2. QED
      BY <2>1, ItemThereIs
  <1>3. \A n \in 1..N : \A s \in V : Onto(s, n) \in V
    BY <1>2
  <1>4. step \in [1..N -> [V -> V]] /\ \A n \in 1..N : \A s \in V : step[n][s] = Onto(s, n)
    BY <1>3 DEF Placing
  <1> HIDE DEF step, start, V
  <1>5. PICK f : Recurs(f, N, V, start, step)
    BY <1>1, <1>4, Recursion, Zenon
  <1>6. \A n \in 1..N : n - 1 \in 0..N /\ n \in 0..N /\ n # 0
    BY <1>1
  <1>7. \A n \in 1..N : f[n] = Onto(f[n - 1], n) /\ f[n] \in V
    BY <1>4, <1>5, <1>6, Zenon DEF Recurs
  <1>8. f = [n \in 0..N |-> IF n = 0 THEN start ELSE Onto(f[n - 1], n)]
    <2>1. \A n \in 0..N : n = 0 \/ n \in 1..N
      BY <1>1
    <2>2. \A n \in 0..N : f[n] = IF n = 0 THEN start ELSE Onto(f[n - 1], n)
      BY <1>5, <1>7, <2>1 DEF Recurs
    <2> HIDE DEF Onto
    <2>3. QED
      BY <1>5, <2>2 DEF Recurs
  <1> DEFINE u[n \in 0..N] ==
               IF n = 0 THEN start
               ELSE IF HasItem(c, n) THEN Append(u[n - 1], ItemThere(c, n)) ELSE u[n - 1]
  <1>9. u = [n \in 0..N |-> IF n = 0 THEN start
                            ELSE IF HasItem(c, n) THEN Append(u[n - 1], ItemThere(c, n))
                                 ELSE u[n - 1]]
    BY <1>8, Zenon
  <1>10. OutputItems(c) = u[N]
    BY DEF OutputItems, HasItem, ItemThere, start
  <1> HIDE DEF u
  <1>11. \A n \in 0..N : u[n] = IF n = 0 THEN start ELSE Onto(u[n - 1], n)
    BY <1>9, Zenon
  <1> HIDE DEF N
  <1> DEFINE S == {n \in Nat : n <= N =>
                     /\ u[n] \in V
                     /\ (\A k \in 1..N : HasItem(c, k)) =>
                           Len(u[n]) = n /\ \A k \in 1..n : u[n][k] = ItemThere(c, k)}
  <1>12. 0 \in S
    <2>1. 0 \in 0..N
      BY <1>1
    <2>2. u[0] = start
      BY <1>11, <2>1
    <2>3. Len(start) = 0 /\ \A k \in 1..0 : FALSE
      BY DEF start
    <2>4. QED
      BY <1>1, <2>2, <2>3
  <1>13. ASSUME NEW n \in Nat, n \in S PROVE n + 1 \in S
    <2> DEFINE m == n + 1
    <2>1. m \in Nat /\ (m <= N => m \in 1..N /\ m \in 0..N /\ m # 0 /\ m - 1 = n /\ n <= N)
      BY <1>1
    <2> SUFFICES ASSUME m <= N
                 PROVE  /\ u[m] \in V
                        /\ (\A k \in 1..N : HasItem(c, k)) =>
                              Len(u[m]) = m /\ \A k \in 1..m : u[m][k] = ItemThere(c, k)
      BY <2>1
    <2>2. u[m] = Onto(u[n], m) /\ u[n] \in V
      BY <1>11, <1>13, <2>1
    <2>3. u[m] \in V
      BY <1>3, <2>1, <2>2 DEF N
    <2>4. ASSUME \A k \in 1..N : HasItem(c, k)
          PROVE  Len(u[m]) = m /\ \A k \in 1..m : u[m][k] = ItemThere(c, k)
      <3> DEFINE y == ItemThere(c, m)
                 s == u[n]
      <3>1. u[m] = Append(s, y)
        BY <2>1, <2>2, <2>4
      <3>2. Len(s) = n /\ \A k \in 1..n : s[k] = ItemThere(c, k)
        BY <1>13, <2>1, <2>4
      <3>3. s \in Seq(AnswerItem) /\ y \in AnswerItem
        BY <1>2, <2>1, <2>2, <2>4 DEF V, N
      <3> DEFINE w == u[m]
      <3> HIDE DEF s, y, w
      <3>4. Len(w) = Len(s) + 1 /\ w[Len(s) + 1] = y /\ \A k \in 1..Len(s) : w[k] = s[k]
        BY <3>1, <3>3 DEF w
      <3>5. \A k \in 1..m : k \in 1..n \/ k = m
        OBVIOUS
      <3>6. Len(w) = m /\ w[m] = y /\ \A k \in 1..n : w[k] = ItemThere(c, k)
        BY <3>2, <3>4
      <3> HIDE DEF m
      <3>7. QED
        BY <3>5, <3>6 DEF w, y
    <2>5. QED
      BY <2>3, <2>4
  <1>14. N \in S
    <2> HIDE DEF S
    <2>1. \A n \in Nat : n \in S
      BY <1>12, <1>13, Induction, Zenon
    <2>2. QED
      BY <1>1, <2>1
  <1>15. QED
    BY <1>1, <1>10, <1>14 DEF N, V

(* Nothing is kept of what is not wanted, and of one thing that thing.     *)
LEMMA WithinNone ==
    ASSUME NEW T, NEW seq \in Seq(T), NEW S, \A n \in DOMAIN seq : seq[n] \notin S
    PROVE  H!Within(seq, S) = <<>>
  <1> DEFINE w == H!Within(seq, S)
  <1>1. w \in Seq(T) /\ \A x : x \in Range(w) <=> x \in Range(seq) /\ x \in S
    BY Sifts
  <1>2. \A x : x \notin Range(w)
    BY <1>1 DEF Range
  <1>3. \A n \in DOMAIN w : w[n] \in Range(w)
    BY DEF Range
  <1> HIDE DEF w
  <1>4. DOMAIN w = 1..Len(w) /\ \A n \in DOMAIN w : FALSE
    BY <1>1, <1>2, <1>3
  <1>5. w = <<>>
    BY <1>1, <1>4
  <1>6. QED
    BY <1>5 DEF w

(* Of one thing that is wanted that thing is kept.                         *)
LEMMA WithinOne ==
    ASSUME NEW T, NEW seq \in Seq(T), NEW S, NEW P \in DOMAIN seq, seq[P] \in S,
           \A n \in DOMAIN seq : seq[n] \in S => n = P
    PROVE  H!Within(seq, S) = <<seq[P]>>
  <1> DEFINE w == H!Within(seq, S)
             x == seq[P]
             N == Len(seq)
             of == [n \in DOMAIN seq |-> IF seq[n] \in S THEN <<seq[n]>> ELSE <<>>]
  <1>1. w = FlattenSeq(of)
    BY SameFlatten DEF H!Within
  <1>2. N \in Nat /\ DOMAIN seq = 1..N /\ x \in T
    OBVIOUS
  <1>3. of \in Seq(Seq(T)) /\ Len(of) = N /\ DOMAIN of = 1..N
    <2>1. \A n \in 1..N : <<seq[n]>> \in Seq(T) /\ <<>> \in Seq(T)
      BY <1>2
    <2>2. of \in [1..N -> Seq(T)]
      BY <1>2, <2>1
    <2> HIDE DEF of, N
    <2>3. QED
      BY <1>2, <2>2
  <1>4. of[P] = <<x>> /\ Len(of[P]) = 1 /\ of[P][1] = x
    BY <1>2
  <1>5. \A n \in 1..N : n # P => Len(of[n]) = 0
    BY <1>2
  <1> HIDE DEF of, w, N, x
  <1>6. PICK off : Offsets(of, off) /\ Joins(of, w, off, Len(of))
    BY <1>1, <1>3, FlattenPlaces
  <1>7. w \in Seq(T)
    BY <1>1, <1>3, FlattenHolds, Zenon
  <1> DEFINE q == off[P - 1] + 1
  <1>8. q \in 1..Len(w) /\ w[q] = x /\ P \in 1..N
    <2>1. 1 \in 1..Len(of[P]) /\ P \in 1..Len(of)
      BY <1>2, <1>3, <1>4
    <2>2. QED
      BY <1>2, <1>4, <1>6, <2>1, Zenon DEF Joins
  <1>9. ASSUME NEW p \in 1..Len(w) PROVE p = q
    <2>0. PICK k \in 1..Len(of) : \E j \in 1..Len(of[k]) : p = off[k - 1] + j
      BY <1>6 DEF Joins
    <2>1. PICK j \in 1..Len(of[k]) : p = off[k - 1] + j
      BY <2>0
    <2>2. k = P
      <3>1. k # P => Len(of[k]) = 0
        BY <1>3, <1>5
      <3>2. Len(of[k]) # 0
        OBVIOUS
      <3>3. QED
        BY <3>1, <3>2
    <2>3. j = 1
      <3>1. j \in 1..1
        BY <1>4, <2>2, Zenon
      <3>2. QED
        BY <3>1
    <2>4. QED
      BY <2>1, <2>2, <2>3
  <1> HIDE DEF q
  <1>10. Len(w) = 1 /\ w[1] = x
    <2>1. Len(w) \in Nat /\ 1 \in 1..Len(w) /\ Len(w) \in 1..Len(w)
      BY <1>7, <1>8
    <2>2. 1 = q /\ Len(w) = q
      BY <1>9, <2>1
    <2>3. QED
      BY <1>8, <2>2
  <1>11. w = <<x>>
    BY <1>7, <1>10
  <1>12. QED
    BY <1>11 DEF w, x

(* When every item that was announced is finished, the app has been given  *)
(* each, once.                                                             *)
LEMMA AllGiven ==
    ASSUME NEW cells, NEW next, NEW its, NEW a, Shows(cells, next, its, a),
           \A key \in Keys : cells[key].at >= 0 => cells[key].done
    PROVE  /\ Len(its) = next
           /\ \A n \in 1..next : \E p \in 1..Len(its) : its[p].at = n - 1
           /\ \A p \in 1..Len(its) : its[p].at + 1 \in 1..next
  <1> DEFINE M == Len(its)
             place == [p \in 1..M |-> its[p].at + 1]
  <1>1. /\ cells \in [Keys -> Cell] /\ next \in Nat /\ its \in Seq(PlacedItem)
        /\ Seen(cells, next, a.live) /\ Given(cells, its, a.live, a.items)
    BY DEF Shows
  <1>2. M \in Nat /\ \A p \in 1..M : its[p].at \in Int
    <2>1. M \in Nat /\ \A p \in 1..M : its[p] \in PlacedItem
      BY <1>1
    <2>2. QED
      BY <2>1 DEF PlacedItem
  <1>3. ASSUME NEW n \in 1..next PROVE \E p \in 1..M : its[p].at = n - 1
    <2>1. PICK key \in Keys : cells[key].at = n - 1
      BY <1>1, Zenon DEF Seen
    <2>2. n - 1 >= 0
      BY <1>1
    <2>3. cells[key].done
      BY <2>1, <2>2
    <2>4. QED
      BY <1>1, <2>1, <2>3 DEF Given
  <1>4. ASSUME NEW p \in 1..M PROVE its[p].at + 1 \in 1..next
    <2>1. PICK key \in Keys : IsGiven(cells[key], its[p], a.live)
      BY <1>1 DEF Given
    <2>2. cells[key].at >= 0 /\ its[p].at = cells[key].at /\ cells[key].at < next
      BY <1>1, <2>1 DEF IsGiven, Seen
    <2>3. QED
      BY <1>1, <1>2, <2>2
  <1>5. \A p, q \in 1..M : its[p].at = its[q].at => p = q
    BY <1>1 DEF Given
  <1>6. place \in Bijection(1..M, 1..next)
    <2>1. place \in [1..M -> 1..next]
      BY <1>4
    <2>2. \A p, q \in 1..M : place[p] = place[q] => p = q
      <3>1. \A p, q \in 1..M : its[p].at + 1 = its[q].at + 1 => its[p].at = its[q].at
        BY <1>2
      <3>2. QED
        BY <1>5, <3>1
    <2>3. \A n \in 1..next : \E p \in 1..M : place[p] = n
      <3> SUFFICES ASSUME NEW n \in 1..next PROVE \E p \in 1..M : place[p] = n
        OBVIOUS
      <3>1. PICK p \in 1..M : its[p].at = n - 1
        BY <1>3
      <3>2. place[p] = n
        BY <1>1, <3>1
      <3>3. QED
        BY <3>2
    <2> HIDE DEF place
    <2>4. QED
      BY <2>1, <2>2, <2>3 DEF Bijection, Injection, Surjection, IsInjective
  <1> HIDE DEF place
  <1>7. M = next
    <2>1. IsFiniteSet(1..M) /\ IsFiniteSet(1..next)
          /\ Cardinality(1..M) = M /\ Cardinality(1..next) = next
      <3>1. \A n \in Nat : IsFiniteSet(1..n) /\ Cardinality(1..n) = IF 1 > n THEN 0 ELSE n - 1 + 1
        BY FS_Interval
      <3>2. \A n \in Nat : (IF 1 > n THEN 0 ELSE n - 1 + 1) = n
        OBVIOUS
      <3>3. QED
        BY <1>1, <1>2, <3>1, <3>2
    <2>2. ExistsBijection(1..M, 1..next)
      BY <1>6 DEF ExistsBijection
    <2>3. Cardinality(1..M) = Cardinality(1..next)
      BY <2>1, <2>2, FS_Bijection
    <2>4. QED
      BY <2>1, <2>3
  <1>8. QED
    BY <1>3, <1>4, <1>7

(* No more items are announced than there are.                             *)
LEMMA AnnouncedFew ==
    ASSUME NEW cells \in [Keys -> Cell], NEW next \in Nat, NEW live, Seen(cells, next, live)
    PROVE  next <= 2 + Cardinality(ToolSlots)
  <1> DEFINE f == [n \in 1..next |-> CHOOSE key \in Keys : cells[key].at = n - 1]
  <1>1. \A n \in 1..next : f[n] \in Keys /\ cells[f[n]].at = n - 1
    BY DEF Seen
  <1>2. f \in Injection(1..next, Keys)
    <2>1. f \in [1..next -> Keys]
      BY <1>1
    <2>2. \A m, n \in 1..next : m - 1 = n - 1 => m = n
      OBVIOUS
    <2>3. \A m, n \in 1..next : f[m] = f[n] => m = n
      BY <1>1, <2>2
    <2> HIDE DEF f
    <2>4. QED
      BY <2>1, <2>3 DEF Injection, IsInjective
  <1>3. Slots \in Nat /\ -2 \in Int /\ 0 \in Int /\ Slots - 1 \in Int /\ next \in Int /\ 1 \in Int
    BY StreamAssumption
  <1>4. IsFiniteSet(Keys) /\ Cardinality(Keys) = IF -2 > Slots - 1 THEN 0 ELSE Slots - 1 - (-2) + 1
    BY <1>3, FS_Interval DEF Keys
  <1>5. Cardinality(ToolSlots) = IF 0 > Slots - 1 THEN 0 ELSE Slots - 1 - 0 + 1
    BY <1>3, FS_Interval DEF ToolSlots
  <1>6. Cardinality(1..next) = IF 1 > next THEN 0 ELSE next - 1 + 1
    BY <1>3, FS_Interval
  <1>7. Cardinality(1..next) <= Cardinality(Keys)
    BY <1>2, <1>4, FS_Injection
  <1>8. \A n, s \in Nat :
           (IF 1 > n THEN 0 ELSE n - 1 + 1) <= (IF -2 > s - 1 THEN 0 ELSE s - 1 - (-2) + 1)
              => n <= 2 + (IF 0 > s - 1 THEN 0 ELSE s - 1 - 0 + 1)
    OBVIOUS
  <1>9. QED
    BY <1>3, <1>4, <1>5, <1>6, <1>7, <1>8

(* What an app has been given agrees with what it saw grow.                *)
Agreed(b) ==
    /\ Len(b.output) = Len(b.live)
    /\ Len(b.items) = Len(b.live)
    /\ ToSet(b.items) = ToSet(b.output)
    /\ \A k \in DOMAIN b.live :
        LET seen == b.live[k]
            item == b.output[k]
        IN  /\ seen.at = k - 1 /\ seen.done
            /\ seen.id = item.id /\ seen.kind = item.kind
            /\ \/ seen.text = item.text
               \/ item.kind = "call" /\ seen.text = <<>>
GotOf(b, kind) ==
    LET of == H!Within(b.output, {item \in ToSet(b.output) : item.kind = kind})
    IN  FlattenSeq([k \in DOMAIN of |-> of[k].text])

(* Every place has its item, as it was announced.                          *)
LEMMA PlacesGiven ==
    ASSUME NEW a, NEW c, Honest(a, c),
           \A key \in Keys : Cells(c)[key].at >= 0 => Cells(c)[key].done,
           NEW o, o = OutputItems(c), NEW r, r = HasRead(a, c)
    PROVE  /\ o \in Seq(AnswerItem) /\ Len(o) = c.next /\ c.next \in Nat
           /\ Len(c.items) = c.next /\ Len(r.live) = c.next /\ Len(r.items) = c.next
           /\ r.live \in Seq(LiveItem)
           /\ \A n \in 1..c.next : \E p \in 1..c.next :
                 c.items[p].at = n - 1 /\ c.items[p].item = o[n]
           /\ \A p \in 1..c.next : \E n \in 1..c.next :
                 c.items[p].at = n - 1 /\ c.items[p].item = o[n]
           /\ \A p \in 1..c.next : r.items[p] = c.items[p].item
  <1>1. /\ c \in Conv /\ Shows(Cells(c), c.next, c.items, r)
        /\ c.items \in Seq(PlacedItem) /\ c.next \in Nat
    BY DEF Honest, Conv
  <1>2. /\ Len(c.items) = c.next
        /\ \A n \in 1..c.next : \E p \in 1..c.next : c.items[p].at = n - 1
        /\ \A p \in 1..c.next : c.items[p].at + 1 \in 1..c.next
    <2>1. /\ Len(c.items) = c.next
          /\ \A n \in 1..c.next : \E p \in 1..Len(c.items) : c.items[p].at = n - 1
          /\ \A p \in 1..Len(c.items) : c.items[p].at + 1 \in 1..c.next
      BY <1>1, AllGiven, Zenon
    <2>2. QED
      BY <2>1, Zenon
  <1>3. /\ Seen(Cells(c), c.next, r.live) /\ Given(Cells(c), c.items, r.live, r.items)
        /\ r.live \in Seq(LiveItem)
    BY <1>1 DEF Shows, AppState
  <1>4. /\ Len(r.live) = c.next /\ Len(r.items) = c.next
        /\ \A p \in 1..c.next : r.items[p] = c.items[p].item
        /\ \A p, q \in 1..c.next : c.items[p].at = c.items[q].at => p = q
    BY <1>2, <1>3 DEF Seen, Given
  <1>5. \A n \in 1..c.next : HasItem(c, n)
    <2> SUFFICES ASSUME NEW n \in 1..c.next PROVE HasItem(c, n)
      OBVIOUS
    <2>1. PICK p \in 1..c.next : c.items[p].at = n - 1
      BY <1>2
    <2>2. c.items[p] \in ToSet(c.items)
      <3>1. p \in DOMAIN c.items
        BY <1>1, <1>2
      <3>2. QED
        BY <3>1 DEF ToSet
    <2>3. QED
      BY <2>1, <2>2 DEF HasItem
  <1>6. o \in Seq(AnswerItem) /\ Len(o) = c.next /\ \A n \in 1..c.next : o[n] = ItemThere(c, n)
    BY <1>1, <1>5, OutputItemsAre
  <1>7. ASSUME NEW n \in 1..c.next
        PROVE  \E p \in 1..c.next : c.items[p].at = n - 1 /\ c.items[p].item = o[n]
    <2>1. n \in Nat
      BY <1>1
    <2>2. \E p \in 1..Len(c.items) : c.items[p].at = n - 1 /\ c.items[p].item = ItemThere(c, n)
      BY <1>1, <1>5, <2>1, ItemThereIs
    <2>3. QED
      BY <1>2, <1>6, <2>2, Zenon
  <1>8. ASSUME NEW p \in 1..c.next
        PROVE  \E n \in 1..c.next : c.items[p].at = n - 1 /\ c.items[p].item = o[n]
    <2> DEFINE n == c.items[p].at + 1
    <2>1. n \in 1..c.next
      BY <1>2
    <2>2. c.items[p].at = n - 1
      <3>1. c.items[p] \in PlacedItem
        BY <1>1, <1>2
      <3>2. c.items[p].at \in Int
        BY <3>1 DEF PlacedItem
      <3>3. QED
        BY <3>2
    <2> HIDE DEF n
    <2>3. PICK q \in 1..c.next : c.items[q].at = n - 1 /\ c.items[q].item = o[n]
      BY <1>7, <2>1
    <2>4. q = p
      BY <1>4, <2>2, <2>3
    <2>5. QED
      BY <2>1, <2>2, <2>3, <2>4
  <1>9. QED
    BY <1>1, <1>2, <1>3, <1>4, <1>6, <1>7, <1>8

(* What the app was given is what it saw grow.                             *)
LEMMA AllAgreed ==
    ASSUME NEW a, NEW c, Honest(a, c),
           \A key \in Keys : Cells(c)[key].at >= 0 => Cells(c)[key].done,
           NEW b, b.live = HasRead(a, c).live, b.items = HasRead(a, c).items,
           b.output = OutputItems(c)
    PROVE  Agreed(b)
  <1> DEFINE o == OutputItems(c)
             r == HasRead(a, c)
             N == c.next
             its == c.items
  <1>1. /\ o \in Seq(AnswerItem) /\ Len(o) = N /\ N \in Nat /\ Len(r.live) = N
        /\ Len(r.items) = N /\ r.live \in Seq(LiveItem)
        /\ \A n \in 1..N : \E p \in 1..N : its[p].at = n - 1 /\ its[p].item = o[n]
        /\ \A p \in 1..N : \E n \in 1..N : its[p].at = n - 1 /\ its[p].item = o[n]
        /\ \A p \in 1..N : r.items[p] = its[p].item
        /\ Len(its) = N
    BY PlacesGiven
  <1>2. /\ c \in Conv /\ Seen(Cells(c), N, r.live) /\ Given(Cells(c), its, r.live, r.items)
        /\ r.items \in Seq(AnswerItem)
    BY DEF Honest, Shows, AppState
  <1> HIDE DEF o, r, N, its
  <1>3. ToSet(r.items) = ToSet(o)
    <2>1. DOMAIN r.items = 1..N /\ DOMAIN o = 1..N
      BY <1>1, <1>2
    <2>2. ToSet(r.items) = {r.items[p] : p \in 1..N} /\ ToSet(o) = {o[n] : n \in 1..N}
      BY <2>1 DEF ToSet
    <2>3. \A p \in 1..N : \E n \in 1..N : r.items[p] = o[n]
      BY <1>1
    <2>4. ASSUME NEW n \in 1..N PROVE \E p \in 1..N : o[n] = r.items[p]
      <3>1. PICK p \in 1..N : its[p].item = o[n]
        BY <1>1
      <3>2. r.items[p] = its[p].item
        BY <1>1
      <3>3. QED
        BY <3>1, <3>2
    <2> DEFINE given == ToSet(r.items)
               listed == ToSet(o)
    <2>5. \A x \in given : x \in listed
      BY <2>2, <2>3
    <2>6. \A y \in listed : y \in given
      BY <2>2, <2>4
    <2> HIDE DEF given, listed
    <2>7. given = listed
      BY <2>5, <2>6
    <2>8. QED
      BY <2>7 DEF given, listed
  <1>4. ASSUME NEW k \in 1..N
        PROVE  /\ r.live[k].at = k - 1 /\ r.live[k].done
               /\ r.live[k].id = o[k].id /\ r.live[k].kind = o[k].kind
               /\ \/ r.live[k].text = o[k].text
                  \/ o[k].kind = "call" /\ r.live[k].text = <<>>
    <2>1. PICK p \in 1..N : its[p].at = k - 1 /\ its[p].item = o[k]
      BY <1>1, Zenon
    <2>2. PICK key \in Keys : IsGiven(Cells(c)[key], its[p], r.live)
      BY <1>1, <1>2, Zenon DEF Given
    <2>3. Pictured(Cells(c)[key], r.live[Cells(c)[key].at + 1])
      BY <1>2, <2>2 DEF Seen, IsGiven
    <2> DEFINE x == Cells(c)[key]
               w == r.live[k]
    <2>4. x.at = k - 1 /\ x.at + 1 = k
      <3>1. x.at = k - 1
        BY <2>1, <2>2 DEF IsGiven
      <3>2. (k - 1) + 1 = k
        BY <1>1
      <3>3. QED
        BY <3>1, <3>2
    <2>5. w.at = x.at /\ w.id = x.id /\ w.kind = x.kind /\ w.done = x.done
      BY <2>3, <2>4 DEF Pictured
    <2>6. /\ x.done /\ o[k].kind = x.kind /\ o[k].id = x.id
          /\ \/ w.text = o[k].text
             \/ x.kind = "call" /\ w.text = <<>>
      BY <2>1, <2>2, <2>4 DEF IsGiven
    <2> HIDE DEF x
    <2>7. QED
      BY <2>4, <2>5, <2>6
  <1>5. DOMAIN r.live = 1..N /\ b.live = r.live /\ b.items = r.items /\ b.output = o
    BY <1>1 DEF r, o
  <1>6. Len(b.output) = Len(b.live) /\ Len(b.items) = Len(b.live)
        /\ ToSet(b.items) = ToSet(b.output)
    BY <1>1, <1>3, <1>5
  <1>7. \A k \in DOMAIN b.live :
           /\ b.live[k].at = k - 1 /\ b.live[k].done
           /\ b.live[k].id = b.output[k].id /\ b.live[k].kind = b.output[k].kind
           /\ \/ b.live[k].text = b.output[k].text
              \/ b.output[k].kind = "call" /\ b.live[k].text = <<>>
    <2>1. ASSUME NEW k \in 1..N
          PROVE  /\ b.live[k].at = k - 1 /\ b.live[k].done
                 /\ b.live[k].id = b.output[k].id /\ b.live[k].kind = b.output[k].kind
                 /\ \/ b.live[k].text = b.output[k].text
                    \/ b.output[k].kind = "call" /\ b.live[k].text = <<>>
      <3>1. b.live[k] = r.live[k] /\ b.output[k] = o[k]
        BY <1>5
      <3> DEFINE w == r.live[k]
                 v == o[k]
      <3>2. /\ w.at = k - 1 /\ w.done /\ w.id = v.id /\ w.kind = v.kind
            /\ \/ w.text = v.text
               \/ v.kind = "call" /\ w.text = <<>>
        BY <1>4
      <3>3. b.live[k] = w /\ b.output[k] = v
        BY <3>1
      <3> HIDE DEF w, v
      <3>4. QED
        BY <3>2, <3>3
    <2>2. DOMAIN b.live = 1..N
      BY <1>5
    <2>3. QED
      BY <2>1, <2>2
  <1>8. QED
    BY <1>6, <1>7 DEF Agreed

(* Of a text the app was given the words.                                  *)
LEMMA WordsGiven ==
    ASSUME NEW a, NEW c, Honest(a, c), Heard(c),
           \A key \in Keys : Cells(c)[key].at >= 0 => Cells(c)[key].done,
           NEW b, b.output = OutputItems(c), NEW kind \in TextKinds
    PROVE  Words(GotOf(b, kind)) = Words(c[kind].text)
  <1> DEFINE o == OutputItems(c)
             r == HasRead(a, c)
             N == c.next
             its == c.items
             key == KeyOf(kind)
             x == Cells(c)[key]
             S == {item \in ToSet(o) : item.kind = kind}
             of == H!Within(o, S)
  <1>1. /\ o \in Seq(AnswerItem) /\ Len(o) = N /\ N \in Nat
        /\ \A n \in 1..N : \E p \in 1..N : its[p].at = n - 1 /\ its[p].item = o[n]
        /\ \A p \in 1..N : \E n \in 1..N : its[p].at = n - 1 /\ its[p].item = o[n]
        /\ Len(its) = N
    BY PlacesGiven
  <1>2. /\ c \in Conv /\ Seen(Cells(c), N, r.live) /\ Given(Cells(c), its, r.live, r.items)
        /\ Tidy(c)
    BY DEF Honest, Shows
  <1>3. c[kind] \in TextItem /\ c[kind].at \in Int
    BY <1>2, KindText, Zenon
  <1>4. key \in Keys /\ x = TextCell(c[kind], kind)
    <2>1. /\ key \in Keys /\ Cells(c)[key] = TextCell(c[kind], kind)
      BY <1>2, <1>3, TextChanges, Zenon
    <2>2. QED
      BY <2>1
  <1>5. x.at = c[kind].at /\ x.kind = kind
    BY <1>4 DEF TextCell
  <1>6. ASSUME NEW k \in Keys, Cells(c)[k].kind = kind PROVE k = key
    <2>1. CASE k = -2
      <3>1. Cells(c)[k] = TextCell(c.reasoning, "reasoning")
        BY <2>1 DEF Cells
      <3>2. kind = "reasoning"
        BY <1>6, <3>1 DEF TextCell
      <3>3. QED
        BY <2>1, <3>2 DEF KeyOf
    <2>2. CASE k = -1
      <3>0. -1 # -2
        OBVIOUS
      <3>1. Cells(c)[k] = TextCell(c.message, "message")
        BY <2>2, <3>0 DEF Cells
      <3>2. kind = "message"
        BY <1>6, <3>1 DEF TextCell
      <3>3. QED
        BY <2>2, <3>2 DEF KeyOf
    <2>3. CASE k # -1 /\ k # -2
      <3>1. Cells(c)[k] = CallCell(c.tools[k])
        BY <2>3 DEF Cells
      <3>2. kind = "call"
        BY <1>6, <3>1 DEF CallCell
      <3>3. QED
        BY <3>2 DEF TextKinds
    <2>4. QED
      BY <2>1, <2>2, <2>3
  <1> HIDE DEF key, x, o, its, N
  <1>7. ASSUME NEW n \in 1..N, o[n].kind = kind
        PROVE  n - 1 = c[kind].at /\ Words(o[n].text) = Words(c[kind].text)
    <2>1. PICK p \in 1..N : its[p].at = n - 1 /\ its[p].item = o[n]
      BY <1>1, Zenon
    <2>2. PICK k \in Keys : IsGiven(Cells(c)[k], its[p], r.live)
      BY <1>1, <1>2, <2>1 DEF Given
    <2>3. Cells(c)[k].kind = kind /\ Cells(c)[k].at = n - 1
      BY <1>7, <2>1, <2>2 DEF IsGiven
    <2>4. k = key
      BY <1>6, <2>3
    <2>5. n - 1 = c[kind].at
      BY <1>5, <2>3, <2>4 DEF x
    <2>6. Words(its[p].item.text) = Words(c[kind].text)
      <3>1. HeardOf(c, kind)
        BY DEF Heard
      <3>2. p \in 1..Len(its) /\ its[p].item.kind = kind
        BY <1>1, <1>7, <2>1
      <3>3. p \in 1..Len(c.items) /\ c.items[p].item.kind = kind
        BY <3>2 DEF its
      <3>4. Words(c.items[p].item.text) = Words(c[kind].text)
        BY <3>1, <3>3 DEF HeardOf
      <3>5. QED
        BY <3>4 DEF its
    <2>7. QED
      BY <2>1, <2>5, <2>6
  <1>8. DOMAIN o = 1..N /\ \A n \in 1..N : o[n] \in S <=> o[n].kind = kind
    <2>1. DOMAIN o = 1..N
      BY <1>1
    <2>2. \A n \in 1..N : o[n] \in ToSet(o)
      BY <2>1 DEF ToSet
    <2>3. QED
      BY <2>1, <2>2
  <1>9. GotOf(b, kind) = FlattenSeq([k \in DOMAIN of |-> of[k].text])
    BY DEF GotOf, o
  <1> HIDE DEF S
  <1>10. CASE \E n \in 1..N : o[n].kind = kind
    <2>1. PICK P \in 1..N : o[P].kind = kind
      BY <1>10
    <2>2. \A n \in DOMAIN o : o[n] \in S => n = P
      <3>1. \A n \in 1..N : n - 1 = P - 1 => n = P
        OBVIOUS
      <3>2. QED
        BY <1>7, <1>8, <2>1, <3>1
    <2>3. of = <<o[P]>>
      <3>1. o \in Seq(AnswerItem) /\ P \in DOMAIN o /\ o[P] \in S
        BY <1>1, <1>8, <2>1, Zenon
      <3>2. QED
        BY <2>2, <3>1, WithinOne
    <2>4. o[P] \in AnswerItem
      BY <1>1, <2>1
    <2> DEFINE t == o[P].text
    <2>5. t \in Tokens
      BY <2>4 DEF AnswerItem, TextRecord, CallRecord
    <2>6. [k \in DOMAIN of |-> of[k].text] = <<t>>
      <3> HIDE DEF of
      <3>1. DOMAIN of = 1..1 /\ of[1] = o[P]
        BY <2>3
      <3>2. \A k \in 1..1 : of[k].text = t
        BY <3>1
      <3>3. QED
        BY <3>1, <3>2
    <2>7. FlattenSeq(<<t>>) = t
      <3> DEFINE E == <<>>
                 T == STRING
      <3>0. t \in Seq(T)
        BY <2>5 DEF Tokens
      <3> HIDE DEF T, t
      <3>1. E \in Seq(Seq(T)) /\ Append(E, t) = <<t>> /\ <<>> \o t = t
        BY <3>0
      <3>2. FlattenSeq(E) = <<>>
        BY DEF FlattenSeq
      <3>3. FlattenSeq(Append(E, t)) = FlattenSeq(E) \o t
        <4> HIDE DEF E
        <4>1. QED
          BY <3>0, <3>1, FlattenMore, Zenon
      <3>4. QED
        BY <3>1, <3>2, <3>3, Zenon
    <2>8. Words(t) = Words(c[kind].text)
      BY <1>7, <2>1
    <2> HIDE DEF of, t
    <2>9. QED
      BY <1>9, <2>6, <2>7, <2>8
  <1>11. CASE ~ \E n \in 1..N : o[n].kind = kind
    <2>1. \A n \in DOMAIN o : o[n] \notin S
      BY <1>8, <1>11
    <2>2. of = <<>>
      BY <1>1, <2>1, WithinNone, Zenon
    <2>3. GotOf(b, kind) = <<>>
      <3> DEFINE f == [k \in DOMAIN of |-> of[k].text]
      <3>1. f = <<>>
        BY <2>2
      <3>2. FlattenSeq(<<>>) = <<>>
        BY DEF FlattenSeq
      <3> HIDE DEF f
      <3>3. QED
        BY <1>9, <3>1, <3>2 DEF f
    <2>4. c[kind].at < 0
      <3> SUFFICES ASSUME c[kind].at >= 0 PROVE FALSE
        BY <1>3
      <3>1. x.done
        BY <1>4, <1>5 DEF x
      <3>2. PICK p \in 1..N : its[p].at = x.at
        BY <1>1, <1>2, <1>4, <3>1, Zenon DEF Given, x
      <3>3. PICK k \in Keys : IsGiven(Cells(c)[k], its[p], r.live)
        BY <1>1, <1>2, Zenon DEF Given
      <3>4. Cells(c)[k].at = x.at /\ Cells(c)[k].at >= 0 /\ its[p].item.kind = Cells(c)[k].kind
        BY <3>2, <3>3 DEF IsGiven
      <3>5. k = key
        BY <1>2, <1>4, <3>4 DEF Seen, x
      <3>6. its[p].item.kind = kind
        BY <1>5, <3>4, <3>5 DEF x
      <3>7. PICK n \in 1..N : its[p].item = o[n]
        BY <1>1
      <3>8. QED
        BY <1>11, <3>6, <3>7
    <2>5. c[kind].text = <<>>
      BY <1>2, <2>4 DEF Tidy
    <2>6. QED
      BY <2>3, <2>5
  <1>12. QED
    BY <1>10, <1>11

(* The answer is ended: the app gets the items that are finished.          *)
Ending(q, status) == Emit([q EXCEPT !.completed = TRUE], Closing(status, OutputItems(q)))
SameTexts(d, c) ==
    /\ d.mode = c.mode /\ d.buffer = c.buffer /\ d.failed = c.failed
    /\ d.reasoning = c.reasoning /\ d.message = c.message
    /\ d.next = c.next

(* The end is written last: the app has what it had, and the output.       *)
LEMMA EndingTells ==
    ASSUME NEW a, NEW q, Honest(a, q), NEW status \in {"completed", "incomplete", "failed"},
           NEW p, p = Ending(q, status), NEW b, b = HasRead(a, p)
    PROVE  /\ p \in Conv /\ p.completed /\ SameTexts(p, q)
           /\ b \in AppState /\ b.end = status /\ b.output = OutputItems(q)
           /\ b.live = HasRead(a, q).live /\ b.items = HasRead(a, q).items
  <1> DEFINE d == [q EXCEPT !.completed = TRUE]
             o == OutputItems(q)
             e == Closing(status, o)
             r == HasRead(a, q)
  <1>1. q \in Conv /\ a \in AppState /\ r \in AppState /\ r.end = "none"
    BY DEF Honest, Shows
  <1>2. q.items \in Seq(PlacedItem) /\ q.next \in Nat
    BY <1>1 DEF Conv
  <1>3. o \in Seq(AnswerItem)
    BY <1>2, OutputItemsAre
  <1> HIDE DEF o, r
  <1>4. e = [ev |-> status, output |-> o] /\ e.ev = status /\ e.output = o
    BY DEF Closing
  <1>5. e \in Event
    BY <1>3, <1>4 DEF Event
  <1>6. /\ d \in Conv /\ d.completed /\ d.out = q.out /\ SameTexts(d, q)
    BY <1>1, Zenon DEF Conv, SameTexts
  <1>7. p = Emit(d, e)
    BY DEF Ending, o
  <1> HIDE DEF d, e
  <1>8. p \in Conv /\ p.completed /\ SameTexts(p, q)
    BY <1>5, <1>6, <1>7, EmitIs DEF SameTexts
  <1>9. b = Receive(r, e)
    <2>1. HasRead(a, p) = Receive(HasRead(a, d), e)
      BY <1>1, <1>5, <1>6, <1>7, EmitRead
    <2>2. HasRead(a, d) = r
      BY <1>6 DEF HasRead, r
    <2>3. QED
      BY <2>1, <2>2
  <1>10. b \in AppState
    BY <1>1, <1>5, <1>9, ReceiveTyped
  <1>11. b = [r EXCEPT !.end = status, !.output = o]
    <2>1. status # "created" /\ status # "added" /\ status # "delta" /\ status # "done"
      OBVIOUS
    <2>2. QED
      BY <1>1, <1>4, <1>9, <2>1 DEF Receive
  <1>12. b.end = status /\ b.output = o /\ b.live = r.live /\ b.items = r.items
    BY <1>1, <1>11 DEF AppState
  <1>13. QED
    BY <1>8, <1>10, <1>12 DEF o, r

(* The answer ends well: all that is begun is finished, and the app gets   *)
(* it, with every word that was told.                                      *)
EndedWell(b, words) ==
    /\ Agreed(b)
    /\ Words(GotOf(b, "reasoning")) \o Words(GotOf(b, "message")) = words

(* An answer that is ended is given whole to an app that has read all of   *)
(* it.                                                                     *)
LEMMA FinalizeTells ==
    ASSUME NEW a, NEW c, Telltale(a, c), ~c.completed, NEW p, p = Finalize(c),
           NEW b, b = HasRead(a, p)
    PROVE  /\ p \in Conv /\ p.completed /\ p.failed = c.failed
           /\ p.buffer = <<>> /\ p.next <= 2 + Cardinality(ToolSlots)
           /\ b \in AppState /\ b.end \in {"completed", "incomplete"}
           /\ EndedWell(b, Telling(c))
  <1> DEFINE s == EnsureStarted(c)
             f == FlushThink(s)
             r == FinalizeItem(f, "reasoning")
             m == FinalizeItem(r, "message")
             q == FinalizeTools(m)
  <1>1. Telltale(a, s) /\ AsBefore(s, c) /\ Telling(s) = Telling(c)
    BY EnsureStartedTells
  <1>2. p = Ending(q, Status(q))
    BY DEF Finalize, Ending
  <1> HIDE DEF s
  <1>3. Telltale(a, f) /\ AsBefore(f, s) /\ f.mode = "text" /\ Telling(f) = Telling(s)
    BY <1>1, FlushThinkTells
  <1> HIDE DEF f
  <1>4. /\ Telltale(a, r) /\ AsBefore(r, f) /\ r.mode = "text" /\ Telling(r) = Telling(f)
        /\ r.reasoning.at >= 0 => r.reasoning.done
    BY <1>3, CloseReasons
  <1> HIDE DEF r
  <1>5. /\ Honest(a, r) /\ Heard(r) /\ Undecided(r) /\ "message" \in TextKinds
        /\ "reasoning" \in TextKinds
    BY <1>4 DEF Telltale, TextKinds
  <1>6. /\ Honest(a, m) /\ OnlyText(m, r, "message") /\ m.message.text = r.message.text
        /\ m.message.at >= 0 => m.message.done
    BY <1>5, FinalizeItemHonest, Zenon
  <1>7. Heard(m)
    BY <1>5, ClosingHeard
  <1> HIDE DEF m
  <1>8. /\ m.reasoning = r.reasoning /\ m.mode = "text" /\ m.buffer = r.buffer /\ r.buffer = <<>>
        /\ m.failed = r.failed
    BY <1>4, <1>5, <1>6 DEF OnlyText, Beside, Undecided
  <1>9. Undecided(m) /\ Telling(m) = Telling(r)
    BY <1>6, <1>8 DEF Undecided, Telling
  <1>10. /\ Honest(a, q) /\ Heard(q) /\ Undecided(q) /\ SameEnd(q, m)
         /\ q.message = m.message /\ q.reasoning = m.reasoning
         /\ q.buffer = m.buffer /\ q.mode = m.mode
         /\ \A j \in ToolSlots : q.tools[j].at >= 0 => q.tools[j].done
    BY <1>6, <1>7, <1>9, FinalizeToolsTells
  <1> HIDE DEF q
  <1>11. Telling(q) = Telling(c)
    BY <1>1, <1>3, <1>4, <1>9, <1>10, Zenon DEF Telling
  <1>12. ASSUME NEW key \in Keys, Cells(q)[key].at >= 0 PROVE Cells(q)[key].done
    <2>1. key = -2 \/ key = -1 \/ key \in ToolSlots
      BY StreamAssumption DEF Keys, ToolSlots
    <2>2. CASE key = -2
      <3>1. Cells(q)[key] = TextCell(q.reasoning, "reasoning")
        BY <2>2 DEF Cells
      <3>2. QED
        BY <1>4, <1>8, <1>10, <1>12, <3>1 DEF TextCell
    <2>3. CASE key = -1
      <3>0. -1 # -2
        OBVIOUS
      <3>1. Cells(q)[key] = TextCell(q.message, "message")
        BY <2>3, <3>0 DEF Cells
      <3>2. QED
        BY <1>6, <1>10, <1>12, <3>1 DEF TextCell
    <2>4. CASE key \in ToolSlots
      <3>1. key # -1 /\ key # -2
        BY <2>4, StreamAssumption DEF ToolSlots
      <3>2. Cells(q)[key] = CallCell(q.tools[key])
        BY <3>1 DEF Cells
      <3>3. QED
        BY <1>10, <1>12, <2>4, <3>2 DEF CallCell
    <2>5. QED
      BY <2>1, <2>2, <2>3, <2>4
  <1>13. Status(q) \in {"completed", "incomplete"}
    BY DEF Status
  <1>14. /\ p \in Conv /\ p.completed /\ SameTexts(p, q)
         /\ b \in AppState /\ b.end = Status(q) /\ b.output = OutputItems(q)
         /\ b.live = HasRead(a, q).live /\ b.items = HasRead(a, q).items
    <2>1. Status(q) \in {"completed", "incomplete", "failed"}
      BY <1>13
    <2>2. QED
      BY <1>2, <1>10, <2>1, EndingTells
  <1>15. Agreed(b)
    BY <1>10, <1>12, <1>14, AllAgreed
  <1>16. /\ Words(GotOf(b, "reasoning")) = Words(q.reasoning.text)
         /\ Words(GotOf(b, "message")) = Words(q.message.text)
    BY <1>5, <1>10, <1>12, <1>14, WordsGiven
  <1>17. Telling(q) = Words(q.reasoning.text) \o Words(q.message.text)
    <2>1. q.buffer = <<>>
      BY <1>8, <1>10
    <2>2. Words(<<>>) = <<>>
      <3>1. <<>> \in Tokens /\ \A n \in DOMAIN <<>> : <<>>[n] \notin Vocabulary
        BY DEF Tokens
      <3>2. QED
        BY <3>1, WordsNone
    <2> DEFINE T == STRING
               y == Words(q.message.text)
               E == <<>>
    <2>3. y \in Seq(T)
      BY <1>10, TellsText DEF Honest
    <2> HIDE DEF T, y
    <2>4. y \o <<>> = y
      BY <2>3, Joining
    <2>5. QED
      BY <2>1, <2>2, <2>4 DEF Telling, y
  <1>18. p.failed = c.failed /\ p.buffer = <<>>
    BY <1>1, <1>3, <1>4, <1>8, <1>10, <1>14 DEF AsBefore, SameEnd, SameTexts
  <1>19. p.next <= 2 + Cardinality(ToolSlots)
    <2>1. /\ Cells(q) \in [Keys -> Cell] /\ q.next \in Nat
          /\ Seen(Cells(q), q.next, HasRead(a, q).live)
      BY <1>10 DEF Honest, Shows
    <2>2. q.next <= 2 + Cardinality(ToolSlots)
      BY <2>1, AnnouncedFew
    <2>3. QED
      BY <1>14, <2>2 DEF SameTexts
  <1>20. QED
    BY <1>11, <1>13, <1>14, <1>15, <1>16, <1>17, <1>18, <1>19, Zenon DEF EndedWell

-----------------------------------------------------------------------------

(* What was written is read, and nothing is left to read.                  *)
Unread(p) == [p EXCEPT !.out = <<>>]

(* Nothing else of the converter changes.                                  *)
LEMMA UnreadIs ==
    ASSUME NEW p \in Conv, NEW c, c = Unread(p)
    PROVE  /\ c \in Conv /\ c.out = <<>> /\ SameTexts(c, p) /\ c.completed = p.completed
           /\ c.tools = p.tools /\ c.items = p.items /\ c.started = p.started
  <1>1. p.out \in Seq(Event) /\ <<>> \in Seq(Event)
    BY DEF Conv
  <1>2. QED
    BY <1>1, Zenon DEF Conv, Unread, SameTexts

(* The app that has read it tells the truth about a converter with         *)
(* nothing written.                                                        *)
LEMMA ReadsOn ==
    ASSUME NEW a, NEW p, Telltale(a, p), NEW c, c = Unread(p), NEW b, b = HasRead(a, p)
    PROVE  /\ Telltale(b, c) /\ Telling(c) = Telling(p) /\ SameEnd(c, p)
           /\ Ongoing(p) => Ongoing(c)
           /\ b \in AppState /\ b.end = "none"
  <1>1. /\ p \in Conv /\ a \in AppState /\ Tidy(p)
        /\ Shows(Cells(p), p.next, p.items, b)
    BY DEF Telltale, Honest
  <1>2. /\ c \in Conv /\ c.out = <<>> /\ SameTexts(c, p) /\ c.completed = p.completed
        /\ c.tools = p.tools /\ c.items = p.items /\ c.started = p.started
    BY <1>1, UnreadIs
  <1>3. c.reasoning = p.reasoning /\ c.message = p.message /\ c.next = p.next
        /\ c.mode = p.mode /\ c.buffer = p.buffer /\ c.failed = p.failed
    BY <1>2 DEF SameTexts
  <1>4. b \in AppState /\ b.end = "none"
    BY <1>1 DEF Shows
  <1>5. HasRead(b, c) = b
    BY <1>2, <1>4, ReceiveNone DEF HasRead
  <1>6. \A kind \in TextKinds : c[kind] = p[kind]
    BY <1>3 DEF TextKinds
  <1>7. Cells(c) = Cells(p) /\ Tidy(c)
    BY <1>1, <1>2, <1>3, <1>6 DEF Cells, Tidy
  <1>8. Honest(b, c)
    BY <1>1, <1>2, <1>3, <1>4, <1>5, <1>7 DEF Honest
  <1>9. Heard(c)
    BY <1>2, <1>6 DEF Telltale, Heard, HeardOf
  <1>10. Undecided(c) /\ ~c.message.done
    BY <1>3 DEF Telltale, Undecided
  <1>11. QED
    BY <1>2, <1>3, <1>4, <1>8, <1>9, <1>10 DEF Telltale, Telling, SameEnd, Ongoing

(* At first there is nothing to tell.                                      *)
LEMMA TellsNothing ==
    /\ Telltale(NoAnswer, NewStream) /\ Ongoing(NewStream) /\ Telling(NewStream) = <<>>
    /\ NewStream \in Conv /\ NewStream.out = <<>> /\ NewStream.next = 0
    /\ ~NewStream.completed /\ ~NewStream.failed /\ NewStream.mode # "text"
    /\ NoAnswer \in AppState /\ NoAnswer.end = "none"
  <1> DEFINE c == NewStream
             a == NoAnswer
             none == [i \in ToolSlots |-> NoTool]
             T == STRING
             e == <<>>
  <1>1. e \in Seq(T) /\ e \in Seq(Event) /\ e \in Seq(PlacedItem) /\ e \in Seq(LiveItem)
        /\ e \in Seq(AnswerItem) /\ Len(e) = 0
    OBVIOUS
  <1> HIDE DEF e
  <1>2. NoTool = [here |-> FALSE, at |-> -1, item |-> <<>>, id |-> NoId, name |-> NoName,
                  args |-> e, done |-> FALSE]
        /\ NoItem = [at |-> -1, text |-> e, done |-> FALSE]
    BY DEF NoTool, NoItem, e
  <1>3. NoItem \in TextItem /\ NoTool \in ToolItem
    <2>1. e \in Tokens /\ -1 \in Int /\ NoId \in AnyIds
      BY <1>1 DEF Tokens, AnyIds
    <2>2. QED
      BY <1>2, <2>1 DEF TextItem, ToolItem
  <1>4. none \in [ToolSlots -> ToolItem] /\ \A i \in ToolSlots : none[i] = NoTool
    BY <1>3
  <1> HIDE DEF none
  <1>5. c = [started |-> FALSE, completed |-> FALSE, failed |-> FALSE, next |-> 0,
             mode |-> "detecting", buffer |-> e, reasoning |-> NoItem, message |-> NoItem,
             tools |-> none, items |-> e, finish |-> "none", out |-> e]
    BY DEF NewStream, none, e
  <1>6. c \in Conv
    <2>1. e \in Tokens
      BY <1>1 DEF Tokens
    <2>2. QED
      BY <1>1, <1>3, <1>4, <1>5, <2>1 DEF Conv
  <1>7. /\ c.next = 0 /\ c.mode = "detecting" /\ c.buffer = e /\ c.reasoning = NoItem
        /\ c.message = NoItem /\ c.tools = none /\ c.items = e /\ c.out = e
        /\ ~c.completed /\ ~c.failed
    BY <1>5
  <1>8. a = [live |-> e, items |-> e, end |-> "none", output |-> e]
    BY DEF NoAnswer, e
  <1>9. a \in AppState /\ a.live = e /\ a.items = e /\ a.end = "none"
    BY <1>1, <1>8 DEF AppState
  <1> HIDE DEF a, c
  <1>10. HasRead(a, c) = a
    BY <1>7, <1>9, ReceiveNone DEF HasRead, e
  <1>11. /\ NoItem.at = -1 /\ NoItem.text = e /\ ~NoItem.done /\ NoTool.at = -1 /\ ~NoTool.done
         /\ -1 < 0 /\ ~(-1 >= 0)
    BY <1>2
  <1>12. \A kind \in TextKinds : c[kind] = NoItem
    BY <1>7 DEF TextKinds
  <1>13. Tidy(c)
    BY <1>4, <1>7, <1>11, <1>12 DEF Tidy, NamedCall, e
  <1>14. ASSUME NEW key \in Keys PROVE Cells(c)[key].at = -1 /\ ~Cells(c)[key].done
    <2>1. key = -2 \/ key = -1 \/ key \in ToolSlots
      BY StreamAssumption DEF Keys, ToolSlots
    <2>2. CASE key = -2
      <3>1. Cells(c)[key] = TextCell(c.reasoning, "reasoning")
        BY <2>2 DEF Cells
      <3>2. QED
        BY <1>7, <1>11, <3>1 DEF TextCell
    <2>3. CASE key = -1
      <3>0. -1 # -2
        OBVIOUS
      <3>1. Cells(c)[key] = TextCell(c.message, "message")
        BY <2>3, <3>0 DEF Cells
      <3>2. QED
        BY <1>7, <1>11, <3>1 DEF TextCell
    <2>4. CASE key \in ToolSlots
      <3>1. key # -1 /\ key # -2
        BY <2>4, StreamAssumption DEF ToolSlots
      <3>2. Cells(c)[key] = CallCell(c.tools[key])
        BY <3>1 DEF Cells
      <3>3. QED
        BY <1>4, <1>7, <1>11, <2>4, <3>2 DEF CallCell
    <2>5. QED
      BY <2>1, <2>2, <2>3, <2>4
  <1>15. Seen(Cells(c), 0, e)
    BY <1>1, <1>11, <1>14 DEF Seen
  <1>16. Given(Cells(c), e, e, e)
    BY <1>1, <1>14 DEF Given
  <1>17. Honest(a, c)
    <2>1. Cells(c) \in [Keys -> Cell]
      BY <1>6, CellsTyped
    <2>2. QED
      BY <1>1, <1>6, <1>7, <1>9, <1>10, <1>13, <1>15, <1>16, <2>1 DEF Honest, Shows
  <1>18. Heard(c) /\ Undecided(c) /\ ~c.message.done
    BY <1>1, <1>7, <1>11 DEF Heard, HeardOf, Undecided
  <1>19. Ongoing(c)
    BY <1>4, <1>7, <1>11 DEF Ongoing
  <1>20. Telling(c) = <<>>
    <2>1. Words(e) = <<>>
      <3>1. e \in Tokens /\ \A n \in DOMAIN e : e[n] \notin Vocabulary
        BY <1>1 DEF Tokens
      <3>2. QED
        BY <3>1, WordsNone
    <2>2. e \o (e \o e) = e
      BY <1>1, Joining
    <2>3. QED
      BY <1>7, <1>11, <2>1, <2>2 DEF Telling, e
  <1>21. QED
    BY <1>6, <1>7, <1>9, <1>17, <1>18, <1>19, <1>20 DEF Telltale, a, c, e

(* What the relay has said, in words.                                      *)
SentWords(s) == Words(FlattenSeq([k \in DOMAIN s |-> s[k].content]))

(* An answer under way, or one that has ended.                             *)
UnderWay(c, a, s) ==
    /\ Telltale(a, c) /\ Ongoing(c) /\ ~c.completed /\ ~c.failed
    /\ Telling(c) = SentWords(s)
HasEnded(c, a, s) ==
    /\ c.completed /\ a.end # "none"
    /\ a.end \in {"completed", "incomplete"} => EndedWell(a, SentWords(s))
Streaming(w, c, a, s) ==
    /\ c \in Conv /\ c.out = <<>> /\ a \in AppState /\ s \in Seq(Chunks)
    /\ c.next <= 2 + Cardinality(ToolSlots)
    /\ c.mode = "text" => c.buffer = <<>>
    /\ w \in {"open", "done", "error", "eof", "broken"}
    /\ IF w = "open" THEN UnderWay(c, a, s) ELSE HasEnded(c, a, s)

(* The words of one chunk more.                                            *)
LEMMA SentMore ==
    ASSUME NEW s \in Seq(Chunks), NEW chunk \in Chunks
    PROVE  SentWords(Append(s, chunk)) = SentWords(s) \o Words(chunk.content)
  <1> DEFINE T == STRING
             t == Append(s, chunk)
             old == [k \in DOMAIN s |-> s[k].content]
             new == [k \in DOMAIN t |-> t[k].content]
             x == chunk.content
  <1>1. \A y \in Chunks : y.content \in Seq(T)
    BY StreamAssumption
  <1>2. /\ Len(s) \in Nat /\ DOMAIN s = 1..Len(s) /\ DOMAIN t = 1..(Len(s) + 1)
        /\ \A k \in 1..Len(s) : t[k] = s[k] /\ s[k] \in Chunks
        /\ t[Len(s) + 1] = chunk
    OBVIOUS
  <1> HIDE DEF t, T
  <1>3. old \in Seq(Seq(T)) /\ x \in Seq(T)
    <2>1. old \in [1..Len(s) -> Seq(T)]
      BY <1>1, <1>2
    <2>2. QED
      BY <1>1, <1>2, <2>1
  <1>4. new = Append(old, x)
    <2>1. Len(old) = Len(s)
      BY <1>2
    <2> DEFINE g == Append(old, x)
    <2>2. /\ g \in Seq(Seq(T)) /\ Len(g) = Len(s) + 1 /\ g[Len(s) + 1] = x
          /\ \A k \in 1..Len(s) : g[k] = old[k]
      BY <1>3, <2>1
    <2>3. DOMAIN g = 1..(Len(s) + 1)
      BY <1>2, <2>2
    <2>4. ASSUME NEW k \in 1..(Len(s) + 1) PROVE new[k] = g[k]
      <3>1. k \in 1..Len(s) \/ k = Len(s) + 1
        BY <1>2
      <3>2. QED
        BY <1>2, <2>2, <3>1
    <2>5. g = [k \in 1..(Len(s) + 1) |-> g[k]]
      BY <2>2, <2>3
    <2> HIDE DEF g
    <2>6. new = g
      BY <1>2, <2>4, <2>5
    <2>7. QED
      BY <2>6, Zenon DEF g
  <1> HIDE DEF old, new, x
  <1>5. FlattenSeq(new) = FlattenSeq(old) \o x
    BY <1>3, <1>4, FlattenMore
  <1>6. FlattenSeq(old) \in Tokens /\ x \in Tokens
    BY <1>3, FlattenHolds, Zenon DEF Tokens, T
  <1>7. Words(FlattenSeq(old) \o x) = Words(FlattenSeq(old)) \o Words(x)
    BY <1>6, WordsJoin
  <1>8. QED
    BY <1>5, <1>7, Zenon DEF SentWords, old, new, x, t

(* A relay keeps its word, as far as calls are concerned that are announced. *)
KeepsWith(c, deltas) ==
    \A k \in DOMAIN deltas :
        LET d == deltas[k]
            t == c.tools[d.index]
        IN  /\ d.id \in Ids => ~t.here \/ t.id = d.id
            /\ d.id = Blank => t.id = NoId
            /\ d.name # NoName => t.name \in {NoName, d.name}

(* A chunk of a relay that keeps its word can be taken.                    *)
LEMMA CanBeTaken ==
    ASSUME NEW c \in Conv, Tidy(c), NEW chunk \in Chunks, KeepsWith(c, chunk.tools)
    PROVE  Takeable(c, chunk)
  <1>1. /\ chunk.reasoning \in Tokens /\ chunk.content \in Tokens /\ chunk.finish \in STRING
        /\ chunk.tools \in Seq(ToolDelta) /\ Apart(chunk.tools)
    BY StreamAssumption DEF Tokens, Apart
  <1>2. Words(chunk.reasoning) = <<>>
    <2>1. ToSet(chunk.reasoning) \intersect Vocabulary = {}
      BY TalkAssumption
    <2>2. \A n \in DOMAIN chunk.reasoning : chunk.reasoning[n] \notin Vocabulary
      BY <2>1 DEF ToSet
    <2>3. QED
      BY <1>1, <2>2, WordsNone
  <1>3. ASSUME NEW k \in DOMAIN chunk.tools
        PROVE  Keeps(c.tools[chunk.tools[k].index], chunk.tools[k])
    <2> DEFINE d == chunk.tools[k]
               t == c.tools[d.index]
    <2>1. d \in ToolDelta
      BY <1>1
    <2>2. d.index \in ToolSlots
      BY <2>1 DEF ToolDelta
    <2>3. NamedCall(t)
      BY <2>2 DEF Tidy
    <2>4. /\ d.id \in Ids => ~t.here \/ t.id = d.id
          /\ d.id = Blank => t.id = NoId
          /\ d.id \in Ids \cup {NoId, Blank}
      BY <2>1 DEF KeepsWith, ToolDelta
    <2>5. d.name # NoName => t.name \in {NoName, d.name}
      BY DEF KeepsWith
    <2> HIDE DEF d, t
    <2>6. Keeps(t, d)
      BY <2>3, <2>4, <2>5 DEF Keeps, NamedCall
    <2>7. QED
      BY <2>6 DEF d, t
  <1>4. QED
    BY <1>1, <1>2, <1>3 DEF Takeable

(* A chunk goes by.                                                        *)
LEMMA ChunkStreams ==
    ASSUME NEW c, NEW a, NEW s, Streaming("open", c, a, s), NEW chunk \in Chunks,
           KeepsWith(c, chunk.tools), NEW p, p = TakeChunk(c, chunk), NEW d, d = Unread(p),
           NEW b, b = HasRead(a, p), NEW t, t = Append(s, chunk)
    PROVE  Streaming("open", d, b, t)
  <1>1. /\ c \in Conv /\ s \in Seq(Chunks) /\ Telltale(a, c) /\ Ongoing(c)
        /\ ~c.completed /\ ~c.failed /\ Telling(c) = SentWords(s)
    BY DEF Streaming, UnderWay
  <1>2. Takeable(c, chunk)
    <2>1. Tidy(c)
      BY <1>1 DEF Telltale, Honest
    <2>2. QED
      BY <1>1, <2>1, CanBeTaken
  <1>3. /\ Telltale(a, p) /\ SameEnd(p, c) /\ Ongoing(p)
        /\ Telling(p) = Telling(c) \o Words(chunk.content)
    BY <1>1, <1>2, TakeChunkTells, Zenon
  <1>4. /\ Telltale(b, d) /\ Telling(d) = Telling(p) /\ SameEnd(d, p)
        /\ Ongoing(d) /\ b \in AppState
    BY <1>3, ReadsOn
  <1>5. SentWords(t) = SentWords(s) \o Words(chunk.content) /\ t \in Seq(Chunks)
    BY <1>1, SentMore
  <1>6. UnderWay(d, b, t)
    BY <1>1, <1>3, <1>4, <1>5 DEF UnderWay, SameEnd
  <1>7. d \in Conv /\ d.out = <<>>
    <2>1. p \in Conv
      BY <1>3 DEF Telltale, Honest
    <2>2. QED
      BY <2>1, UnreadIs
  <1>8. d.next <= 2 + Cardinality(ToolSlots)
    <2>1. /\ Cells(d) \in [Keys -> Cell] /\ d.next \in Nat
          /\ Seen(Cells(d), d.next, HasRead(b, d).live)
      BY <1>4 DEF Telltale, Honest, Shows
    <2>2. QED
      BY <2>1, AnnouncedFew
  <1>9. d.mode = "text" => d.buffer = <<>>
    BY <1>4 DEF Telltale, Undecided
  <1>10. QED
    BY <1>4, <1>5, <1>6, <1>7, <1>8, <1>9 DEF Streaming

(* It begins with nothing said.                                            *)
LEMMA StreamingBegins ==
    Streaming("open", NewStream, NoAnswer, <<>>)
  <1> DEFINE T == STRING
             e == <<>>
             none == [k \in DOMAIN e |-> e[k].content]
  <1>1. e \in Seq(Chunks) /\ e \in Seq(T) /\ e \in Seq(Seq(T)) /\ Len(e) = 0 /\ DOMAIN e = {}
    OBVIOUS
  <1>2. none = e
    OBVIOUS
  <1>3. FlattenSeq(e) = <<>>
    BY DEF FlattenSeq, e
  <1>4. Words(e) = <<>>
    <2>1. e \in Tokens /\ \A n \in DOMAIN e : e[n] \notin Vocabulary
      BY <1>1 DEF Tokens
    <2>2. QED
      BY <2>1, WordsNone
  <1>5. SentWords(e) = <<>>
    BY <1>2, <1>3, <1>4 DEF SentWords
  <1>6. 0 <= 2 + Cardinality(ToolSlots)
    <2>1. Cardinality(ToolSlots) \in Nat
      <3>1. IsFiniteSet(ToolSlots)
        BY StreamAssumption, FS_Interval DEF ToolSlots
      <3>2. QED
        BY <3>1, FS_CardinalityType
    <2>2. QED
      BY <2>1
  <1>7. QED
    BY <1>1, <1>5, <1>6, TellsNothing DEF Streaming, UnderWay

Endings == {"done", "error", "eof", "broken"}

(* The answer is ended while it is under way.                              *)
LEMMA StreamingCloses ==
    ASSUME NEW c, NEW a, NEW s, Streaming("open", c, a, s), NEW w \in Endings,
           NEW p, p = Finalize(c), NEW d, d = Unread(p), NEW b, b = HasRead(a, p)
    PROVE  Streaming(w, d, b, s)
  <1>1. /\ Telltale(a, c) /\ ~c.completed /\ Telling(c) = SentWords(s) /\ s \in Seq(Chunks)
    BY DEF Streaming, UnderWay
  <1>2. /\ p \in Conv /\ p.completed /\ p.buffer = <<>>
        /\ p.next <= 2 + Cardinality(ToolSlots)
        /\ b \in AppState /\ b.end \in {"completed", "incomplete"}
        /\ EndedWell(b, Telling(c))
    BY <1>1, FinalizeTells
  <1>3. d \in Conv /\ d.out = <<>> /\ SameTexts(d, p) /\ d.completed = p.completed
    BY <1>2, UnreadIs, Zenon
  <1>4. HasEnded(d, b, s)
    BY <1>1, <1>2, <1>3 DEF HasEnded
  <1>5. w # "open" /\ w \in {"open", "done", "error", "eof", "broken"}
    BY DEF Endings
  <1>6. d.next <= 2 + Cardinality(ToolSlots) /\ d.buffer = <<>>
    BY <1>2, <1>3 DEF SameTexts
  <1>7. QED
    BY <1>1, <1>2, <1>3, <1>4, <1>5, <1>6 DEF Streaming

(* The converter gives up.                                                 *)
FailedFor(c) == [Failed(c) EXCEPT !.failed = TRUE]

(* Only the mark of failure is set.                                        *)
LEMMA FailedIs ==
    ASSUME NEW q \in Conv, NEW p, p = [q EXCEPT !.failed = TRUE]
    PROVE  /\ p \in Conv /\ p.out = q.out /\ p.completed = q.completed
           /\ p.next = q.next /\ p.mode = q.mode /\ p.buffer = q.buffer
  BY Zenon DEF Conv

(* An answer that is given up under way has ended, and not well.           *)
LEMMA StreamingFails ==
    ASSUME NEW c, NEW a, NEW s, Streaming("open", c, a, s), NEW w \in Endings,
           NEW p, p = FailedFor(c), NEW d, d = Unread(p), NEW b, b = HasRead(a, p)
    PROVE  Streaming(w, d, b, s)
  <1> DEFINE q == Ending(c, "failed")
  <1>1. /\ Telltale(a, c) /\ s \in Seq(Chunks) /\ c.next <= 2 + Cardinality(ToolSlots)
        /\ c.mode = "text" => c.buffer = <<>>
    BY DEF Streaming, UnderWay
  <1>2. p = [q EXCEPT !.failed = TRUE]
    BY DEF FailedFor, Failed, Ending
  <1>3. /\ q \in Conv /\ q.completed /\ SameTexts(q, c)
        /\ HasRead(a, q) \in AppState /\ HasRead(a, q).end = "failed"
    <2>1. Honest(a, c)
      BY <1>1 DEF Telltale
    <2>2. QED
      BY <2>1, EndingTells
  <1> HIDE DEF q
  <1>4. /\ p \in Conv /\ p.out = q.out /\ p.completed
        /\ p.next = q.next /\ p.mode = q.mode /\ p.buffer = q.buffer
    BY <1>2, <1>3, FailedIs
  <1>5. d \in Conv /\ d.out = <<>> /\ SameTexts(d, p) /\ d.completed = p.completed
    BY <1>4, UnreadIs, Zenon
  <1>6. b = HasRead(a, q)
    BY <1>4 DEF HasRead
  <1>7. HasEnded(d, b, s)
    BY <1>3, <1>4, <1>5, <1>6 DEF HasEnded
  <1>8. w # "open" /\ w \in {"open", "done", "error", "eof", "broken"}
    BY DEF Endings
  <1>9. d.next <= 2 + Cardinality(ToolSlots) /\ (d.mode = "text" => d.buffer = <<>>)
    BY <1>1, <1>3, <1>4, <1>5 DEF SameTexts
  <1>10. QED
    BY <1>1, <1>3, <1>5, <1>6, <1>7, <1>8, <1>9 DEF Streaming

(* After that the converter has nothing to say.                            *)
LEMMA StreamingStays ==
    ASSUME NEW c, NEW a, NEW s, NEW v \in Endings, Streaming(v, c, a, s), NEW w \in Endings,
           NEW d, d = Unread(c), NEW b, b = HasRead(a, c)
    PROVE  Streaming(w, d, b, s) /\ Finalize(c) = c
  <1>1. v # "open" /\ w # "open" /\ w \in {"open", "done", "error", "eof", "broken"}
    BY DEF Endings
  <1>2. /\ c \in Conv /\ c.out = <<>> /\ a \in AppState /\ s \in Seq(Chunks)
        /\ c.next <= 2 + Cardinality(ToolSlots)
        /\ c.mode = "text" => c.buffer = <<>>
        /\ HasEnded(c, a, s)
    BY <1>1 DEF Streaming
  <1>3. d \in Conv /\ d.out = <<>> /\ SameTexts(d, c) /\ d.completed = c.completed
    BY <1>2, UnreadIs
  <1>4. b = a
    BY <1>2, ReceiveNone DEF HasRead
  <1>5. HasEnded(d, b, s)
    BY <1>2, <1>3, <1>4 DEF HasEnded
  <1>6. Finalize(c) = c
    BY <1>2 DEF HasEnded, Finalize
  <1>7. QED
    BY <1>1, <1>2, <1>3, <1>4, <1>5, <1>6 DEF Streaming, SameTexts

(* Nor does the app listen.                                                *)
LEMMA StreamingOver ==
    ASSUME NEW c, NEW a, NEW s, NEW v \in Endings, Streaming(v, c, a, s), NEW w \in Endings,
           NEW p, p = FailedFor(c), NEW d, d = Unread(p), NEW b, b = HasRead(a, p)
    PROVE  Streaming(w, d, b, s)
  <1> DEFINE q == Ending(c, "failed")
             r == [c EXCEPT !.completed = TRUE]
             e == Closing("failed", OutputItems(c))
  <1>1. v # "open" /\ w # "open" /\ w \in {"open", "done", "error", "eof", "broken"}
    BY DEF Endings
  <1>2. /\ c \in Conv /\ c.out = <<>> /\ a \in AppState /\ s \in Seq(Chunks)
        /\ c.next <= 2 + Cardinality(ToolSlots)
        /\ c.mode = "text" => c.buffer = <<>>
        /\ HasEnded(c, a, s)
    BY <1>1 DEF Streaming
  <1>3. e \in Event
    <2>1. c.items \in Seq(PlacedItem) /\ c.next \in Nat
      BY <1>2 DEF Conv
    <2>2. OutputItems(c) \in Seq(AnswerItem)
      BY <2>1, OutputItemsAre
    <2>3. QED
      BY <2>2 DEF Event, Closing
  <1>4. /\ r \in Conv /\ r.completed /\ r.out = c.out /\ r.next = c.next /\ r.mode = c.mode
        /\ r.buffer = c.buffer
    BY <1>2, Zenon DEF Conv
  <1>5. q = Emit(r, e)
    BY DEF Ending
  <1>6. p = [q EXCEPT !.failed = TRUE]
    BY DEF FailedFor, Failed, Ending
  <1> HIDE DEF q, r, e
  <1>7. /\ q \in Conv /\ q.completed /\ q.next = c.next /\ q.mode = c.mode
        /\ q.buffer = c.buffer /\ q.out = Append(r.out, e)
    BY <1>3, <1>4, <1>5, EmitIs, Zenon
  <1>8. /\ p \in Conv /\ p.out = q.out /\ p.completed
        /\ p.next = q.next /\ p.mode = q.mode /\ p.buffer = q.buffer
    BY <1>6, <1>7, FailedIs
  <1>9. d \in Conv /\ d.out = <<>> /\ SameTexts(d, p) /\ d.completed = p.completed
    BY <1>8, UnreadIs, Zenon
  <1>10. b = a
    <2>1. HasRead(a, q) = Receive(HasRead(a, r), e)
      BY <1>2, <1>3, <1>4, <1>5, EmitRead
    <2>2. HasRead(a, r) = a
      BY <1>2, <1>4, ReceiveNone DEF HasRead
    <2>3. Receive(a, e) = a
      BY <1>2 DEF Receive, HasEnded
    <2>4. b = HasRead(a, q)
      BY <1>8 DEF HasRead
    <2>5. QED
      BY <2>1, <2>2, <2>3, <2>4
  <1>11. HasEnded(d, b, s)
    BY <1>2, <1>8, <1>9, <1>10 DEF HasEnded
  <1>12. QED
    BY <1>1, <1>2, <1>7, <1>8, <1>9, <1>10, <1>11 DEF Streaming, SameTexts

(* The answer, whoever is at the wire.                                     *)
StreamInv == Streaming(wire, conv, app, sent)

(* A new stream is one under way of which nothing was said.                *)
LEMMA StreamInvInit ==
    ASSUME StreamInit PROVE StreamInv
  <1>1. Streaming("open", NewStream, NoAnswer, <<>>)
    BY StreamingBegins
  <1>2. QED
    BY <1>1 DEF StreamInit, StreamInv

(* Writing is reading on both sides.                                       *)
LEMMA WriteIs ==
    ASSUME NEW p, Write(p)
    PROVE  conv' = Unread(p) /\ app' = HasRead(app, p)
  BY DEF Write, Unread, HasRead

(* Chunks, the marker, errors and both ends of the connection keep it so.  *)
LEMMA StreamInvStep ==
    ASSUME StreamInv, StreamNext PROVE StreamInv'
  <1> USE DEF StreamInv
  <1>1. CASE Chunk
    <2>1. wire = "open" /\ wire' = "open"
      BY <1>1 DEF Chunk
    <2>2. PICK chunk \in Chunks : /\ KeepsItsWord(chunk.tools)
                                  /\ sent' = Append(sent, chunk)
                                  /\ Write(TakeChunk(conv, chunk))
      BY <1>1 DEF Chunk
    <2>3. KeepsWith(conv, chunk.tools)
      BY <2>2 DEF KeepsItsWord, KeepsWith
    <2> DEFINE p == TakeChunk(conv, chunk)
    <2>4. conv' = Unread(p) /\ app' = HasRead(app, p)
      BY <2>2, WriteIs
    <2>5. Streaming("open", conv, app, sent)
      BY <2>1
    <2>6. Streaming("open", conv', app', sent')
      BY <2>2, <2>3, <2>4, <2>5, ChunkStreams, Zenon
    <2>7. QED
      BY <2>1, <2>6
  <1> DEFINE closing == Finalize(conv)
             failing == FailedFor(conv)
  <1>2. ASSUME wire = "open", NEW w \in Endings, wire' = w, sent' = sent,
               Write(closing) \/ Write(failing)
        PROVE  StreamInv'
    <2>1. Streaming("open", conv, app, sent)
      BY <1>2
    <2>2. CASE Write(closing)
      <3>1. conv' = Unread(closing) /\ app' = HasRead(app, closing)
        BY <2>2, WriteIs
      <3>2. Streaming(w, conv', app', sent)
        BY <2>1, <3>1, StreamingCloses
      <3>3. QED
        BY <1>2, <3>2
    <2>3. CASE Write(failing)
      <3>1. conv' = Unread(failing) /\ app' = HasRead(app, failing)
        BY <2>3, WriteIs
      <3>2. Streaming(w, conv', app', sent)
        BY <2>1, <3>1, StreamingFails
      <3>3. QED
        BY <1>2, <3>2
    <2>4. QED
      BY <1>2, <2>2, <2>3
  <1>3. ASSUME NEW v \in Endings, wire = v, NEW w \in Endings, wire' = w, sent' = sent,
               Write(conv) \/ Write(closing) \/ Write(failing)
        PROVE  StreamInv'
    <2>1. Streaming(v, conv, app, sent)
      BY <1>3
    <2>2. CASE Write(conv) \/ Write(closing)
      <3> DEFINE d == Unread(conv)
                 b == HasRead(app, conv)
      <3>1. Streaming(w, d, b, sent) /\ closing = conv
        BY <2>1, StreamingStays
      <3> HIDE DEF closing
      <3>2. Write(conv)
        BY <2>2, <3>1
      <3>3. conv' = d /\ app' = b
        BY <3>2, WriteIs
      <3>4. QED
        BY <1>3, <3>1, <3>3
    <2>3. CASE Write(failing)
      <3>1. conv' = Unread(failing) /\ app' = HasRead(app, failing)
        BY <2>3, WriteIs
      <3>2. Streaming(w, conv', app', sent)
        BY <2>1, <3>1, StreamingOver
      <3>3. QED
        BY <1>3, <3>2
    <2>4. QED
      BY <1>3, <2>2, <2>3
  <1>4. CASE DoneMarker
    <2>1. /\ wire = "open" \/ wire \in Endings
          /\ wire' \in Endings /\ sent' = sent /\ Write(closing)
      BY <1>4 DEF DoneMarker, Endings
    <2>2. QED
      BY <1>2, <1>3, <2>1
  <1>5. CASE ErrorEvent
    <2>1. /\ wire = "open"
          /\ wire' \in Endings /\ sent' = sent /\ Write(failing)
      BY <1>5 DEF ErrorEvent, Endings, FailedFor
    <2>2. QED
      BY <1>2, <2>1
  <1>6. CASE Eof
    <2>1. /\ wire = "open" \/ wire \in Endings
          /\ wire' \in Endings /\ sent' = sent
          /\ Write(IF conv.failed THEN conv ELSE closing)
      BY <1>6 DEF Eof, Endings
    <2>2. CASE wire = "open"
      <3>1. ~conv.failed
        BY <2>2 DEF Streaming, UnderWay
      <3>2. QED
        BY <1>2, <2>1, <2>2, <3>1
    <2>3. CASE wire \in Endings
      <3>1. Write(conv) \/ Write(closing)
        BY <2>1
      <3>2. QED
        BY <1>3, <2>1, <2>3, <3>1
    <2>4. QED
      BY <2>1, <2>2, <2>3
  <1>7. CASE Broken
    <2>1. /\ wire = "open" \/ wire \in Endings
          /\ wire' \in Endings /\ sent' = sent /\ Write(failing)
      BY <1>7 DEF Broken, Endings, FailedFor
    <2>2. QED
      BY <1>2, <1>3, <2>1
  <1>8. QED
    BY <1>1, <1>4, <1>5, <1>6, <1>7 DEF StreamNext

(* What the app is given is of its kind.                                   *)
LEMMA AppTyped ==
    ASSUME StreamInv PROVE app \in AppState /\ app.items \in Seq(AnswerItem)
  BY DEF StreamInv, Streaming, AppState

(* The history and the converter's loop over it: the calls that may not be *)
(* answered are those that are open.                                       *)
Folding(s, d) == s \in Seq(Written) /\ d \in Draft /\ Loose(d, OpenCalls(s, Len(s)))

(* With the instructions alone no call is open.                            *)
LEMMA FoldingBegins ==
    Folding(<<>>, H!Start)
  <1> DEFINE e == <<>>
             x == H!Message("system", <<<<"instructions">>>>)
             m == <<x>>
             d == H!Start
  <1>1. e \in Seq(Written) /\ e \in Seq(AnyIds) /\ e \in Seq(Nat) /\ Len(e) = 0 /\ Range(e) = {}
    BY DEF Range
  <1>2. x \in ChatMessage /\ x.calls = <<>> /\ x.role = "system"
    <2>1. <<<<"instructions">>>> \in Seq(Marks)
      BY DEF Marks
    <2>2. "system" \in Roles
      BY DEF Roles
    <2>3. x.role = "system"
      BY DEF H!Message
    <2>4. QED
      BY <2>1, <2>2, <2>3, MessageTyped, Zenon
  <1> HIDE DEF x
  <1>3. m \in Seq(ChatMessage) \ {<<>>} /\ Len(m) = 1 /\ m[1] = x /\ DOMAIN m = 1..1
    BY <1>2
  <1>4. d = [messages |-> m, calls |-> e, reasoning |-> e, seen |-> {}]
    BY DEF H!Start, x
  <1> HIDE DEF m
  <1>5. d \in Draft /\ d.messages = m /\ d.calls = e
    BY <1>1, <1>3, <1>4 DEF Draft
  <1> HIDE DEF d
  <1>6. CallsWithAssistant(m) /\ LastOpen(m, {})
    BY <1>1, <1>2, <1>3 DEF CallsWithAssistant, LastOpen, Range
  <1>7. Loose(d, {})
    BY <1>1, <1>5, <1>6 DEF Loose
  <1>8. QED
    BY <1>1, <1>5, <1>7, LooseGrows DEF Folding, d

(* One item more.                                                          *)
LEMMA FoldingTakes ==
    ASSUME NEW s, NEW d, Folding(s, d), NEW item \in Written
    PROVE  Folding(Append(s, item), H!Take(d, item))
  <1> DEFINE t == Append(s, item)
             n == Len(s)
             E == OpenCalls(s, n)
             F == OpenCalls(t, n + 1)
             p == H!Take(d, item)
  <1>1. s \in Seq(Written) /\ d \in Draft /\ Loose(d, E)
    BY DEF Folding
  <1>2. /\ n \in Nat /\ t \in Seq(Written) /\ Len(t) = n + 1 /\ t[n + 1] = item
        /\ \A i \in 1..n : s[i] = t[i]
    BY <1>1
  <1>3. item \in ItemsOf /\ (item.type = "message" => item.role # "tool")
    BY DEF Written
  <1>4. p \in Draft /\ Loose(p, OpenAfter(E, item))
    BY <1>1, <1>3, TakeLoose
  <1> HIDE DEF t, n, p
  <1>5. OpenAfter(OpenCalls(t, n), t[n + 1]) \subseteq OpenCalls(t, n + 1)
    BY <1>2, OpenCallsGrow
  <1>6. OpenCalls(s, n) = OpenCalls(t, n)
    BY <1>2, OpenCallsSame
  <1>7. OpenAfter(E, item) \subseteq F
    BY <1>2, <1>5, <1>6
  <1> HIDE DEF E, F
  <1>8. Loose(p, F)
    BY <1>4, <1>7, LooseGrows
  <1>9. QED
    BY <1>2, <1>4, <1>8 DEF Folding, F, t, p

(* A whole answer more, and what its calls gave.                           *)
LEMMA FoldingTakesAll ==
    ASSUME NEW s, NEW d, Folding(s, d), NEW new \in Seq(Written)
    PROVE  Folding(s \o new, H!TakeAll(d, new))
  <1>1. s \in Seq(Written) /\ d \in Draft /\ Loose(d, OpenCalls(s, Len(s)))
    BY DEF Folding
  <1>2. /\ H!TakeAll(d, new) \in Draft
        /\ Loose(H!TakeAll(d, new), OpenCalls(s \o new, Len(s) + Len(new)))
    BY <1>1, TakeAllLoose
  <1>3. s \o new \in Seq(Written) /\ Len(s \o new) = Len(s) + Len(new)
    BY <1>1
  <1>4. QED
    BY <1>2, <1>3 DEF Folding

(* What the app may write.                                                 *)
LEMMA AppWrites ==
    ASSUME items \in Seq(Written), NEW item \in AppItems PROVE item \in Written
  <1>1. Here \in Nat
    BY DEF Here
  <1>2. Ids \subseteq AnyIds /\ NoId \in AnyIds
    BY DEF AnyIds
  <1>3. CASE item = Reasoning(Here)
    BY <1>1, <1>2, <1>3 DEF Item, Reasoning, Written, ItemsOf, Roles
  <1>4. ASSUME NEW role \in {"user", "assistant", "system"}, item = Says(role, Here)
        PROVE  item \in Written
    BY <1>1, <1>2, <1>4 DEF Item, Says, Written, ItemsOf, Roles
  <1>5. ASSUME NEW id \in Ids, item = CallOf(id, Here) PROVE item \in Written
    BY <1>1, <1>2, <1>5 DEF Item, CallOf, Written, ItemsOf, Roles
  <1>6. ASSUME NEW id \in Ids, NEW image \in BOOLEAN, item = OutputOf(id, image, Here)
        PROVE  item \in Written
    BY <1>1, <1>2, <1>6 DEF Item, OutputOf, Written, ItemsOf, Roles
  <1>7. QED
    BY <1>3, <1>4, <1>5, <1>6 DEF AppItems

(* What it keeps of an answer.                                             *)
LEMMA KeptWritten ==
    ASSUME NEW item \in AnswerItem, NEW at \in Nat
    PROVE  Kept(item, at) \in Written
  <1>1. item.kind \in {"reasoning", "message", "call"}
    BY DEF AnswerItem, TextRecord, CallRecord, TextKinds
  <1>2. NoId \in AnyIds /\ (item.kind = "call" => item.id[2] \in AnyIds)
    BY DEF AnswerItem, TextRecord, CallRecord, TextKinds, CallIds, AnyIds
  <1>3. CASE item.kind = "reasoning"
    BY <1>2, <1>3 DEF Kept, Item, Reasoning, Written, ItemsOf, Roles
  <1>4. CASE item.kind = "message"
    BY <1>2, <1>4 DEF Kept, Item, Says, Written, ItemsOf, Roles
  <1>5. CASE item.kind = "call"
    BY <1>2, <1>5 DEF Kept, Item, CallOf, Written, ItemsOf, Roles
  <1>6. QED
    BY <1>1, <1>3, <1>4, <1>5

(* The answer kept, and the outputs of its calls, are folded like any      *)
(* other items.                                                            *)
LEMMA FoldingEnds ==
    ASSUME NEW s, NEW d, Folding(s, d), NEW its \in Seq(AnswerItem), NEW image \in BOOLEAN,
           NEW n, n = Len(s), NEW kept, kept = [k \in DOMAIN its |-> Kept(its[k], n + k)],
           NEW calls, calls = H!Within(kept, {item \in ToSet(kept) : item.type = "call"}),
           NEW outputs, outputs = [k \in DOMAIN calls |->
                                      OutputOf(calls[k].id, image, n + Len(kept) + k)]
    PROVE  Folding(s \o kept \o outputs, H!TakeAll(d, kept \o outputs))
  <1> DEFINE S == {item \in ToSet(kept) : item.type = "call"}
             N == Len(its)
             M == Len(calls)
  <1>1. n \in Nat /\ N \in Nat /\ DOMAIN its = 1..N /\ s \in Seq(Written)
    BY DEF Folding
  <1>2. \A k \in 1..N : Kept(its[k], n + k) \in Written
    <2> SUFFICES ASSUME NEW k \in 1..N PROVE Kept(its[k], n + k) \in Written
      OBVIOUS
    <2>1. its[k] \in AnswerItem /\ n + k \in Nat
      BY <1>1
    <2>2. QED
      BY <2>1, KeptWritten
  <1>3. kept \in Seq(Written)
    <2>1. kept \in [1..N -> Written]
      BY <1>1, <1>2, Zenon
    <2>2. QED
      BY <1>1, <2>1
  <1>4. Len(kept) \in Nat
    BY <1>3
  <1> HIDE DEF S
  <1>5. calls \in Seq(Written)
    BY <1>3, Sifts DEF S
  <1>6. M \in Nat /\ DOMAIN calls = 1..M
    BY <1>5
  <1>7. \A k \in 1..M : OutputOf(calls[k].id, image, n + Len(kept) + k) \in Written
    <2> SUFFICES ASSUME NEW k \in 1..M
                 PROVE  OutputOf(calls[k].id, image, n + Len(kept) + k) \in Written
      BY Zenon
    <2>1. calls[k] \in Written /\ n + Len(kept) + k \in Nat
      BY <1>1, <1>4, <1>5, <1>6
    <2>2. calls[k].id \in AnyIds
      BY <2>1 DEF Written, ItemsOf
    <2>3. QED
      BY <2>1, <2>2 DEF OutputOf, Item, Written, ItemsOf, Roles
  <1>8. outputs \in Seq(Written)
    <2> HIDE DEF M
    <2>1. outputs \in [1..M -> Written]
      BY <1>6, <1>7
    <2>2. QED
      BY <1>6, <2>1, Sequenced, Zenon
  <1>9. kept \o outputs \in Seq(Written) /\ s \o kept \o outputs = s \o (kept \o outputs)
    BY <1>1, <1>3, <1>8, Joining
  <1>10. QED
    BY <1>9, FoldingTakesAll, Zenon

(* Whoever is to be answered is, or may still be.                          *)
LEMMA FoldingAnswers ==
    ASSUME Folding(items, draft) PROVE CallsAnswered
  <1> DEFINE m == H!ChatMessages(draft)
             n == Len(items)
             E == OpenCalls(items, n)
  <1>1. draft \in Draft /\ items \in Seq(Written) /\ Loose(draft, E)
    BY DEF Folding
  <1>2. n \in Nat /\ DOMAIN items = 1..n
    BY <1>1
  <1>3. m \in Seq(ChatMessage) /\ Settled(m, E)
    BY <1>1, ChatMessagesSettled
  <1> HIDE DEF m
  <1> SUFFICES ASSUME NEW i \in DOMAIN m, NEW k \in DOMAIN m[i].calls
               PROVE  \/ m[i].calls[k] \in H!Answered(m, i)
                      \/ \E j \in DOMAIN items :
                            /\ items[j].type = "call" /\ items[j].id = m[i].calls[k]
                            /\ Pending(j)
    BY DEF CallsAnswered, m
  <1> DEFINE c == m[i].calls[k]
  <1>4. c \in Range(m[i].calls)
    BY DEF Range
  <1> HIDE DEF c
  <1>5. c \in E \/ \E j \in DOMAIN m : Follows(m, i, j) /\ m[j].id = c
    BY <1>3, <1>4 DEF Settled
  <1>6. CASE c \in E
    <2>1. PICK j \in 1..n : /\ items[j].id = c /\ items[j].type = "call"
                            /\ \A h \in (j + 1)..n : items[h].type # "message"
      BY <1>6 DEF OpenCalls
    <2>2. Pending(j)
      BY <2>1 DEF Pending
    <2>3. QED
      BY <1>2, <2>1, <2>2 DEF c
  <1>7. CASE \E j \in DOMAIN m : Follows(m, i, j) /\ m[j].id = c
    <2>1. H!Answered(m, i) = {m[j].id : j \in {h \in DOMAIN m : Follows(m, i, h)}}
      BY <1>3, AnsweredIs
    <2>2. c \in H!Answered(m, i)
      BY <1>7, <2>1
    <2>3. QED
      BY <2>2 DEF c
  <1>8. QED
    BY <1>5, <1>6, <1>7

(* The inductive invariant: the answer goes well, the history is folded    *)
(* with no call open but those that may still be answered.                 *)
TalkInv ==
    /\ StreamInv
    /\ Folding(items, draft)
    /\ turn \in {"app", "relay", "over"}

(* It holds at the start.                                                  *)
LEMMA TalkInvInit ==
    ASSUME TalkInit PROVE TalkInv
  <1>1. StreamInv
    BY StreamInvInit DEF TalkInit
  <1>2. Folding(items, draft)
    BY FoldingBegins DEF TalkInit
  <1>3. QED
    BY <1>1, <1>2 DEF TalkInit, TalkInv

(* The history is no part of the stream.                                   *)
LEMMA StreamInvStays ==
    ASSUME StreamInv, UNCHANGED streamVars PROVE StreamInv'
  BY DEF StreamInv, streamVars

(* Every step of the app and of the relay keeps it.                        *)
LEMMA TalkInvStep ==
    ASSUME TalkInv, [TalkNext]_talkVars PROVE TalkInv'
  <1>1. StreamInv /\ Folding(items, draft) /\ turn \in {"app", "relay", "over"}
    BY DEF TalkInv
  <1>2. CASE AddItem
    <2>1. turn' = turn /\ UNCHANGED streamVars
      BY <1>2 DEF AddItem
    <2>2. PICK item \in AppItems : /\ items' = Append(items, item)
                                   /\ draft' = H!Take(draft, item)
      BY <1>2 DEF AddItem
    <2>3. item \in Written
      BY <1>1, AppWrites DEF Folding
    <2>4. Folding(Append(items, item), H!Take(draft, item))
      BY <1>1, <2>3, FoldingTakes
    <2>5. Folding(items', draft')
      BY <2>2, <2>4
    <2>6. StreamInv'
      BY <1>1, <2>1, StreamInvStays
    <2>7. QED
      BY <1>1, <2>1, <2>5, <2>6 DEF TalkInv
  <1>3. CASE BeginTurn
    <2>1. StreamInv'
      BY <1>1, <1>3, StreamInvStays DEF BeginTurn
    <2>2. QED
      BY <1>1, <1>3, <2>1 DEF BeginTurn, TalkInv
  <1>4. CASE Answering
    <2>1. StreamInv'
      BY <1>1, <1>4, StreamInvStep DEF Answering
    <2>2. QED
      BY <1>1, <1>4, <2>1 DEF Answering, TalkInv
  <1>5. CASE EndTurn
    <2>1. StreamInv' /\ turn' = "over"
      BY <1>1, <1>5, StreamInvStays DEF EndTurn
    <2> DEFINE n == Len(items)
               kept == [k \in DOMAIN app.items |-> Kept(app.items[k], n + k)]
               calls == H!Within(kept, {item \in ToSet(kept) : item.type = "call"})
               outputs(image) == [k \in DOMAIN calls |->
                                     OutputOf(calls[k].id, image, n + Len(kept) + k)]
    <2>2. PICK image \in BOOLEAN : /\ items' = items \o kept \o outputs(image)
                                   /\ draft' = H!TakeAll(draft, kept \o outputs(image))
      BY <1>5, Zenon DEF EndTurn
    <2>3. app.items \in Seq(AnswerItem)
      BY <1>1, AppTyped
    <2>4. Folding(items \o kept \o outputs(image), H!TakeAll(draft, kept \o outputs(image)))
      <3> DEFINE its == app.items
                 out == outputs(image)
      <3>1. /\ n = Len(items) /\ kept = [k \in DOMAIN its |-> Kept(its[k], n + k)]
            /\ calls = H!Within(kept, {item \in ToSet(kept) : item.type = "call"})
            /\ out = [k \in DOMAIN calls |->
                         OutputOf(calls[k].id, image, n + Len(kept) + k)]
        OBVIOUS
      <3>2. its \in Seq(AnswerItem) /\ image \in BOOLEAN /\ Folding(items, draft)
        BY <1>1, <2>3
      <3> HIDE DEF out, calls, kept, n, its
      <3>3. Folding(items \o kept \o out, H!TakeAll(draft, kept \o out))
        BY <3>1, <3>2, FoldingEnds
      <3>4. QED
        BY <3>3 DEF out
    <2>5. Folding(items', draft')
      BY <2>2, <2>4, Zenon
    <2>6. QED
      BY <2>1, <2>5 DEF TalkInv
  <1>6. CASE UNCHANGED talkVars
    <2>1. StreamInv'
      BY <1>1, <1>6, StreamInvStays DEF talkVars, streamVars
    <2>2. QED
      BY <1>1, <1>6, <2>1 DEF talkVars, TalkInv
  <1>7. QED
    BY <1>2, <1>3, <1>4, <1>5, <1>6 DEF TalkNext

(* What is promised follows from it.                                       *)
LEMMA TalkInvSound ==
    ASSUME TalkInv PROVE CallsAnswered /\ StreamSound
  <1>1. CallsAnswered
    BY FoldingAnswers DEF TalkInv
  <1>2. Streaming(wire, conv, app, sent) /\ turn \in {"app", "relay", "over"}
    BY DEF TalkInv, StreamInv
  <1>3. TalkTypeOK
    <2>1. conv \in Conv /\ app \in AppState
      BY <1>2 DEF Streaming
    <2>2. conv.next \in Nat /\ conv.mode \in {"detecting", "reasoning", "text"}
          /\ app.end \in {"none", "completed", "incomplete", "failed"}
      BY <2>1 DEF Conv, AppState
    <2>3. Cardinality(ToolSlots) \in Nat
      <3>1. IsFiniteSet(ToolSlots)
        BY StreamAssumption, FS_Interval DEF ToolSlots
      <3>2. QED
        BY <3>1, FS_CardinalityType
    <2>4. conv.next \in 0 .. 2 + Cardinality(ToolSlots)
      BY <1>2, <2>2, <2>3 DEF Streaming
    <2>5. QED
      BY <1>2, <2>2, <2>4 DEF TalkTypeOK, Streaming
  <1>4. Complete => EndedWell(app, SentWords(sent))
    <2>1. CASE wire = "open"
      <3>1. app \in AppState /\ conv.out = <<>> /\ HasRead(app, conv).end = "none"
        BY <1>2, <2>1 DEF Streaming, UnderWay, Telltale, Honest, Shows
      <3>2. HasRead(app, conv) = app
        BY <3>1, ReceiveNone DEF HasRead
      <3>3. QED
        BY <3>1, <3>2 DEF Complete
    <2>2. CASE wire # "open"
      <3>1. HasEnded(conv, app, sent)
        BY <1>2, <2>2 DEF Streaming
      <3>2. QED
        BY <3>1 DEF Complete, HasEnded
    <2>3. QED
      BY <2>1, <2>2
  <1>5. ItemsConsistent
    BY <1>4 DEF EndedWell, Agreed, ItemsConsistent
  <1>6. ContentKept
    BY <1>4, Zenon DEF EndedWell, SentWords, ContentKept, Got, GotOf, Content
  <1>7. QED
    BY <1>1, <1>3, <1>5, <1>6 DEF StreamSound

(* The invariant stands.                                                   *)
THEOREM TalkStands == TalkSpec => []TalkInv
  <1>1. TalkInit => TalkInv
    BY TalkInvInit
  <1>2. TalkInv /\ [TalkNext]_talkVars => TalkInv'
    BY TalkInvStep
  <1>3. QED
    BY <1>1, <1>2, PTL DEF TalkSpec

(* Whatever the shape of the history and however often the app was         *)
(* interrupted,                                                            *)
(* calls in a message of the assistant are followed at once by a tool      *)
(* message for                                                             *)
(* each, unless the turn may still be going on (enforce_tool_call_pairing, *)
(* relocate_tool_output_images, collapse_system_messages_to_head).         *)
THEOREM CallsStayPaired == TalkSpec => []CallsAnswered
  <1>1. TalkInv => CallsAnswered
    BY TalkInvSound
  <1>2. QED
    BY <1>1, TalkStands, PTL

(* What the app was shown of an answer that has ended well is what it is   *)
(* given:                                                                  *)
(* the same items, in the order they were announced, under the same ids,   *)
(* with                                                                    *)
(* the text the pieces added up to; and every word of the relay is in it   *)
(* once                                                                    *)
(* and in order, wherever the chunks cut the tags (ChatSseState).          *)
THEOREM StreamIsSound == TalkSpec => []StreamSound
  <1>1. TalkInv => StreamSound
    BY TalkInvSound
  <1>2. QED
    BY <1>1, TalkStands, PTL
=============================================================================
