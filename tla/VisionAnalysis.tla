--------------------------- MODULE VisionAnalysis ---------------------------
(***************************************************************************)
(* Images of a conversation on their way to a model that sees none         *)
(* (vision.rs): a second model describes them, in batches, and the         *)
(* descriptions take their place.  Requests run beside each other and      *)
(* beside the analyses that earlier ones left in the background; they      *)
(* share the cache of descriptions and the permits for the second model.   *)
(*                                                                         *)
(* A conversation is the sequence of its user and tool messages, each the  *)
(* sequence of its images.  Lengths count in some unit of text.            *)
(***************************************************************************)
EXTENDS Naturals, SequencesExt

CONSTANTS Requests,    \* requests, each analysed once
          Images,
          Asked,       \* of each request: conversations, each with the room
                       \* its model has left for text
          Lengths,     \* how long the text for a batch may be
          Batch,       \* BATCH_SIZE
          Golden,      \* GOLDEN_WINDOW_DEPTH, and the 10 that X is compared with
          Depth,       \* ANALYZE_DEPTH_LIMIT
          Share,       \* AVG_DESC_BUDGET
          Marker,      \* length of the mark behind a text that was cut
          PerRequest, PerProcess,  \* permits: per analysis, and of all of them
          MaxLosses    \* bound: cached descriptions that expire or are evicted

ASSUME VisionAssumption ==
    /\ \A r \in Requests : Asked[r] \subseteq Seq(Seq(Images)) \X Nat
    /\ Lengths \subseteq Nat \ {0}
    /\ {Batch, Share, PerRequest, PerProcess} \subseteq Nat \ {0}
    /\ Golden \in Nat /\ Depth \in Nat /\ Golden <= Depth
    /\ Marker \in Nat \ {0} /\ MaxLosses \in Nat

VARIABLES
    cache,   \* VLM_CACHE: descriptions by image
    req,     \* the requests
    job,     \* the analyses, of a request and of its background task
    losses

vars == <<cache, req, job, losses>>

(* The text of a batch stands for each of its images.                      *)
Unknown == [of |-> {}, len |-> 1]
Told(img, text) == [img |-> img, text |-> text]

Total(counts) ==
    LET upto[n \in 0..Len(counts)] ==
          IF n = 0 THEN 0 ELSE upto[n - 1] + counts[n]
    IN  upto[Len(counts)]
Length(told) == Total([k \in DOMAIN told |-> told[k].text.len])

Texts(found) == [i \in DOMAIN found |->
                    [told |-> found[i], len |-> Length(found[i])]]
Nothing == [told |-> <<>>, len |-> 0]

Owners == Requests \X {"now", "later"}
Fresh == [pc |-> "new", conv |-> <<>>, room |-> 0, todo |-> <<>>, spent |-> 0,
          found |-> <<>>, said |-> <<>>, intact |-> FALSE, noticed |-> FALSE]

Init == /\ cache = [i \in {} |-> Unknown]
        /\ req = [r \in Requests |-> Fresh]
        /\ job = [o \in Owners |-> <<>>]
        /\ losses = 0

-----------------------------------------------------------------------------
(* Which messages count: the last ones, those of them with images, the     *)
(* last with images, the window analysed at once, and what lies deeper.    *)
Recent(c, n) == {i \in DOMAIN c : i + n > Len(c)}
WithImages(c) == {i \in DOMAIN c : c[i] # <<>>}
InDepth(c) == WithImages(c) \cap Recent(c, Depth)
Newest(S) == CHOOSE i \in S : \A j \in S : j <= i
Latest(c) == Newest(WithImages(c))
GoldenRounds(c) == (InDepth(c) \cap Recent(c, Golden)) \ {Latest(c)}
DeepRounds(c) == (InDepth(c) \ Recent(c, Golden)) \ {Latest(c)}

(* The elements of a sequence that are in S, in its order.                 *)
Within(seq, S) ==
    LET upto[n \in 0..Len(seq)] ==
          IF n = 0 THEN <<>>
          ELSE IF seq[n] \in S THEN Append(upto[n - 1], seq[n]) ELSE upto[n - 1]
    IN  upto[Len(seq)]

(* Those of S, newest first, and their images with the place of each.      *)
NewestFirst(c, S) == Within([k \in DOMAIN c |-> Len(c) + 1 - k], S)
Placed(c, i) == [n \in DOMAIN c[i] |-> [msg |-> i, img |-> c[i][n]]]
At(c, S) ==
    LET order == NewestFirst(c, S)
    IN  FlattenSeq([k \in DOMAIN order |-> Placed(c, order[k])])

Cached(img) == img \in DOMAIN cache
X(q) == q.room \div Share
Smaller(m, n) == IF m < n THEN m ELSE n
First(s, n) == SubSeq(s, 1, Smaller(n, Len(s)))

(* cap; the number of images in the window is never less.                  *)
Cap(q) == Smaller(X(q), Golden)

Batches(urls) ==
    LET part(k) ==
          SubSeq(urls, (k - 1) * Batch + 1, Smaller(k * Batch, Len(urls)))
    IN  [k \in 1..((Len(urls) + Batch - 1) \div Batch) |->
            [imgs |-> part(k), at |-> "wait", len |-> 0]]

-----------------------------------------------------------------------------
(* strip_image_blocks: no room left, or no image within the depth, ends it *)
(* at once; the newest message with images is told of in the first case.   *)
Begin(r) ==
    /\ req[r].pc = "new"
    /\ \E asked \in Asked[r] :
          LET c == asked[1]
              room == asked[2]
              q == [Fresh EXCEPT !.conv = c, !.room = room,
                           !.found = [i \in DOMAIN c |-> <<>>],
                           !.said = [i \in DOMAIN c |-> Nothing]]
          IN  req' = [req EXCEPT ![r] =
                 IF room = 0
                 THEN [q EXCEPT !.pc = "done", !.noticed = WithImages(c) # {}]
                 ELSE IF InDepth(c) = {} THEN [q EXCEPT !.pc = "done"]
                 ELSE [q EXCEPT !.pc = "look",
                        !.todo = <<Latest(c)>> \o NewestFirst(c, GoldenRounds(c))]]
    /\ UNCHANGED <<cache, job, losses>>

(* One message: what is cached is told, the rest is analysed.  All images  *)
(* of the current round are taken, of the others as many as the cap lets.  *)
Look(r) ==
    LET q == req[r]
        msg == Head(q.todo)
        current == msg = Latest(q.conv)
        taken == IF current THEN q.conv[msg]
                 ELSE First(q.conv[msg], Cap(q) - q.spent)
        hits == Within(taken, {i \in Images : Cached(i)})
        misses == Within(taken, {i \in Images : ~Cached(i)})
        looked == [q EXCEPT
                     !.found[msg] =
                        @ \o [k \in DOMAIN hits |-> Told(hits[k], cache[hits[k]])],
                     !.spent = IF current THEN @ ELSE @ + Len(taken)]
    IN
    /\ q.pc = "look"
    /\ q.todo # <<>>
    /\ IF misses = <<>>
       THEN /\ req' = [req EXCEPT ![r] = [looked EXCEPT !.todo = Tail(@)]]
            /\ UNCHANGED job
       ELSE /\ req' = [req EXCEPT ![r] = [looked EXCEPT !.pc = "wait"]]
            /\ job' = [job EXCEPT ![<<r, "now">>] = Batches(misses)]
    /\ UNCHANGED <<cache, losses>>

-----------------------------------------------------------------------------
(* The tasks of an analysis, one per batch: with a permit of the analysis  *)
(* and one of the process, which it keeps over its retries, a task asks    *)
(* the second model.                                                       *)
Calls(o) == {k \in DOMAIN job[o] : job[o][k].at = "call"}

Call(o) ==
    /\ \E k \in DOMAIN job[o] :
          /\ job[o][k].at = "wait"
          /\ Cardinality(Calls(o)) < PerRequest
          /\ Cardinality(UNION {{p} \X Calls(p) : p \in Owners}) < PerProcess
          /\ job' = [job EXCEPT ![o][k].at = "call"]
    /\ UNCHANGED <<cache, req, losses>>

Answer(o) ==
    /\ \E k \in Calls(o) :
          \/ \E n \in Lengths :
                job' = [job EXCEPT ![o][k].at = "ok", ![o][k].len = n]
          \/ job' = [job EXCEPT ![o][k].at = "bad"]
    /\ UNCHANGED <<cache, req, losses>>

Ended(o) == \A k \in DOMAIN job[o] : job[o][k].at \in {"ok", "bad"}

(* analyze_all: the texts in the order of the batches.                     *)
TextOf(b) == IF b.at = "ok" THEN [of |-> ToSet(b.imgs), len |-> b.len]
             ELSE Unknown
(* Slip: the texts of the batches that succeeded, side by side.            *)
ResultsCompacted(batches) ==
    LET good == SelectSeq(batches, LAMBDA b : b.at = "ok")
    IN  FlattenSeq([k \in DOMAIN good |->
           [n \in DOMAIN good[k].imgs |->
              Told(batches[k].imgs[n], TextOf(good[k]))]])

Results(batches) ==
    FlattenSeq([k \in DOMAIN batches |->
        [n \in DOMAIN batches[k].imgs |->
           Told(batches[k].imgs[n], TextOf(batches[k]))]])

(* What is known once the descriptions are stored, each over an older one. *)
Noted(known, t) ==
    IF t.text = Unknown THEN known
    ELSE [i \in DOMAIN known \cup {t.img} |-> IF i = t.img THEN t.text ELSE known[i]]
Remembered(known, told) ==
    LET upto[n \in 0..Len(told)] ==
          IF n = 0 THEN known ELSE Noted(upto[n - 1], told[n])
    IN  upto[Len(told)]

(* The analysis a request waits for ends, or its time is up: then what is  *)
(* done counts and the other tasks are dropped with their permits.  When   *)
(* all of the current round failed the request goes out with all images.   *)
Collect(r) ==
    LET q == req[r]
        o == <<r, "now">>
        msg == Head(q.todo)
        failed == \A k \in DOMAIN job[o] : job[o][k].at # "ok"
    IN
    /\ q.pc = "wait"
    /\ req' = [req EXCEPT ![r] =
          IF ~failed
          THEN [q EXCEPT !.pc = "look", !.todo = Tail(@),
                         !.found[msg] = @ \o Results(job[o])]
          ELSE IF msg = Latest(q.conv)
          THEN [q EXCEPT !.pc = "done", !.intact = TRUE]
          ELSE [q EXCEPT !.pc = "look", !.todo = Tail(@)]]
    /\ cache' = Remembered(cache, Results(job[o]))
    /\ job' = [job EXCEPT ![o] = <<>>]
    /\ UNCHANGED losses

AllIn(r) == Ended(<<r, "now">>) /\ Collect(r)
TimeUp(r) == ~Ended(<<r, "now">>) /\ Collect(r)

(* background_analyze_and_cache.                                           *)
Store(r) ==
    LET o == <<r, "later">> IN
    /\ job[o] # <<>>
    /\ cache' = Remembered(cache, Results(job[o]))
    /\ job' = [job EXCEPT ![o] = <<>>]
    /\ UNCHANGED <<req, losses>>

-----------------------------------------------------------------------------
(* Cached descriptions of deeper rounds as far as X goes, and the images   *)
(* for the background.                                                     *)
Recalled(found, known) ==
    LET upto[n \in 0..Len(known)] ==
          IF n = 0 THEN found
          ELSE [upto[n - 1] EXCEPT
                  ![known[n].msg] = Append(@, Told(known[n].img, cache[known[n].img]))]
    IN  upto[Len(known)]

Recall(r) ==
    LET q == req[r]
        Places == [msg : Nat, img : Images]
        deep == At(q.conv, DeepRounds(q.conv))
        known == First(Within(deep, {p \in Places : Cached(p.img)}), X(q) - q.spent)
        open == Within(At(q.conv, GoldenRounds(q.conv)) \o deep,
                       {p \in Places : ~Cached(p.img)})
        left == First([k \in DOMAIN open |-> open[k].img], X(q) - q.spent)
    IN
    /\ q.pc = "look"
    /\ q.todo = <<>>
    /\ req' = [req EXCEPT ![r].pc = "cut", ![r].found = Recalled(@, known)]
    /\ job' = [job EXCEPT ![<<r, "later">>] =
                 IF X(q) > Golden THEN Batches(left) ELSE <<>>]
    /\ UNCHANGED <<cache, losses>>

(* The texts, from the newest message back: the first that does not fit is *)
(* cut and marked; then whatever ends beyond the room goes, with the mark. *)
(* The others take the place of the images.                                *)
From(texts, i) ==
    Total([k \in DOMAIN texts |-> IF k < i THEN 0 ELSE texts[k].len])
Cut(texts, room) ==
    LET over == {i \in DOMAIN texts : From(texts, i) > room}
        first == CHOOSE i \in over : \A j \in over : j <= i
        newer == From(texts, first + 1)
    IN  IF over = {} THEN texts
        ELSE [texts EXCEPT ![first].len =
                 Marker + (IF newer < room THEN room - newer ELSE 1)]
Fitting(texts, room) ==
    [i \in DOMAIN texts |-> IF From(texts, i) > room THEN Nothing ELSE texts[i]]

Tell(r) ==
    LET q == req[r]
        texts == Fitting(Cut(Texts(q.found), q.room), q.room)
    IN
    /\ q.pc = "cut"
    /\ req' = [req EXCEPT ![r].pc = "done", ![r].said = texts]
    /\ UNCHANGED <<cache, job, losses>>

(* An entry expires, or is evicted when the cache is full.                 *)
Lose ==
    /\ losses < MaxLosses
    /\ losses' = losses + 1
    /\ \E img \in DOMAIN cache :
          cache' = [i \in DOMAIN cache \ {img} |-> cache[i]]
    /\ UNCHANGED <<req, job>>

Analyse(o) == Call(o) \/ Answer(o)
Proceed(r) == Look(r) \/ AllIn(r) \/ TimeUp(r) \/ Recall(r) \/ Tell(r)

Next == \/ \E r \in Requests : Begin(r) \/ Proceed(r) \/ Store(r)
        \/ \E o \in Owners : Analyse(o)
        \/ Lose

Spec == Init /\ [][Next]_vars

-----------------------------------------------------------------------------
Text == [of : SUBSET Images, len : Nat]
Said == Seq([img : Images, text : Text])
Request == [pc : {"new", "look", "wait", "cut", "done"},
            conv : Seq(Seq(Images)), room : Nat, todo : Seq(Nat), spent : Nat,
            found : Seq(Said), said : Seq([told : Said, len : Nat]),
            intact : BOOLEAN, noticed : BOOLEAN]
Task == [imgs : Seq(Images), at : {"wait", "call", "ok", "bad"}, len : Nat]

TypeOK ==
    /\ DOMAIN cache \subseteq Images /\ cache \in [DOMAIN cache -> Text]
    /\ req \in [Requests -> Request]
    /\ job \in [Owners -> Seq(Task)]
    /\ losses \in 0..MaxLosses

(* What is cached or told for an image was said of it, also when batches   *)
(* end in another order, fail, or are given up: a text is known by the     *)
(* place of its batch only.                                                *)
DescribesIts ==
    /\ \A i \in DOMAIN cache : i \in cache[i].of
    /\ \A r \in Requests : \A m \in DOMAIN req[r].found :
          \A t \in Range(req[r].found[m]) :
             /\ t.img \in Range(req[r].conv[m])
             /\ t.text = Unknown \/ t.img \in t.text.of

(* Descriptions of earlier rounds never number more than the budget.       *)
Earlier(q) ==
    Total([i \in DOMAIN q.found |->
              IF i \in WithImages(q.conv) /\ i = Latest(q.conv) THEN 0
              ELSE Len(q.found[i])])
BudgetHeld == \A r \in Requests : Earlier(req[r]) <= X(req[r])

(* What is told fits, and a message goes untold for that reason only.      *)
FitsTheRoom ==
    \A r \in Requests :
       LET q == req[r]
           texts == Texts(q.found)
       IN  q.pc = "done" /\ q.said # <<>> =>
              /\ From(q.said, 1) <= q.room
              /\ \A i \in DOMAIN texts :
                    ~q.intact /\ From(texts, i) <= q.room => q.said[i] = texts[i]

(* An image of the newest round is told of, or the request says why not,   *)
(* or goes out with its images.                                            *)
NewestIsTold ==
    \A r \in Requests :
       LET q == req[r] IN
       q.pc = "done" /\ InDepth(q.conv) # {} =>
          \/ q.intact
          \/ q.room = 0 /\ q.noticed
          \/ \A i \in Range(q.conv[Latest(q.conv)]) :
                \E t \in Range(q.found[Latest(q.conv)]) : t.img = i

(* Descriptions stay with their images, within their budget, and the       *)
(* newest images are not lost on the way, whatever order batches, time     *)
(* limits, other requests and background analyses come in.                 *)
VisionSound == TypeOK /\ DescribesIts /\ BudgetHeld /\ FitsTheRoom /\ NewestIsTold
=============================================================================
