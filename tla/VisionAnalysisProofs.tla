------------------------ MODULE VisionAnalysisProofs ------------------------
(***************************************************************************)
(* Proofs about VisionAnalysis for any number of requests, images, batches *)
(* and permits, any budget, depth and room.  The model adds up, sifts and  *)
(* joins sequences by recursive functions: that these exist, and what they *)
(* compute, is shown first, then what a step makes of one request, then    *)
(* that the invariant is kept.                                             *)
(***************************************************************************)
EXTENDS VisionAnalysis, WellFoundedInduction, TLAPS

(* The images a waiting request's analysis is about, and their number.     *)
ImagesOf(batches) == UNION {Range(batches[k].imgs) : k \in DOMAIN batches}
NumberOf(batches) == Total([k \in DOMAIN batches |-> Len(batches[k].imgs)])

(* A description found is of an image of its message, and was said of it.  *)
FoundDescribes(q) ==
    \A m \in DOMAIN q.found : \A t \in Range(q.found[m]) :
       /\ t.img \in Range(q.conv[m])
       /\ t.text = Unknown \/ t.img \in t.text.of

(* The image of the newest message is told of, or is in the analysis.      *)
ToldOf(q, i) == \E t \in Range(q.found[Latest(q.conv)]) : t.img = i
NewestAhead(q) == q.pc = "look" /\ q.todo # <<>> /\ Head(q.todo) = Latest(q.conv)
NewestCovered(q, batches) ==
    \A i \in Range(q.conv[Latest(q.conv)]) :
       \/ ToldOf(q, i)
       \/ q.pc = "wait" /\ Head(q.todo) = Latest(q.conv) /\ i \in ImagesOf(batches)

IsNewest(q, m) == m \in WithImages(q.conv) /\ m = Latest(q.conv)
Awaited(q, batches) ==
    IF q.pc = "wait" /\ ~IsNewest(q, Head(q.todo)) THEN NumberOf(batches) ELSE 0

Under(q, batches) ==
    /\ q.pc \in {"look", "wait", "cut"} =>
          /\ q.room # 0 /\ InDepth(q.conv) # {}
          /\ q.said = [i \in DOMAIN q.conv |-> Nothing]
          /\ NewestAhead(q) \/ NewestCovered(q, batches)
    /\ q.pc \in {"look", "wait"} =>
          /\ \A k \in DOMAIN q.todo : q.todo[k] \in DOMAIN q.conv
          /\ q.spent <= Cap(q)
          /\ Earlier(q) + Awaited(q, batches) <= q.spent
    /\ q.pc = "wait" => q.todo # <<>> /\ ImagesOf(batches) \subseteq Range(q.conv[Head(q.todo)])

Fits(q) ==
    LET texts == Texts(q.found)
    IN  q.pc = "done" /\ q.said # <<>> =>
           /\ From(q.said, 1) <= q.room
           /\ \A i \in DOMAIN texts :
                 ~q.intact /\ From(texts, i) <= q.room => q.said[i] = texts[i]
NewestTold(q) ==
    q.pc = "done" /\ InDepth(q.conv) # {} =>
       \/ q.intact
       \/ q.room = 0 /\ q.noticed
       \/ \A i \in Range(q.conv[Latest(q.conv)]) : ToldOf(q, i)

Stands(q, batches) ==
    /\ Len(q.found) = Len(q.conv)
    /\ FoundDescribes(q)
    /\ Earlier(q) <= X(q)
    /\ Under(q, batches)
    /\ Fits(q)
    /\ NewestTold(q)

CacheDescribes == \A i \in DOMAIN cache : i \in cache[i].of
VisionInvariant ==
    /\ TypeOK
    /\ CacheDescribes
    /\ \A r \in Requests : Stands(req[r], job[<<r, "now">>])

-----------------------------------------------------------------------------
(* Induction on the natural numbers, for a set of them.                    *)
LEMMA Induction ==
    ASSUME NEW S, 0 \in S, \A n \in Nat : n \in S => n + 1 \in S
    PROVE  \A n \in Nat : n \in S
  <1> DEFINE R == {p \in Nat \X Nat : p[1] < p[2]}
             T == Nat \ S
  <1> SUFFICES ASSUME T # {} PROVE FALSE
    OBVIOUS
  <1>1. IsWellFoundedOn(R, Nat)
    BY NatLessThanWellFounded, Zenon DEF OpToRel
  <1>2. T \subseteq Nat
    OBVIOUS
  <1> HIDE DEF R, T
  <1>3. PICK n \in T : \A k \in T : <<k, n>> \notin R
    BY <1>1, <1>2, WFMin
  <1>4. n \in Nat /\ n # 0 /\ n - 1 \in Nat /\ n - 1 \notin S
    BY <1>2 DEF T
  <1>5. n - 1 \in T /\ <<n - 1, n>> \in R
    BY <1>4 DEF R, T
  <1>6. QED
    BY <1>3, <1>5

(* A set of numbers that goes no higher than N has a greatest one.         *)
LEMMA Greatest ==
    ASSUME NEW S \in SUBSET Nat, S # {}, NEW N \in Nat, \A i \in S : i <= N
    PROVE  \E m \in S : \A j \in S : j <= m
  <1> DEFINE Above == {n \in Nat : \A i \in S : i <= n}
  <1>1. CASE 0 \in Above
    <2>1. \A i \in S : i = 0
      BY <1>1
    <2>2. 0 \in S
      BY <2>1
    <2>3. QED
      BY <2>1, <2>2
  <1>2. CASE 0 \notin Above
    <2>1. PICK n \in Nat : n \notin Above /\ n + 1 \in Above
      <3>1. SUFFICES ASSUME \A n \in Nat : n \notin Above => n + 1 \notin Above PROVE FALSE
        OBVIOUS
      <3> DEFINE Short == Nat \ Above
      <3>2. 0 \in Short /\ \A n \in Nat : n \in Short => n + 1 \in Short
        BY <1>2, <3>1
      <3> HIDE DEF Short
      <3>3. N \in Short
        BY <3>2, Induction
      <3>4. QED
        BY <3>3 DEF Short
    <2>2. PICK i \in S : ~(i <= n)
      BY <2>1
    <2>3. i = n + 1 /\ \A j \in S : j <= n + 1
      BY <2>1, <2>2
    <2>4. QED
      BY <2>3
  <1>3. QED
    BY <1>1, <1>2

(* A function defined by recursion on the numbers up to N exists.          *)
Recurs(f, N, V, start, step) ==
    /\ f \in [0..N -> V]
    /\ f[0] = start
    /\ \A i \in 1..N : f[i] = step[i][f[i - 1]]

(* Such a function exists.                                                 *)
LEMMA Recursion ==
    ASSUME NEW N \in Nat, NEW V, NEW start \in V, NEW step \in [1..N -> [V -> V]]
    PROVE  \E f : Recurs(f, N, V, start, step)
  <1> DEFINE Step(f, i) == IF i = 0 THEN start ELSE step[i][f[i - 1]]
             S == {n \in Nat : n <= N => \E f \in [0..n -> V] : f = [i \in 0..n |-> Step(f, i)]}
  <1>1. 0 \in S
    <2> DEFINE f == [i \in 0..0 |-> start]
    <2>1. f \in [0..0 -> V] /\ f = [i \in 0..0 |-> Step(f, i)]
      OBVIOUS
    <2>2. QED
      BY <2>1
  <1>2. ASSUME NEW n \in Nat, n \in S PROVE n + 1 \in S
    <2> SUFFICES ASSUME n + 1 <= N
                 PROVE  \E f \in [0..(n + 1) -> V] : f = [i \in 0..(n + 1) |-> Step(f, i)]
      OBVIOUS
    <2>1. PICK f \in [0..n -> V] : f = [i \in 0..n |-> Step(f, i)]
      BY <1>2
    <2> DEFINE g == [i \in 0..(n + 1) |-> IF i = n + 1 THEN step[i][f[n]] ELSE f[i]]
    <2>2. g \in [0..(n + 1) -> V]
      <3>1. n + 1 \in 1..N /\ f[n] \in V
        OBVIOUS
      <3>2. step[n + 1][f[n]] \in V
        BY <3>1
      <3>3. QED
        BY <3>2
    <2>3. ASSUME NEW i \in 0..(n + 1) PROVE g[i] = Step(g, i)
      <3>1. CASE i = n + 1
        <4>1. i # 0 /\ i - 1 = n /\ g[i - 1] = f[n] /\ g[i] = step[i][f[n]]
          BY <3>1
        <4>2. QED
          BY <4>1
      <3>2. CASE i # n + 1
        <4>1. i \in 0..n /\ g[i] = f[i] /\ (i # 0 => g[i - 1] = f[i - 1])
          BY <3>2
        <4>2. f[i] = Step(f, i)
          BY <2>1, <4>1
        <4>3. QED
          BY <4>1, <4>2
      <3>3. QED
        BY <3>1, <3>2
    <2>4. g = [i \in 0..(n + 1) |-> Step(g, i)]
      BY <2>3
    <2> HIDE DEF g, Step
    <2>5. QED
      BY <2>2, <2>4
  <1>3. N \in S
    <2> HIDE DEF S
    <2> QED BY <1>1, <1>2, Induction
  <1>4. PICK f \in [0..N -> V] : f = [i \in 0..N |-> Step(f, i)]
    BY <1>3
  <1>5. \A i \in 0..N : f[i] = Step(f, i)
    BY <1>4
  <1>6. f[0] = start
    <2>1. 0 \in 0..N
      OBVIOUS
    <2>2. f[0] = Step(f, 0)
      BY <1>5, <2>1
    <2>3. QED
      BY <2>2
  <1>7. ASSUME NEW i \in 1..N PROVE f[i] = step[i][f[i - 1]]
    BY <1>5
  <1> HIDE DEF Step
  <1>8. QED
    BY <1>6, <1>7 DEF Recurs

(* The elements of a sequence.                                             *)
LEMMA ElementOf ==
    ASSUME NEW T, NEW seq \in Seq(T), NEW m \in 1..Len(seq)
    PROVE  seq[m] \in T
  OBVIOUS

(* Total adds up the numbers of a sequence, from the first on.             *)
LEMMA TotalUnfolds ==
    ASSUME NEW s \in Seq(Nat)
    PROVE  \E upto \in [0..Len(s) -> Nat] :
              /\ Total(s) = upto[Len(s)]
              /\ upto[0] = 0
              /\ \A n \in 1..Len(s) : upto[n] = upto[n - 1] + s[n]
  <1> DEFINE N == Len(s)
             V == Nat
             start == 0
             step == [i \in 1..N |-> [x \in V |-> x + s[i]]]
  <1>1. N \in Nat /\ start \in V /\ step \in [1..N -> [V -> V]]
    OBVIOUS
  <1> HIDE DEF step, N, start, V
  <1>2. PICK f : Recurs(f, N, V, start, step)
    BY <1>1, Recursion
  <1> USE DEF V, start, Recurs
  <1>3. \A i \in 1..N : i - 1 \in 0..N /\ step[i][f[i - 1]] = f[i - 1] + s[i]
    <2> SUFFICES ASSUME NEW i \in 1..N
                 PROVE  i - 1 \in 0..N /\ step[i][f[i - 1]] = f[i - 1] + s[i]
      OBVIOUS
    <2>1. i - 1 \in 0..N
      BY <1>1
    <2>2. f[i - 1] \in Nat
      BY <1>2, <2>1
    <2>3. QED
      BY <2>1, <2>2 DEF step
  <1>4. f = [n \in 0..N |-> IF n = 0 THEN 0 ELSE f[n - 1] + s[n]]
    <2>1. ASSUME NEW i \in 0..N PROVE f[i] = IF i = 0 THEN 0 ELSE f[i - 1] + s[i]
      <3>1. CASE i = 0
        BY <1>2, <3>1
      <3>2. CASE i # 0
        <4>1. i \in 1..N
          BY <1>1, <3>2
        <4>2. QED
          BY <1>2, <1>3, <3>2, <4>1
      <3>3. QED
        BY <3>1, <3>2
    <2>2. QED
      BY <1>2, <2>1
  <1> DEFINE upto[n \in 0..N] == IF n = 0 THEN 0 ELSE upto[n - 1] + s[n]
  <1>5. upto = [n \in 0..N |-> IF n = 0 THEN 0 ELSE upto[n - 1] + s[n]]
    BY <1>4
  <1>6. Total(s) = upto[N]
    BY DEF Total, N
  <1> HIDE DEF upto
  <1>7. \A n \in 0..N : upto[n] = IF n = 0 THEN 0 ELSE upto[n - 1] + s[n]
    BY <1>5
  <1> DEFINE S == {n \in Nat : n <= N => upto[n] \in Nat}
  <1>8. 0 \in S
    BY <1>7
  <1>9. ASSUME NEW n \in Nat, n \in S PROVE n + 1 \in S
    <2> SUFFICES ASSUME n + 1 <= N PROVE upto[n + 1] \in Nat
      OBVIOUS
    <2>1. n + 1 \in 1..Len(s) /\ n + 1 \in 0..N /\ (n + 1) - 1 = n /\ upto[n] \in Nat
      BY <1>1, <1>9 DEF N
    <2>2. QED
      BY <1>7, <2>1
  <1>10. \A n \in 0..N : upto[n] \in Nat
    <2> HIDE DEF S
    <2>1. \A n \in Nat : n \in S
      BY <1>8, <1>9, Induction
    <2>2. QED
      BY <2>1 DEF S
  <1>11. upto \in [0..N -> Nat]
    BY <1>5, <1>10
  <1>12. QED
    <2>1. upto[0] = 0 /\ \A n \in 1..N : upto[n] = upto[n - 1] + s[n]
      BY <1>1, <1>7
    <2>2. QED
      BY <1>6, <1>11, <2>1 DEF N

(* A total is a natural number.                                            *)
LEMMA TotalNat ==
    ASSUME NEW s \in Seq(Nat)
    PROVE  Total(s) \in Nat
  <1>1. PICK upto \in [0..Len(s) -> Nat] : Total(s) = upto[Len(s)]
    BY TotalUnfolds
  <1>2. QED
    BY <1>1

(* Numbers of which none is larger make a total that is no larger.         *)
LEMMA TotalGrows ==
    ASSUME NEW s \in Seq(Nat), NEW t \in Seq(Nat), Len(s) = Len(t),
           \A i \in 1..Len(s) : s[i] <= t[i]
    PROVE  Total(s) <= Total(t)
  <1>1. PICK u \in [0..Len(s) -> Nat] :
           Total(s) = u[Len(s)] /\ u[0] = 0 /\ \A n \in 1..Len(s) : u[n] = u[n - 1] + s[n]
    BY TotalUnfolds
  <1>2. PICK v \in [0..Len(t) -> Nat] :
           Total(t) = v[Len(t)] /\ v[0] = 0 /\ \A n \in 1..Len(t) : v[n] = v[n - 1] + t[n]
    BY TotalUnfolds
  <1> DEFINE S == {n \in Nat : n <= Len(s) => u[n] <= v[n]}
  <1>3. 0 \in S
    BY <1>1, <1>2
  <1>4. ASSUME NEW n \in Nat, n \in S PROVE n + 1 \in S
    <2> SUFFICES ASSUME n + 1 <= Len(s) PROVE u[n + 1] <= v[n + 1]
      OBVIOUS
    <2>1. n + 1 \in 1..Len(s) /\ n \in 0..Len(s) /\ u[n] <= v[n] /\ (n + 1) - 1 = n
      BY <1>4
    <2>2. u[n + 1] = u[n] + s[n + 1] /\ v[n + 1] = v[n] + t[n + 1] /\ s[n + 1] <= t[n + 1]
      BY <1>1, <1>2, <2>1
    <2>3. u[n] \in Nat /\ v[n] \in Nat /\ s[n + 1] \in Nat /\ t[n + 1] \in Nat
      <3>1. n + 1 \in 1..Len(t) /\ n \in 0..Len(t)
        BY <2>1
      <3>2. u[n] \in Nat /\ v[n] \in Nat
        BY <2>1, <3>1
      <3> DEFINE m == n + 1
      <3>3. m \in 1..Len(s) /\ m \in 1..Len(t)
        BY <2>1, <3>1
      <3> HIDE DEF m
      <3>4. s[m] \in Nat /\ t[m] \in Nat
        BY <3>3, ElementOf
      <3>5. QED
        BY <3>2, <3>4 DEF m
    <2>4. QED
      BY <2>1, <2>2, <2>3
  <1>5. Len(s) \in S
    <2> HIDE DEF S
    <2>1. Len(s) \in Nat
      OBVIOUS
    <2> QED BY <1>3, <1>4, <2>1, Induction
  <1>6. QED
    BY <1>1, <1>2, <1>5

(* When one of the numbers changes the total changes by as much.           *)
LEMMA TotalChanges ==
    ASSUME NEW s \in Seq(Nat), NEW t \in Seq(Nat), Len(s) = Len(t), NEW k \in 1..Len(s),
           \A i \in 1..Len(s) : i # k => s[i] = t[i]
    PROVE  Total(t) + s[k] = Total(s) + t[k]
  <1>1. PICK u \in [0..Len(s) -> Nat] :
           Total(s) = u[Len(s)] /\ u[0] = 0 /\ \A n \in 1..Len(s) : u[n] = u[n - 1] + s[n]
    BY TotalUnfolds
  <1>2. PICK v \in [0..Len(t) -> Nat] :
           Total(t) = v[Len(t)] /\ v[0] = 0 /\ \A n \in 1..Len(t) : v[n] = v[n - 1] + t[n]
    BY TotalUnfolds
  <1> DEFINE S == {n \in Nat : n <= Len(s) =>
                     IF n < k THEN u[n] = v[n] ELSE v[n] + s[k] = u[n] + t[k]}
  <1>3. 0 \in S
    BY <1>1, <1>2
  <1>4. ASSUME NEW n \in Nat, n \in S PROVE n + 1 \in S
    <2> SUFFICES ASSUME n + 1 <= Len(s)
                 PROVE  IF n + 1 < k THEN u[n + 1] = v[n + 1]
                        ELSE v[n + 1] + s[k] = u[n + 1] + t[k]
      OBVIOUS
    <2>1. /\ n + 1 \in 1..Len(s) /\ n \in 0..Len(s) /\ (n + 1) - 1 = n
          /\ IF n < k THEN u[n] = v[n] ELSE v[n] + s[k] = u[n] + t[k]
      BY <1>4
    <2>2. u[n + 1] = u[n] + s[n + 1] /\ v[n + 1] = v[n] + t[n + 1]
      BY <1>1, <1>2, <2>1
    <2>3. /\ u[n] \in Nat /\ v[n] \in Nat /\ s[n + 1] \in Nat /\ t[n + 1] \in Nat
          /\ s[k] \in Nat /\ t[k] \in Nat /\ (n + 1 # k => s[n + 1] = t[n + 1])
      <3>1. n + 1 \in 1..Len(t) /\ n \in 0..Len(t) /\ k \in 1..Len(t)
        BY <2>1
      <3>2. u[n] \in Nat /\ v[n] \in Nat
        BY <2>1, <3>1
      <3>3. s[k] \in Nat /\ t[k] \in Nat
        BY <3>1
      <3>4. s[n + 1] \in Nat /\ t[n + 1] \in Nat
        <4> DEFINE m == n + 1
        <4>1. m \in 1..Len(s) /\ m \in 1..Len(t)
          BY <2>1, <3>1
        <4> HIDE DEF m
        <4>2. s[m] \in Nat /\ t[m] \in Nat
          BY <4>1, ElementOf
        <4>3. QED
          BY <4>2 DEF m
      <3>5. n + 1 # k => s[n + 1] = t[n + 1]
        BY <2>1
      <3>6. QED
        BY <3>2, <3>3, <3>4, <3>5
    <2>4. CASE n + 1 = k
      <3>1. n < k /\ ~(n + 1 < k) /\ u[n] = v[n] /\ k \in Nat
        BY <2>1, <2>4
      <3> DEFINE a == u[n]
                 c == s[k]
                 d == t[k]
      <3>2. a \in Nat /\ c \in Nat /\ d \in Nat /\ v[n] = a
        BY <2>3, <3>1
      <3>3. u[n + 1] = a + c /\ v[n + 1] = a + d
        BY <2>2, <2>4, <3>2
      <3> HIDE DEF a, c, d
      <3>4. v[n + 1] + c = u[n + 1] + d
        BY <3>2, <3>3
      <3>5. QED
        BY <3>1, <3>4 DEF c, d
    <2>5. CASE n + 1 # k
      <3>1. s[n + 1] = t[n + 1] /\ k \in Nat /\ (n + 1 < k <=> n < k)
        BY <2>1, <2>3, <2>5
      <3>2. CASE n < k
        BY <2>1, <2>2, <3>1, <3>2
      <3>3. CASE ~(n < k)
        <4>1. v[n] + s[k] = u[n] + t[k] /\ ~(n + 1 < k)
          BY <2>1, <3>1, <3>3
        <4> DEFINE a == v[n]
                   b == u[n]
                   c == s[k]
                   d == t[k]
                   e == s[n + 1]
        <4>2. a \in Nat /\ b \in Nat /\ c \in Nat /\ d \in Nat /\ e \in Nat
          BY <2>3
        <4>3. a + c = b + d /\ v[n + 1] = a + e /\ u[n + 1] = b + e
          BY <2>2, <3>1, <4>1
        <4> HIDE DEF a, b, c, d, e
        <4>4. (a + e) + c = (b + e) + d
          BY <4>2, <4>3
        <4>5. QED
          BY <4>1, <4>3, <4>4 DEF c, d
      <3>4. QED
        BY <3>2, <3>3
    <2>6. QED
      BY <2>4, <2>5
  <1>5. Len(s) \in S
    <2> HIDE DEF S
    <2>1. Len(s) \in Nat
      OBVIOUS
    <2> QED BY <1>3, <1>4, <2>1, Induction
  <1>6. QED
    BY <1>1, <1>2, <1>5

(* Nothing adds up to nothing.                                             *)
LEMMA TotalZero ==
    ASSUME NEW s \in Seq(Nat), \A i \in 1..Len(s) : s[i] = 0
    PROVE  Total(s) = 0
  <1>1. PICK u \in [0..Len(s) -> Nat] :
           Total(s) = u[Len(s)] /\ u[0] = 0 /\ \A n \in 1..Len(s) : u[n] = u[n - 1] + s[n]
    BY TotalUnfolds
  <1> DEFINE S == {n \in Nat : n <= Len(s) => u[n] = 0}
  <1>2. 0 \in S
    BY <1>1
  <1>3. ASSUME NEW n \in Nat, n \in S PROVE n + 1 \in S
    <2> SUFFICES ASSUME n + 1 <= Len(s) PROVE u[n + 1] = 0
      OBVIOUS
    <2>1. n + 1 \in 1..Len(s) /\ u[n] = 0 /\ (n + 1) - 1 = n /\ s[n + 1] = 0
      BY <1>3
    <2>2. QED
      BY <1>1, <2>1
  <1>4. Len(s) \in S
    <2> HIDE DEF S
    <2>1. Len(s) \in Nat
      OBVIOUS
    <2> QED BY <1>2, <1>3, <2>1, Induction
  <1>5. QED
    BY <1>1, <1>4

(* The elements of sequences joined, and of one with an element more.      *)
LEMMA RangeJoined ==
    ASSUME NEW T, NEW a \in Seq(T), NEW b \in Seq(T)
    PROVE  /\ a \o b \in Seq(T) /\ Len(a \o b) = Len(a) + Len(b)
           /\ Range(a \o b) = Range(a) \cup Range(b)
  <1>1. /\ a \o b \in Seq(T) /\ Len(a \o b) = Len(a) + Len(b)
        /\ DOMAIN (a \o b) = 1..(Len(a) + Len(b)) /\ DOMAIN a = 1..Len(a) /\ DOMAIN b = 1..Len(b)
        /\ Len(a) \in Nat /\ Len(b) \in Nat
    OBVIOUS
  <1>2. /\ \A i \in 1..Len(a) : (a \o b)[i] = a[i]
        /\ \A i \in 1..Len(b) : (a \o b)[Len(a) + i] = b[i]
    BY <1>1
  <1>3. ASSUME NEW x \in Range(a) PROVE x \in Range(a \o b)
    <2>1. PICK i \in 1..Len(a) : x = a[i]
      BY <1>1 DEF Range
    <2>2. i \in DOMAIN (a \o b) /\ x = (a \o b)[i]
      BY <1>1, <1>2, <2>1
    <2>3. QED
      BY <2>2 DEF Range
  <1>4. ASSUME NEW x \in Range(b) PROVE x \in Range(a \o b)
    <2>1. PICK i \in 1..Len(b) : x = b[i]
      BY <1>1 DEF Range
    <2>2. Len(a) + i \in DOMAIN (a \o b) /\ x = (a \o b)[Len(a) + i]
      BY <1>1, <1>2, <2>1
    <2>3. QED
      BY <2>2 DEF Range
  <1>5. ASSUME NEW x \in Range(a \o b) PROVE x \in Range(a) \cup Range(b)
    <2>1. PICK i \in 1..(Len(a) + Len(b)) : x = (a \o b)[i]
      BY <1>1 DEF Range
    <2>2. CASE i <= Len(a)
      <3>1. i \in DOMAIN a /\ x = a[i]
        BY <1>1, <1>2, <2>1, <2>2
      <3>2. QED
        BY <3>1 DEF Range
    <2>3. CASE ~(i <= Len(a))
      <3>1. i - Len(a) \in 1..Len(b) /\ Len(a) + (i - Len(a)) = i
        BY <1>1, <2>3
      <3>2. x = b[i - Len(a)] /\ i - Len(a) \in DOMAIN b
        BY <1>1, <1>2, <2>1, <3>1
      <3>3. QED
        BY <3>2 DEF Range
    <2>4. QED
      BY <2>2, <2>3
  <1>6. QED
    BY <1>1, <1>3, <1>4, <1>5

(* ... and of one that an element was appended to.                         *)
LEMMA RangeAppended ==
    ASSUME NEW T, NEW a \in Seq(T), NEW x \in T
    PROVE  /\ Append(a, x) \in Seq(T) /\ Len(Append(a, x)) = Len(a) + 1
           /\ Range(Append(a, x)) = Range(a) \cup {x}
  <1> DEFINE b == <<x>>
  <1>1. Append(a, x) = a \o b /\ b \in Seq(T) /\ Len(b) = 1
    OBVIOUS
  <1>2. Range(b) = {x}
    BY DEF Range
  <1> HIDE DEF b
  <1>3. /\ a \o b \in Seq(T) /\ Len(a \o b) = Len(a) + Len(b)
        /\ Range(a \o b) = Range(a) \cup Range(b)
    BY <1>1, RangeJoined
  <1>4. QED
    BY <1>1, <1>2, <1>3

(* FlattenSeq joins the sequences one after the other.                     *)
LEMMA FlattenUnfolds ==
    ASSUME NEW T, NEW seqs \in Seq(Seq(T)), seqs # <<>>
    PROVE  \E flat : /\ FlattenSeq(seqs) = flat[Len(seqs)]
                     /\ flat[1] = seqs[1]
                     /\ \A n \in 2..Len(seqs) : flat[n] = flat[n - 1] \o seqs[n]
  <1> DEFINE N == Len(seqs)
             V == Seq(T)
             start == <<>>
             step == [i \in 1..N |-> [x \in V |-> x \o seqs[i]]]
  <1>1. N \in Nat /\ start \in V /\ step \in [1..N -> [V -> V]] /\ N # 0
    OBVIOUS
  <1> HIDE DEF step, N, start, V
  <1>2. PICK f : Recurs(f, N, V, start, step)
    BY <1>1, Recursion
  <1> DEFINE g == [i \in 1..N |-> f[i]]
  <1>3. ASSUME NEW i \in 1..N PROVE f[i - 1] \in V /\ f[i] = f[i - 1] \o seqs[i]
    <2>1. i - 1 \in 0..N
      BY <1>1
    <2>2. f[i - 1] \in V /\ f[i] = step[i][f[i - 1]]
      BY <1>2, <2>1 DEF Recurs
    <2>3. step[i][f[i - 1]] = f[i - 1] \o seqs[i]
      BY <2>2 DEF step
    <2>4. QED
      BY <2>2, <2>3
  <1>4. ASSUME NEW i \in 1..N PROVE g[i] = IF i = 1 THEN seqs[i] ELSE g[i - 1] \o seqs[i]
    <2>0. f[i] = f[i - 1] \o seqs[i]
      BY <1>3
    <2>1. CASE i = 1
      <3>1. f[0] = <<>>
        BY <1>2 DEF Recurs, start
      <3>2. f[1] = f[0] \o seqs[1]
        <4>1. i - 1 = 0
          BY <2>1
        <4>2. QED
          BY <2>0, <2>1, <4>1
      <3>3. seqs[1] \in Seq(T)
        BY <2>1 DEF N
      <3>4. f[1] = seqs[1]
        BY <3>1, <3>2, <3>3
      <3>5. QED
        BY <2>1, <3>4
    <2>2. CASE i # 1
      <3>1. i - 1 \in 1..N
        BY <1>1, <2>2
      <3>2. QED
        BY <1>3, <2>2, <3>1
    <2>3. QED
      BY <2>1, <2>2
  <1>5. g = [i \in 1..N |-> IF i = 1 THEN seqs[i] ELSE g[i - 1] \o seqs[i]]
    BY <1>4
  <1> DEFINE flat[i \in 1..N] == IF i = 1 THEN seqs[i] ELSE flat[i - 1] \o seqs[i]
  <1> HIDE DEF g
  <1>6. flat = [i \in 1..N |-> IF i = 1 THEN seqs[i] ELSE flat[i - 1] \o seqs[i]]
    BY <1>5
  <1>7. FlattenSeq(seqs) = flat[N]
    BY <1>1 DEF FlattenSeq, N
  <1> HIDE DEF flat
  <1>8. \A i \in 1..N : flat[i] = IF i = 1 THEN seqs[i] ELSE flat[i - 1] \o seqs[i]
    BY <1>6
  <1>9. 1 \in 1..N /\ \A i \in 2..N : i \in 1..N /\ i # 1
    BY <1>1
  <1>10. flat[1] = seqs[1] /\ \A i \in 2..N : flat[i] = flat[i - 1] \o seqs[i]
    BY <1>8, <1>9
  <1>11. QED
    BY <1>7, <1>10 DEF N

(* What the joined sequences hold, and how long they come to be.           *)
LEMMA FlattenHolds ==
    ASSUME NEW T, NEW seqs \in Seq(Seq(T))
    PROVE  /\ FlattenSeq(seqs) \in Seq(T)
           /\ Len(FlattenSeq(seqs)) = Total([k \in DOMAIN seqs |-> Len(seqs[k])])
           /\ \A x : x \in Range(FlattenSeq(seqs)) <=> \E k \in DOMAIN seqs : x \in Range(seqs[k])
  <1> DEFINE lens == [k \in DOMAIN seqs |-> Len(seqs[k])]
             N == Len(seqs)
  <1>1. lens \in Seq(Nat) /\ Len(lens) = N /\ N \in Nat /\ DOMAIN seqs = 1..N
    <2>1. N \in Nat /\ DOMAIN seqs = 1..N /\ \A k \in 1..N : seqs[k] \in Seq(T)
      OBVIOUS
    <2>2. \A k \in 1..N : Len(seqs[k]) \in Nat
      BY <2>1
    <2>3. lens \in [1..N -> Nat]
      BY <2>1, <2>2
    <2>4. QED
      BY <2>1, <2>3
  <1>2. PICK u \in [0..Len(lens) -> Nat] :
           /\ Total(lens) = u[Len(lens)] /\ u[0] = 0
           /\ \A n \in 1..Len(lens) : u[n] = u[n - 1] + lens[n]
    BY <1>1, TotalUnfolds
  <1>3. CASE seqs = <<>>
    <2>1. FlattenSeq(seqs) = <<>> /\ N = 0 /\ DOMAIN seqs = {}
      BY <1>1, <1>3 DEF FlattenSeq
    <2>2. Total(lens) = 0
      BY <1>1, <1>2, <2>1
    <2>3. Range(<<>>) = {}
      BY DEF Range
    <2>4. QED
      BY <2>1, <2>2, <2>3
  <1>4. CASE seqs # <<>>
    <2>1. PICK flat : /\ FlattenSeq(seqs) = flat[Len(seqs)]
                      /\ flat[1] = seqs[1]
                      /\ \A n \in 2..Len(seqs) : flat[n] = flat[n - 1] \o seqs[n]
      BY <1>4, FlattenUnfolds
    <2> DEFINE Good(n) == /\ flat[n] \in Seq(T) /\ Len(flat[n]) = u[n]
                          /\ \A x : x \in Range(flat[n]) <=> \E k \in 1..n : x \in Range(seqs[k])
               S == {n \in Nat : n + 1 <= N => Good(n + 1)}
    <2> HIDE DEF N
    <2>2. 1 \in 1..N /\ seqs[1] \in Seq(T) /\ lens[1] = Len(seqs[1])
      BY <1>1, <1>4 DEF N
    <2>3. u[1] = u[0] + lens[1]
      BY <1>1, <1>2, <2>2
    <2>4. Len(seqs[1]) \in Nat /\ {k \in Nat : k \in 1..1} = {1} /\ 1..1 = {1}
      BY <2>2
    <2>5. Good(1)
      BY <1>2, <2>1, <2>2, <2>3, <2>4
    <2>6. 0 \in S
      BY <2>5
    <2>7. ASSUME NEW n \in Nat, n \in S PROVE n + 1 \in S
      <3> SUFFICES ASSUME (n + 1) + 1 <= N PROVE Good((n + 1) + 1)
        OBVIOUS
      <3> DEFINE m == n + 1
      <3>0. n + 1 <= N
        BY <1>1
      <3>1. m \in Nat /\ m + 1 \in 2..N /\ m + 1 \in 1..N /\ (m + 1) - 1 = m /\ Good(m)
        <4>1. m \in Nat /\ m + 1 \in 2..N /\ m + 1 \in 1..N /\ (m + 1) - 1 = m
          BY <1>1
        <4> HIDE DEF Good
        <4>2. Good(n + 1)
          BY <2>7, <3>0
        <4>3. QED
          BY <4>1, <4>2
      <3> HIDE DEF m
      <3>2. flat[m + 1] = flat[m] \o seqs[m + 1] /\ seqs[m + 1] \in Seq(T)
        <4>1. m + 1 \in 2..Len(seqs) /\ m + 1 \in 1..Len(seqs)
          BY <3>1 DEF N
        <4>2. flat[m + 1] = flat[(m + 1) - 1] \o seqs[m + 1]
          BY <2>1, <4>1
        <4>3. seqs[m + 1] \in Seq(T)
          BY <4>1
        <4>4. (m + 1) - 1 = m
          BY <3>1
        <4> HIDE DEF Good
        <4>5. QED
          BY <4>2, <4>3, <4>4
      <3>3. u[m + 1] = u[m] + lens[m + 1] /\ lens[m + 1] = Len(seqs[m + 1])
        BY <1>1, <1>2, <3>1
      <3>4. /\ flat[m + 1] \in Seq(T) /\ Len(flat[m + 1]) = Len(flat[m]) + Len(seqs[m + 1])
            /\ Range(flat[m + 1]) = Range(flat[m]) \cup Range(seqs[m + 1])
        <4> DEFINE a == flat[m]
                   b == seqs[m + 1]
        <4>1. a \in Seq(T) /\ b \in Seq(T)
          BY <3>1, <3>2
        <4> HIDE DEF a, b
        <4>2. /\ a \o b \in Seq(T) /\ Len(a \o b) = Len(a) + Len(b)
              /\ Range(a \o b) = Range(a) \cup Range(b)
          BY <4>1, RangeJoined
        <4>3. QED
          BY <3>2, <4>2 DEF a, b
      <3>5. 1..(m + 1) = 1..m \cup {m + 1}
        BY <3>1
      <3>6. ASSUME NEW x
            PROVE  x \in Range(flat[m + 1]) <=> \E k \in 1..(m + 1) : x \in Range(seqs[k])
        <4>1. x \in Range(flat[m]) <=> \E k \in 1..m : x \in Range(seqs[k])
          BY <3>1
        <4>2. \A k \in 1..(m + 1) : k \in 1..m \/ k = m + 1
          BY <3>5
        <4>3. m + 1 \in 1..(m + 1) /\ \A k \in 1..m : k \in 1..(m + 1)
          BY <3>5
        <4>4. x \in Range(flat[m + 1]) <=> x \in Range(flat[m]) \/ x \in Range(seqs[m + 1])
          BY <3>4
        <4>5. QED
          BY <4>1, <4>2, <4>3, <4>4
      <3>7. Good(m + 1)
        BY <3>1, <3>3, <3>4, <3>6
      <3>8. QED
        BY <3>7 DEF m
    <2>8. Good(N)
      <3>1. N - 1 \in Nat /\ (N - 1) + 1 = N
        BY <1>1, <2>2
      <3>2. N - 1 \in S
        <4> HIDE DEF S
        <4> QED BY <2>6, <2>7, <3>1, Induction
      <3>3. (N - 1) + 1 <= N => Good((N - 1) + 1)
        BY <3>2
      <3>4. QED
        BY <1>1, <3>1, <3>3
    <2> HIDE DEF lens
    <2>9. FlattenSeq(seqs) = flat[N] /\ Total(lens) = u[N]
      BY <1>1, <1>2, <2>1 DEF N
    <2>10. QED
      BY <1>1, <2>8, <2>9 DEF lens
  <1>5. QED
    BY <1>3, <1>4

(* Within takes the elements one after the other.                          *)
LEMMA WithinUnfolds ==
    ASSUME NEW T, NEW seq \in Seq(T), NEW S
    PROVE  \E u : /\ Within(seq, S) = u[Len(seq)]
                  /\ u[0] = <<>>
                  /\ \A n \in 1..Len(seq) :
                        u[n] = IF seq[n] \in S THEN Append(u[n - 1], seq[n]) ELSE u[n - 1]
  <1> DEFINE N == Len(seq)
             V == Seq(T)
             start == <<>>
             step == [i \in 1..N |-> [x \in V |->
                         IF seq[i] \in S THEN Append(x, seq[i]) ELSE x]]
  <1>1. N \in Nat /\ start \in V /\ step \in [1..N -> [V -> V]]
    OBVIOUS
  <1> HIDE DEF step, N, start, V
  <1>2. PICK f : Recurs(f, N, V, start, step)
    BY <1>1, Recursion
  <1>3. ASSUME NEW i \in 0..N
        PROVE  f[i] = IF i = 0 THEN <<>>
                      ELSE IF seq[i] \in S THEN Append(f[i - 1], seq[i]) ELSE f[i - 1]
    <2>1. CASE i = 0
      BY <1>2, <2>1 DEF Recurs, start
    <2>2. CASE i # 0
      <3>1. i \in 1..N /\ i - 1 \in 0..N
        BY <1>1, <2>2
      <3>2. f[i - 1] \in V /\ f[i] = step[i][f[i - 1]]
        BY <1>2, <3>1 DEF Recurs
      <3>3. step[i][f[i - 1]] = IF seq[i] \in S THEN Append(f[i - 1], seq[i]) ELSE f[i - 1]
        BY <3>1, <3>2 DEF step
      <3>4. QED
        BY <2>2, <3>2, <3>3
    <2>3. QED
      BY <2>1, <2>2
  <1>4. f = [n \in 0..N |-> IF n = 0 THEN <<>>
                      ELSE IF seq[n] \in S THEN Append(f[n - 1], seq[n]) ELSE f[n - 1]]
    BY <1>2, <1>3 DEF Recurs
  <1> DEFINE u[n \in 0..N] ==
               IF n = 0 THEN <<>>
               ELSE IF seq[n] \in S THEN Append(u[n - 1], seq[n]) ELSE u[n - 1]
  <1>5. u = [n \in 0..N |-> IF n = 0 THEN <<>>
                      ELSE IF seq[n] \in S THEN Append(u[n - 1], seq[n]) ELSE u[n - 1]]
    BY <1>4
  <1>6. Within(seq, S) = u[N]
    BY DEF Within, N
  <1> HIDE DEF u
  <1>7. \A n \in 0..N : u[n] = IF n = 0 THEN <<>>
                      ELSE IF seq[n] \in S THEN Append(u[n - 1], seq[n]) ELSE u[n - 1]
    BY <1>5
  <1>8. 0 \in 0..N /\ \A n \in 1..N : n \in 0..N /\ n # 0
    BY <1>1
  <1>9. u[0] = <<>>
    BY <1>7, <1>8
  <1>10. \A n \in 1..N : u[n] = IF seq[n] \in S THEN Append(u[n - 1], seq[n]) ELSE u[n - 1]
    BY <1>7, <1>8
  <1>11. QED
    BY <1>6, <1>9, <1>10 DEF N

(* Within keeps the elements that are in S, and no others.                 *)
LEMMA WithinSifts ==
    ASSUME NEW T, NEW seq \in Seq(T), NEW S
    PROVE  /\ Within(seq, S) \in Seq(T)
           /\ \A x : x \in Range(Within(seq, S)) <=> x \in Range(seq) /\ x \in S
  <1>1. PICK u : /\ Within(seq, S) = u[Len(seq)]
                 /\ u[0] = <<>>
                 /\ \A n \in 1..Len(seq) :
                       u[n] = IF seq[n] \in S THEN Append(u[n - 1], seq[n]) ELSE u[n - 1]
    BY WithinUnfolds
  <1> DEFINE N == Len(seq)
             Good(n) == /\ u[n] \in Seq(T)
                        /\ \A x : x \in Range(u[n]) <=> \E i \in 1..n : x = seq[i] /\ x \in S
             G == {n \in Nat : n <= N => Good(n)}
  <1>2. N \in Nat /\ DOMAIN seq = 1..N /\ \A i \in 1..N : seq[i] \in T
    OBVIOUS
  <1>3. Good(0)
    <2>1. <<>> \in Seq(T) /\ Range(<<>>) = {} /\ 1..0 = {}
      BY DEF Range
    <2>2. QED
      BY <1>1, <2>1
  <1>4. ASSUME NEW n \in Nat, n \in G PROVE n + 1 \in G
    <2> SUFFICES ASSUME n + 1 <= N PROVE Good(n + 1)
      OBVIOUS
    <2>1. n + 1 \in 1..N /\ (n + 1) - 1 = n /\ n <= N
      BY <1>2
    <2>2. Good(n)
      <3> HIDE DEF Good
      <3> QED BY <1>4, <2>1
    <2>3. u[n + 1] = IF seq[n + 1] \in S THEN Append(u[n], seq[n + 1]) ELSE u[n]
      BY <1>1, <2>1
    <2>4. (\A i \in 1..(n + 1) : i \in 1..n \/ i = n + 1) /\ \A i \in 1..n : i \in 1..(n + 1)
      OBVIOUS
    <2>5. CASE seq[n + 1] \in S
      <3> DEFINE a == u[n]
                 x == seq[n + 1]
      <3>1. a \in Seq(T) /\ x \in T
        BY <1>2, <2>1, <2>2
      <3>2. u[n + 1] = Append(a, x)
        BY <2>3, <2>5
      <3> HIDE DEF a, x
      <3>3. Append(a, x) \in Seq(T) /\ Range(Append(a, x)) = Range(a) \cup {x}
        BY <3>1, RangeAppended
      <3>4. \A y : y \in Range(u[n + 1]) <=> y \in Range(u[n]) \/ y = seq[n + 1]
        BY <3>2, <3>3 DEF a, x
      <3>5. QED
        BY <2>1, <2>2, <2>4, <2>5, <3>2, <3>3, <3>4
    <2>6. CASE seq[n + 1] \notin S
      BY <2>1, <2>2, <2>3, <2>4, <2>6
    <2>7. QED
      BY <2>5, <2>6
  <1>5. Good(N)
    <2>1. N \in G
      <3> HIDE DEF G
      <3> QED BY <1>2, <1>3, <1>4, Induction DEF G
    <2> HIDE DEF Good
    <2>2. QED
      BY <1>2, <2>1
  <1>6. \A x : x \in Range(seq) <=> \E i \in 1..N : x = seq[i]
    BY <1>2 DEF Range
  <1>7. QED
    BY <1>1, <1>5, <1>6

(* Arithmetic of the next lemma: of two counts at most one grows.          *)
LEMMA OneMore ==
    ASSUME NEW a \in Nat, NEW b \in Nat, NEW c, NEW d, NEW n \in Nat, a + b <= n,
           (c = a + 1 /\ d = b) \/ (c = a /\ d = b + 1) \/ (c = a /\ d = b)
    PROVE  c + d <= n + 1
  OBVIOUS

(* What is kept for two sets that are apart is no more than there is.      *)
LEMMA WithinApart ==
    ASSUME NEW T, NEW seq \in Seq(T), NEW S, NEW R, S \cap R = {}
    PROVE  Len(Within(seq, S)) + Len(Within(seq, R)) <= Len(seq)
  <1>1. PICK u : /\ Within(seq, S) = u[Len(seq)]
                 /\ u[0] = <<>>
                 /\ \A n \in 1..Len(seq) :
                       u[n] = IF seq[n] \in S THEN Append(u[n - 1], seq[n]) ELSE u[n - 1]
    BY WithinUnfolds
  <1>2. PICK v : /\ Within(seq, R) = v[Len(seq)]
                 /\ v[0] = <<>>
                 /\ \A n \in 1..Len(seq) :
                       v[n] = IF seq[n] \in R THEN Append(v[n - 1], seq[n]) ELSE v[n - 1]
    BY WithinUnfolds
  <1> DEFINE N == Len(seq)
             Good(n) == /\ u[n] \in Seq(T) /\ v[n] \in Seq(T)
                        /\ Len(u[n]) + Len(v[n]) <= n
             G == {n \in Nat : n <= N => Good(n)}
  <1>3. N \in Nat /\ \A i \in 1..N : seq[i] \in T
    OBVIOUS
  <1>4. Good(0)
    <2>1. <<>> \in Seq(T) /\ Len(<<>>) = 0
      OBVIOUS
    <2>2. QED
      BY <1>1, <1>2, <2>1
  <1>5. ASSUME NEW n \in Nat, n \in G PROVE n + 1 \in G
    <2> HIDE DEF Good
    <2> SUFFICES ASSUME n + 1 <= N PROVE Good(n + 1)
      OBVIOUS
    <2> USE DEF Good
    <2>1. n + 1 \in 1..N /\ (n + 1) - 1 = n /\ n <= N /\ seq[n + 1] \in T
      BY <1>3
    <2>2. Good(n)
      <3> HIDE DEF Good
      <3> QED BY <1>5, <2>1
    <2>3. /\ u[n + 1] = IF seq[n + 1] \in S THEN Append(u[n], seq[n + 1]) ELSE u[n]
          /\ v[n + 1] = IF seq[n + 1] \in R THEN Append(v[n], seq[n + 1]) ELSE v[n]
      BY <1>1, <1>2, <2>1
    <2>4. \A a \in Seq(T), x \in T : Append(a, x) \in Seq(T) /\ Len(Append(a, x)) = Len(a) + 1
      OBVIOUS
    <2>5. Len(u[n]) \in Nat /\ Len(v[n]) \in Nat
      BY <2>2
    <2>6. /\ u[n + 1] \in Seq(T)
          /\ Len(u[n + 1]) = IF seq[n + 1] \in S THEN Len(u[n]) + 1 ELSE Len(u[n])
          /\ v[n + 1] \in Seq(T)
          /\ Len(v[n + 1]) = IF seq[n + 1] \in R THEN Len(v[n]) + 1 ELSE Len(v[n])
      BY <2>1, <2>2, <2>3, <2>4
    <2>7. ~(seq[n + 1] \in S /\ seq[n + 1] \in R)
      OBVIOUS
    <2>8. Len(u[n]) + Len(v[n]) <= n
      BY <2>2
    <2>9. \/ Len(u[n + 1]) = Len(u[n]) + 1 /\ Len(v[n + 1]) = Len(v[n])
          \/ Len(u[n + 1]) = Len(u[n]) /\ Len(v[n + 1]) = Len(v[n]) + 1
          \/ Len(u[n + 1]) = Len(u[n]) /\ Len(v[n + 1]) = Len(v[n])
      BY <2>6, <2>7
    <2>10. Len(u[n + 1]) + Len(v[n + 1]) <= n + 1
      <3> DEFINE a == Len(u[n])
                 b == Len(v[n])
                 c == Len(u[n + 1])
                 d == Len(v[n + 1])
      <3>1. /\ a \in Nat /\ b \in Nat /\ a + b <= n
            /\ (c = a + 1 /\ d = b) \/ (c = a /\ d = b + 1) \/ (c = a /\ d = b)
        BY <2>5, <2>8, <2>9
      <3> HIDE DEF a, b, c, d
      <3>2. c + d <= n + 1
        BY <3>1, OneMore
      <3>3. QED
        BY <3>2 DEF c, d
    <2>11. QED
      BY <2>6, <2>10
  <1>6. Good(N)
    <2>1. N \in G
      <3> HIDE DEF G
      <3> QED BY <1>3, <1>4, <1>5, Induction DEF G
    <2> HIDE DEF Good
    <2>2. QED
      BY <1>3, <2>1
  <1>7. QED
    BY <1>1, <1>2, <1>6

(* A function on the numbers from 1 to n is a sequence.                    *)
LEMMA Sequenced ==
    ASSUME NEW T, NEW n \in Nat, NEW f \in [1..n -> T]
    PROVE  f \in Seq(T) /\ Len(f) = n /\ DOMAIN f = 1..n
  OBVIOUS

(* The smaller of two numbers.                                             *)
LEMMA SmallerOf ==
    ASSUME NEW m \in Nat, NEW n \in Nat
    PROVE  /\ Smaller(m, n) \in Nat /\ Smaller(m, n) <= m /\ Smaller(m, n) <= n
           /\ Smaller(m, n) = m \/ Smaller(m, n) = n
  BY DEF Smaller

(* The first n elements of a sequence are of it, and no more than n.       *)
LEMMA FirstOf ==
    ASSUME NEW T, NEW s \in Seq(T), NEW n \in Nat
    PROVE  /\ First(s, n) \in Seq(T) /\ Len(First(s, n)) <= n
           /\ Len(First(s, n)) \in Nat
           /\ \A x \in Range(First(s, n)) : x \in Range(s)
  <1> DEFINE m == Smaller(n, Len(s))
  <1>1. m \in Nat /\ m <= n /\ m <= Len(s) /\ Len(s) \in Nat
    <2>1. Len(s) \in Nat
      OBVIOUS
    <2>2. QED
      BY <2>1, SmallerOf
  <1> HIDE DEF m
  <1>2. First(s, n) = SubSeq(s, 1, m)
    BY DEF First, m
  <1>3. /\ SubSeq(s, 1, m) \in Seq(T) /\ Len(SubSeq(s, 1, m)) = m
        /\ \A i \in 1..m : SubSeq(s, 1, m)[i] = s[i]
    BY <1>1
  <1>4. DOMAIN SubSeq(s, 1, m) = 1..m /\ DOMAIN s = 1..Len(s)
    BY <1>3
  <1>5. ASSUME NEW x \in Range(SubSeq(s, 1, m)) PROVE x \in Range(s)
    <2>1. PICK i \in 1..m : x = SubSeq(s, 1, m)[i]
      BY <1>4 DEF Range
    <2>2. i \in DOMAIN s /\ x = s[i]
      BY <1>1, <1>3, <1>4, <2>1
    <2>3. QED
      BY <2>2 DEF Range
  <1>6. QED
    BY <1>1, <1>2, <1>3, <1>5

(* The latest message with images is one of them.                          *)
LEMMA LatestHasImages ==
    ASSUME NEW c \in Seq(Seq(Images)), WithImages(c) # {}
    PROVE  Latest(c) \in WithImages(c) /\ Latest(c) \in DOMAIN c
  <1> DEFINE S == WithImages(c)
  <1>1. S \in SUBSET Nat /\ Len(c) \in Nat /\ \A i \in S : i <= Len(c) /\ i \in DOMAIN c
    BY DEF WithImages
  <1> HIDE DEF S
  <1>2. \E m \in S : \A j \in S : j <= m
    BY <1>1, Greatest DEF S
  <1>3. Newest(S) \in S
    BY <1>2 DEF Newest
  <1>4. QED
    BY <1>1, <1>3 DEF Latest, S

(* NewestFirst lists messages of S.                                        *)
LEMMA NewestFirstLists ==
    ASSUME NEW c \in Seq(Seq(Images)), NEW S
    PROVE  /\ NewestFirst(c, S) \in Seq(Nat)
           /\ \A x \in Range(NewestFirst(c, S)) : x \in S /\ x \in DOMAIN c
  <1> DEFINE back == [k \in DOMAIN c |-> Len(c) + 1 - k]
  <1>1. DOMAIN c = 1..Len(c) /\ Len(c) \in Nat
    OBVIOUS
  <1>2. back \in Seq(Nat) /\ \A x \in Range(back) : x \in DOMAIN c
    <2>1. \A k \in 1..Len(c) : Len(c) + 1 - k \in 1..Len(c)
      BY <1>1
    <2>2. back \in [1..Len(c) -> Nat]
      BY <1>1, <2>1
    <2>3. QED
      BY <1>1, <2>1, <2>2 DEF Range
  <1> HIDE DEF back
  <1>3. /\ Within(back, S) \in Seq(Nat)
        /\ \A x : x \in Range(Within(back, S)) <=> x \in Range(back) /\ x \in S
    BY <1>2, WithinSifts
  <1>4. QED
    BY <1>2, <1>3 DEF NewestFirst, back

Places == [msg : Nat, img : Images]

(* At lists places in the messages of S.                                   *)
LEMMA AtLists ==
    ASSUME NEW c \in Seq(Seq(Images)), NEW S
    PROVE  /\ At(c, S) \in Seq(Places)
           /\ \A p \in Range(At(c, S)) :
                 p.msg \in S /\ p.msg \in DOMAIN c /\ p.img \in Range(c[p.msg])
  <1> DEFINE order == NewestFirst(c, S)
             seqs == [k \in DOMAIN order |-> Placed(c, order[k])]
  <1>1. order \in Seq(Nat) /\ \A x \in Range(order) : x \in S /\ x \in DOMAIN c
    BY NewestFirstLists
  <1> HIDE DEF order
  <1>2. DOMAIN order = 1..Len(order) /\ Len(order) \in Nat
    BY <1>1
  <1>3. ASSUME NEW i \in DOMAIN c
        PROVE  /\ Placed(c, i) \in Seq(Places)
               /\ \A p \in Range(Placed(c, i)) : p.msg = i /\ p.img \in Range(c[i])
    <2>1. c[i] \in Seq(Images) /\ i \in Nat
      OBVIOUS
    <2>2. DOMAIN c[i] = 1..Len(c[i]) /\ \A n \in DOMAIN c[i] : c[i][n] \in Images
      BY <2>1
    <2>3. Len(c[i]) \in Nat
      BY <2>1
    <2>4. Placed(c, i) \in [1..Len(c[i]) -> Places]
      BY <2>1, <2>2 DEF Placed, Places
    <2>5. Placed(c, i) \in Seq(Places)
      BY <2>3, <2>4, Sequenced
    <2>6. QED
      BY <2>5 DEF Range, Placed
  <1>4. \A k \in DOMAIN order : order[k] \in S /\ order[k] \in DOMAIN c
    BY <1>1 DEF Range
  <1>5. seqs \in Seq(Seq(Places))
    <2>1. \A k \in 1..Len(order) : Placed(c, order[k]) \in Seq(Places)
      BY <1>2, <1>3, <1>4
    <2>2. seqs \in [1..Len(order) -> Seq(Places)]
      BY <1>2, <2>1
    <2>3. QED
      BY <1>2, <2>2
  <1>6. /\ FlattenSeq(seqs) \in Seq(Places)
        /\ \A x : x \in Range(FlattenSeq(seqs)) <=> \E k \in DOMAIN seqs : x \in Range(seqs[k])
    <2> HIDE DEF seqs
    <2> QED BY <1>5, FlattenHolds
  <1>7. At(c, S) = FlattenSeq(seqs)
    BY DEF At, order
  <1>8. ASSUME NEW p \in Range(At(c, S))
        PROVE  p.msg \in S /\ p.msg \in DOMAIN c /\ p.img \in Range(c[p.msg])
    <2>1. PICK k \in DOMAIN order : p \in Range(Placed(c, order[k]))
      BY <1>6, <1>7
    <2>2. QED
      BY <1>3, <1>4, <2>1
  <1>9. QED
    BY <1>6, <1>7, <1>8

(* Rounding up a quotient.                                                 *)
LEMMA RoundedUp ==
    ASSUME NEW n \in Nat, NEW b \in Nat \ {0}
    PROVE  /\ (n + b - 1) \div b \in Nat
           /\ n <= ((n + b - 1) \div b) * b
           /\ (n + b - 1) \div b # 0 => (((n + b - 1) \div b) - 1) * b < n
  OBVIOUS

(* Multiples in order.                                                     *)
LEMMA Multiples ==
    ASSUME NEW k \in Nat, NEW m \in Nat, NEW b \in Nat, k <= m
    PROVE  k * b \in Nat /\ m * b \in Nat /\ k * b <= m * b
  OBVIOUS

(* A part of a sequence.                                                   *)
LEMMA PartOf ==
    ASSUME NEW T, NEW s \in Seq(T), NEW i \in Nat, NEW j \in Nat, i <= j, j <= Len(s)
    PROVE  /\ SubSeq(s, i + 1, j) \in Seq(T) /\ Len(SubSeq(s, i + 1, j)) = j - i
           /\ \A x : x \in Range(SubSeq(s, i + 1, j)) <=> \E n \in (i + 1)..j : x = s[n]
  <1> DEFINE p == SubSeq(s, i + 1, j)
  <1>1. /\ p \in Seq(T) /\ Len(p) = j - i /\ DOMAIN p = 1..(j - i)
        /\ \A n \in 1..(j - i) : p[n] = s[i + n]
    OBVIOUS
  <1> HIDE DEF p
  <1>2. ASSUME NEW x \in Range(p) PROVE \E n \in (i + 1)..j : x = s[n]
    <2>1. PICK n \in 1..(j - i) : x = p[n]
      BY <1>1 DEF Range
    <2>2. i + n \in (i + 1)..j /\ x = s[i + n]
      BY <1>1, <2>1
    <2>3. QED
      BY <2>2
  <1>3. ASSUME NEW n \in (i + 1)..j PROVE s[n] \in Range(p)
    <2>1. n - i \in 1..(j - i) /\ i + (n - i) = n
      OBVIOUS
    <2>2. n - i \in DOMAIN p /\ p[n - i] = s[n]
      BY <1>1, <2>1
    <2>3. QED
      BY <2>2 DEF Range
  <1>4. QED
    BY <1>1, <1>2, <1>3 DEF p

(* The batches of an analysis share out its images.                        *)
LEMMA BatchesShare ==
    ASSUME NEW urls \in Seq(Images)
    PROVE  /\ Batches(urls) \in Seq(Task)
           /\ NumberOf(Batches(urls)) = Len(urls)
           /\ \A x : x \in ImagesOf(Batches(urls)) <=> x \in Range(urls)
  <1> DEFINE L == Len(urls)
             K == (L + Batch - 1) \div Batch
             End(k) == Smaller(k * Batch, L)
             Part(k) == SubSeq(urls, (k - 1) * Batch + 1, End(k))
             b == Batches(urls)
  <1>1. L \in Nat /\ Batch \in Nat \ {0} /\ DOMAIN urls = 1..L
    BY VisionAssumption
  <1>2. K \in Nat /\ L <= K * Batch /\ (K # 0 => (K - 1) * Batch < L)
    BY <1>1, RoundedUp
  <1>3. b = [k \in 1..K |-> [imgs |-> Part(k), at |-> "wait", len |-> 0]]
    BY DEF Batches
  <1> HIDE DEF K, L, b
  <1>4. ASSUME NEW k \in 1..K
        PROVE  /\ (k - 1) * Batch \in Nat /\ End(k) \in Nat
               /\ (k - 1) * Batch <= L /\ End(k - 1) = (k - 1) * Batch
               /\ (k - 1) * Batch <= End(k) /\ End(k) <= L
    <2>1. k \in Nat /\ k - 1 \in Nat /\ K - 1 \in Nat /\ k - 1 <= K - 1 /\ K # 0 /\ k - 1 <= k
      BY <1>2
    <2>2. (k - 1) * Batch \in Nat /\ (k - 1) * Batch <= (K - 1) * Batch /\ (K - 1) * Batch \in Nat
      BY <1>1, <2>1, Multiples
    <2>3. k * Batch \in Nat /\ (k - 1) * Batch <= k * Batch
      BY <1>1, <2>1, Multiples
    <2> DEFINE u == (k - 1) * Batch
               v == k * Batch
               w == (K - 1) * Batch
    <2>4. u \in Nat /\ v \in Nat /\ w \in Nat /\ u <= w /\ u <= v /\ w < L
      BY <1>2, <2>1, <2>2, <2>3
    <2> HIDE DEF u, v, w
    <2>5. /\ u <= L /\ Smaller(u, L) = u /\ Smaller(v, L) \in Nat
          /\ u <= Smaller(v, L) /\ Smaller(v, L) <= L
      BY <1>1, <2>4 DEF Smaller
    <2>6. QED
      BY <2>4, <2>5 DEF u, v
  <1>5. ASSUME NEW k \in 1..K
        PROVE  /\ Part(k) \in Seq(Images) /\ Len(Part(k)) = End(k) - End(k - 1)
               /\ \A x : x \in Range(Part(k)) <=> \E n \in (End(k - 1) + 1)..End(k) : x = urls[n]
    <2> DEFINE i == (k - 1) * Batch
               j == End(k)
    <2>1. i \in Nat /\ j \in Nat /\ i <= j /\ j <= Len(urls) /\ End(k - 1) = i
      BY <1>4 DEF L
    <2>2. Part(k) = SubSeq(urls, i + 1, j)
      OBVIOUS
    <2> HIDE DEF i, j, End, Part
    <2>3. /\ SubSeq(urls, i + 1, j) \in Seq(Images) /\ Len(SubSeq(urls, i + 1, j)) = j - i
          /\ \A x : x \in Range(SubSeq(urls, i + 1, j)) <=> \E n \in (i + 1)..j : x = urls[n]
      BY <2>1, PartOf
    <2>4. QED
      BY <2>1, <2>2, <2>3 DEF j
  <1>6. \A k \in 0..K : End(k) \in Nat /\ End(k) <= L
    <2>1. ASSUME NEW k \in 0..K PROVE End(k) \in Nat /\ End(k) <= L
      <3>1. k * Batch \in Nat
        BY <1>1, <1>2, Multiples
      <3>2. QED
        BY <1>1, <3>1, SmallerOf
    <2>2. QED
      BY <2>1
  <1>7. End(0) = 0 /\ End(K) = L
    <2>1. 0 * Batch = 0 /\ K * Batch \in Nat
      BY <1>1, <1>2, Multiples
    <2>2. QED
      BY <1>1, <1>2, <2>1 DEF Smaller
  <1> HIDE DEF End, Part
  <1>8. b \in Seq(Task) /\ Len(b) = K /\ DOMAIN b = 1..K /\ \A k \in 1..K : b[k].imgs = Part(k)
    <2>1. \A k \in 1..K : [imgs |-> Part(k), at |-> "wait", len |-> 0] \in Task
      BY <1>5 DEF Task
    <2>2. b \in [1..K -> Task]
      BY <1>3, <2>1
    <2>3. b \in Seq(Task) /\ Len(b) = K /\ DOMAIN b = 1..K
      BY <1>2, <2>2, Sequenced
    <2>4. QED
      BY <1>3, <2>3
  <1>9. NumberOf(b) = L
    <2> DEFINE lens == [k \in DOMAIN b |-> Len(b[k].imgs)]
    <2>1. \A k \in 1..K : Len(b[k].imgs) = End(k) - End(k - 1) /\ Len(b[k].imgs) \in Nat
      BY <1>5, <1>8
    <2>2. lens \in [1..K -> Nat]
      BY <1>8, <2>1
    <2>3. lens \in Seq(Nat) /\ Len(lens) = K
      BY <1>2, <2>2, Sequenced
    <2>4. \A k \in 1..K : lens[k] = End(k) - End(k - 1)
      BY <1>8, <2>1
    <2> HIDE DEF lens
    <2>5. PICK u \in [0..Len(lens) -> Nat] :
             /\ Total(lens) = u[Len(lens)] /\ u[0] = 0
             /\ \A n \in 1..Len(lens) : u[n] = u[n - 1] + lens[n]
      BY <2>3, TotalUnfolds
    <2> DEFINE G == {n \in Nat : n <= K => u[n] = End(n)}
    <2>6. 0 \in G
      BY <1>7, <2>5
    <2>7. ASSUME NEW n \in Nat, n \in G PROVE n + 1 \in G
      <3> SUFFICES ASSUME n + 1 <= K PROVE u[n + 1] = End(n + 1)
        OBVIOUS
      <3>1. n + 1 \in 1..K /\ n + 1 \in 0..K /\ n \in 0..K /\ (n + 1) - 1 = n /\ u[n] = End(n)
        BY <1>2, <2>7
      <3>2. u[n + 1] = u[n] + lens[n + 1] /\ lens[n + 1] = End(n + 1) - End(n)
        BY <2>3, <2>4, <2>5, <3>1
      <3>3. End(n) \in Nat /\ End(n + 1) \in Nat
        BY <1>6, <3>1
      <3>4. QED
        BY <3>1, <3>2, <3>3
    <2>8. u[K] = End(K)
      <3>1. K \in G
        <4> HIDE DEF G
        <4> QED BY <1>2, <2>6, <2>7, Induction
      <3>2. QED
        BY <1>2, <3>1
    <2>9. QED
      BY <1>7, <2>3, <2>5, <2>8 DEF NumberOf, lens
  <1>10. ASSUME NEW x \in ImagesOf(b) PROVE x \in Range(urls)
    <2>1. PICK k \in 1..K : x \in Range(Part(k))
      BY <1>8 DEF ImagesOf
    <2>2. PICK n \in (End(k - 1) + 1)..End(k) : x = urls[n]
      BY <1>5, <2>1
    <2>3. k - 1 \in 0..K /\ k \in 0..K
      BY <1>2
    <2>4. n \in DOMAIN urls
      BY <1>1, <1>6, <2>3
    <2>5. QED
      BY <2>2, <2>4 DEF Range
  <1>11. ASSUME NEW x \in Range(urls) PROVE x \in ImagesOf(b)
    <2>1. PICK n \in 1..L : x = urls[n]
      BY <1>1 DEF Range
    <2> DEFINE G == {k \in Nat : k <= K => (n <= End(k) => x \in ImagesOf(b))}
    <2>2. 0 \in G
      BY <1>7
    <2>3. ASSUME NEW k \in Nat, k \in G PROVE k + 1 \in G
      <3> SUFFICES ASSUME k + 1 <= K, n <= End(k + 1) PROVE x \in ImagesOf(b)
        OBVIOUS
      <3>1. k + 1 \in 1..K /\ k + 1 \in 0..K /\ k \in 0..K /\ (k + 1) - 1 = k
        BY <1>2
      <3>2. CASE n <= End(k)
        BY <2>3, <3>1, <3>2
      <3>3. CASE ~(n <= End(k))
        <4>1. n \in (End((k + 1) - 1) + 1)..End(k + 1)
          BY <1>6, <3>1, <3>3
        <4>2. x \in Range(Part(k + 1))
          BY <1>5, <2>1, <3>1, <4>1
        <4>3. QED
          BY <1>8, <3>1, <4>2 DEF ImagesOf
      <3>4. QED
        BY <3>2, <3>3
    <2>4. K \in G
      <3> HIDE DEF G
      <3> QED BY <1>2, <2>2, <2>3, Induction
    <2>5. QED
      BY <1>1, <1>2, <1>7, <2>4
  <1>12. QED
    BY <1>8, <1>9, <1>10, <1>11 DEF b, L

(* Whatever obeys the equations of a recursion is the function it defines. *)
LEMMA RecursionIs ==
    ASSUME NEW N \in Nat, NEW V, NEW start, NEW step, NEW f, Recurs(f, N, V, start, step),
           NEW g, g[0] = start, \A i \in 1..N : g[i - 1] \in V => g[i] = step[i][g[i - 1]]
    PROVE  g[N] = f[N] /\ f[N] \in V
  <1> DEFINE S == {n \in Nat : n <= N => g[n] = f[n]}
  <1>1. 0 \in S
    BY DEF Recurs
  <1>2. ASSUME NEW n \in Nat, n \in S PROVE n + 1 \in S
    <2> SUFFICES ASSUME n + 1 <= N PROVE g[n + 1] = f[n + 1]
      OBVIOUS
    <2>1. n + 1 \in 1..N /\ n \in 0..N /\ (n + 1) - 1 = n /\ g[n] = f[n]
      BY <1>2
    <2>2. f[n] \in V /\ f[n + 1] = step[n + 1][f[n]]
      BY <2>1 DEF Recurs
    <2>3. g[n + 1] = step[n + 1][g[n]]
      BY <2>1, <2>2
    <2>4. QED
      BY <2>1, <2>2, <2>3
  <1>3. N \in S
    <2> HIDE DEF S
    <2> QED BY <1>1, <1>2, Induction
  <1>4. N \in 0..N
    OBVIOUS
  <1>5. QED
    BY <1>3, <1>4 DEF Recurs

Description == [img : Images, text : Text]

(* A description was said of its image.                                    *)
Describes(t) == t.text = Unknown \/ t.img \in t.text.of

(* What a task tells of one of its images was said of it, or is unknown.   *)
LEMMA TextOfTask ==
    ASSUME NEW b \in Task, NEW n \in DOMAIN b.imgs
    PROVE  /\ Told(b.imgs[n], TextOf(b)) \in Description
           /\ Describes(Told(b.imgs[n], TextOf(b)))
           /\ Told(b.imgs[n], TextOf(b)).img = b.imgs[n]
  <1>1. b.imgs \in Seq(Images) /\ b.len \in Nat
    BY DEF Task
  <1>2. b.imgs[n] \in Images /\ ToSet(b.imgs) \in SUBSET Images /\ b.imgs[n] \in ToSet(b.imgs)
    BY <1>1 DEF ToSet
  <1>3. TextOf(b) \in Text
    BY <1>1, <1>2 DEF TextOf, Text, Unknown
  <1>4. TextOf(b) = Unknown \/ TextOf(b).of = ToSet(b.imgs)
    BY DEF TextOf
  <1>5. QED
    BY <1>2, <1>3, <1>4 DEF Told, Description, Describes

(* The results of an analysis describe its images, each of them.           *)
LEMMA ResultsDescribe ==
    ASSUME NEW b \in Seq(Task)
    PROVE  /\ Results(b) \in Said
           /\ Len(Results(b)) = NumberOf(b)
           /\ \A t \in Range(Results(b)) : t.img \in ImagesOf(b) /\ Describes(t)
           /\ \A i \in ImagesOf(b) : \E t \in Range(Results(b)) : t.img = i
  <1> DEFINE part(k) == [n \in DOMAIN b[k].imgs |-> Told(b[k].imgs[n], TextOf(b[k]))]
             parts == [k \in DOMAIN b |-> part(k)]
             lens == [k \in DOMAIN b |-> Len(b[k].imgs)]
  <1>1. DOMAIN b = 1..Len(b) /\ Len(b) \in Nat /\ \A k \in DOMAIN b : b[k] \in Task
    OBVIOUS
  <1>2. ASSUME NEW k \in DOMAIN b
        PROVE  /\ part(k) \in Seq(Description) /\ Len(part(k)) = Len(b[k].imgs)
               /\ \A t \in Range(part(k)) : t.img \in Range(b[k].imgs) /\ Describes(t)
               /\ \A i \in Range(b[k].imgs) : \E t \in Range(part(k)) : t.img = i
    <2>1. b[k].imgs \in Seq(Images)
      BY <1>1 DEF Task
    <2>2. DOMAIN b[k].imgs = 1..Len(b[k].imgs) /\ Len(b[k].imgs) \in Nat
      BY <2>1
    <2>3. \A n \in DOMAIN b[k].imgs : /\ part(k)[n] \in Description /\ Describes(part(k)[n])
                                      /\ part(k)[n].img = b[k].imgs[n]
      BY <1>1, TextOfTask
    <2>4. part(k) \in [1..Len(b[k].imgs) -> Description]
      BY <2>2, <2>3
    <2> DEFINE p == part(k)
               c == b[k].imgs
    <2> HIDE DEF p
    <2>5. p \in Seq(Description) /\ Len(p) = Len(c) /\ DOMAIN p = 1..Len(c)
      BY <2>2, <2>4, Sequenced DEF p
    <2>6. \A n \in DOMAIN c : Describes(p[n]) /\ p[n].img = c[n]
      BY <2>3 DEF p
    <2> HIDE DEF c
    <2>7. DOMAIN p = DOMAIN c
      BY <2>2, <2>5 DEF c
    <2>8. /\ \A t \in Range(p) : t.img \in Range(c) /\ Describes(t)
          /\ \A i \in Range(c) : \E t \in Range(p) : t.img = i
      BY <2>6, <2>7 DEF Range
    <2>9. QED
      BY <2>5, <2>8 DEF p, c
  <1> HIDE DEF part
  <1>3. parts \in Seq(Seq(Description)) /\ DOMAIN parts = DOMAIN b
    <2>1. parts \in [1..Len(b) -> Seq(Description)]
      BY <1>1, <1>2
    <2> HIDE DEF parts
    <2>2. QED
      BY <1>1, <2>1, Sequenced
  <1>4. \A k \in DOMAIN b : parts[k] = part(k)
    OBVIOUS
  <1>5. [k \in DOMAIN parts |-> Len(parts[k])] = lens
    BY <1>2, <1>3
  <1>6. Results(b) = FlattenSeq(parts)
    BY DEF Results, part
  <1> HIDE DEF parts, lens
  <1>7. /\ FlattenSeq(parts) \in Seq(Description)
        /\ Len(FlattenSeq(parts)) = Total([k \in DOMAIN parts |-> Len(parts[k])])
        /\ \A x : x \in Range(FlattenSeq(parts)) <=> \E k \in DOMAIN parts : x \in Range(parts[k])
    BY <1>3, FlattenHolds
  <1>8. Len(Results(b)) = NumberOf(b)
    BY <1>5, <1>6, <1>7 DEF NumberOf, lens
  <1>9. ASSUME NEW t \in Range(Results(b)) PROVE t.img \in ImagesOf(b) /\ Describes(t)
    <2>1. PICK k \in DOMAIN b : t \in Range(part(k))
      BY <1>3, <1>4, <1>6, <1>7
    <2>2. QED
      BY <1>2, <2>1 DEF ImagesOf
  <1>10. ASSUME NEW i \in ImagesOf(b) PROVE \E t \in Range(Results(b)) : t.img = i
    <2>1. PICK k \in DOMAIN b : i \in Range(b[k].imgs)
      BY DEF ImagesOf
    <2>2. PICK t \in Range(part(k)) : t.img = i
      BY <1>2, <2>1
    <2>3. t \in Range(Results(b))
      BY <1>3, <1>4, <1>6, <1>7
    <2>4. QED
      BY <2>2, <2>3
  <1>11. QED
    BY <1>6, <1>7, <1>8, <1>9, <1>10 DEF Said, Description

(* What may be remembered: texts, each said of its image.                  *)
Memories == {m \in UNION {[S -> Text] : S \in SUBSET Images} :
                \A i \in DOMAIN m : i \in m[i].of}

(* What the model's invariants say of the cache, as one set.               *)
LEMMA MemoryIs ==
    ASSUME NEW m
    PROVE  m \in Memories <=> /\ DOMAIN m \subseteq Images /\ m \in [DOMAIN m -> Text]
                              /\ \A i \in DOMAIN m : i \in m[i].of
  BY DEF Memories

(* Noting one description leaves a memory.                                 *)
LEMMA NotedIsMemory ==
    ASSUME NEW m \in Memories, NEW t \in Description, Describes(t)
    PROVE  Noted(m, t) \in Memories
  <1>1. CASE t.text = Unknown
    BY <1>1 DEF Noted
  <1>2. CASE t.text # Unknown
    <2> DEFINE D == DOMAIN m \cup {t.img}
               n == [i \in D |-> IF i = t.img THEN t.text ELSE m[i]]
    <2>1. /\ DOMAIN m \subseteq Images /\ m \in [DOMAIN m -> Text]
          /\ \A i \in DOMAIN m : i \in m[i].of
      BY MemoryIs
    <2>2. t.img \in Images /\ t.text \in Text /\ t.img \in t.text.of
      BY <1>2 DEF Description, Describes
    <2>3. n \in [D -> Text] /\ DOMAIN n = D /\ D \subseteq Images
      BY <2>1, <2>2
    <2>4. \A i \in D : i \in n[i].of
      BY <2>1, <2>2
    <2>5. Noted(m, t) = n
      BY <1>2 DEF Noted
    <2> HIDE DEF n, D
    <2>6. n \in Memories
      BY <2>3, <2>4, MemoryIs
    <2>7. QED
      BY <2>5, <2>6
  <1>3. QED
    BY <1>1, <1>2

(* Results are remembered one after the other.                             *)
LEMMA RememberedIsMemory ==
    ASSUME NEW m \in Memories, NEW told \in Said, \A t \in Range(told) : Describes(t)
    PROVE  Remembered(m, told) \in Memories
  <1> DEFINE N == Len(told)
             V == Memories
             step == [i \in 1..N |-> [x \in V |-> Noted(x, told[i])]]
  <1>1. N \in Nat /\ \A i \in 1..N : told[i] \in Description /\ Describes(told[i])
    <2>1. told \in Seq(Description)
      BY DEF Said, Description
    <2>2. N \in Nat /\ DOMAIN told = 1..N /\ \A i \in 1..N : told[i] \in Description
      BY <2>1
    <2>3. QED
      BY <2>2 DEF Range
  <1>2. step \in [1..N -> [V -> V]]
    BY <1>1, NotedIsMemory
  <1> HIDE DEF N, V, step
  <1>3. m \in V
    BY DEF V
  <1>4. PICK f : Recurs(f, N, V, m, step)
    BY <1>1, <1>2, <1>3, Recursion
  <1>5. ASSUME NEW i \in 0..N PROVE f[i] = IF i = 0 THEN m ELSE Noted(f[i - 1], told[i])
    <2>1. CASE i = 0
      BY <1>4, <2>1 DEF Recurs
    <2>2. CASE i # 0
      <3>1. i \in 1..N /\ i - 1 \in 0..N
        BY <1>1, <2>2
      <3>2. f[i - 1] \in V /\ f[i] = step[i][f[i - 1]]
        BY <1>4, <3>1 DEF Recurs
      <3>3. step[i][f[i - 1]] = Noted(f[i - 1], told[i])
        BY <3>1, <3>2 DEF step
      <3>4. QED
        BY <2>2, <3>2, <3>3
    <2>3. QED
      BY <2>1, <2>2
  <1>6. f = [n \in 0..N |-> IF n = 0 THEN m ELSE Noted(f[n - 1], told[n])]
    BY <1>4, <1>5 DEF Recurs
  <1> DEFINE u[n \in 0..N] == IF n = 0 THEN m ELSE Noted(u[n - 1], told[n])
  <1>7. u = [n \in 0..N |-> IF n = 0 THEN m ELSE Noted(u[n - 1], told[n])]
    BY <1>6
  <1>8. Remembered(m, told) = u[N]
    BY DEF Remembered, N
  <1> HIDE DEF u
  <1>9. \A n \in 0..N : u[n] = IF n = 0 THEN m ELSE Noted(u[n - 1], told[n])
    BY <1>7
  <1>10. 0 \in 0..N /\ \A n \in 1..N : n \in 0..N /\ n # 0
    BY <1>1
  <1>11. u[0] = m
    BY <1>9, <1>10
  <1>12. \A i \in 1..N : u[i - 1] \in V => u[i] = step[i][u[i - 1]]
    BY <1>9, <1>10 DEF step
  <1>13. u[N] = f[N] /\ f[N] \in V
    BY <1>1, <1>4, <1>11, <1>12, RecursionIs
  <1>14. QED
    BY <1>8, <1>13 DEF V

(* The descriptions found for messages outside S.                          *)
Counted(found, S) == [i \in DOMAIN found |-> IF i \in S THEN 0 ELSE Len(found[i])]
CountIn(found, S) == Total(Counted(found, S))

(* What is found, as sequences of descriptions.                            *)
LEMMA FoundTyped ==
    ASSUME NEW found \in Seq(Said)
    PROVE  /\ DOMAIN found = 1..Len(found) /\ Len(found) \in Nat
           /\ \A m \in DOMAIN found : found[m] \in Seq(Description) /\ Len(found[m]) \in Nat
  <1>1. DOMAIN found = 1..Len(found) /\ Len(found) \in Nat
        /\ \A m \in DOMAIN found : found[m] \in Said
    OBVIOUS
  <1>2. \A x \in Seq(Description) : Len(x) \in Nat
    OBVIOUS
  <1>3. QED
    BY <1>1, <1>2 DEF Said, Description

(* Their count is a number.                                                *)
LEMMA CountNat ==
    ASSUME NEW found \in Seq(Said), NEW S
    PROVE  /\ Counted(found, S) \in Seq(Nat) /\ Len(Counted(found, S)) = Len(found)
           /\ CountIn(found, S) \in Nat
  <1>1. Counted(found, S) \in [1..Len(found) -> Nat]
    BY FoundTyped DEF Counted
  <1>2. Len(found) \in Nat
    BY FoundTyped
  <1>3. Counted(found, S) \in Seq(Nat) /\ Len(Counted(found, S)) = Len(found)
    BY <1>1, <1>2, Sequenced
  <1>4. QED
    BY <1>3, TotalNat DEF CountIn

(* One message gets d descriptions more.                                   *)
Put(found, k, x) == [found EXCEPT ![k] = x]

(* A message with d descriptions more counts d more, outside S.            *)
LEMMA CountGrows ==
    ASSUME NEW found \in Seq(Said), NEW S, NEW k \in DOMAIN found, NEW x \in Said,
           NEW d \in Nat, Len(x) = Len(found[k]) + d
    PROVE  /\ Put(found, k, x) \in Seq(Said)
           /\ Len(Put(found, k, x)) = Len(found)
           /\ CountIn(Put(found, k, x), S) = CountIn(found, S) + (IF k \in S THEN 0 ELSE d)
  <1> DEFINE g == Put(found, k, x)
             s == Counted(found, S)
             t == Counted(g, S)
  <1>1. g \in Seq(Said) /\ Len(g) = Len(found) /\ DOMAIN g = DOMAIN found
        /\ DOMAIN found = 1..Len(found)
    BY DEF Put
  <1>2. g[k] = x /\ \A i \in DOMAIN found : i # k => g[i] = found[i]
    BY DEF Put
  <1> HIDE DEF g
  <1>3. s \in Seq(Nat) /\ Len(s) = Len(found) /\ t \in Seq(Nat) /\ Len(t) = Len(found)
    BY <1>1, CountNat
  <1>4. k \in 1..Len(s) /\ \A i \in 1..Len(s) : i # k => s[i] = t[i]
    BY <1>1, <1>2, <1>3 DEF Counted
  <1>5. /\ s[k] = IF k \in S THEN 0 ELSE Len(found[k])
        /\ t[k] = IF k \in S THEN 0 ELSE Len(found[k]) + d
    BY <1>1, <1>2 DEF Counted
  <1>6. Len(found[k]) \in Nat
    BY FoundTyped
  <1> HIDE DEF s, t
  <1>7. Total(t) + s[k] = Total(s) + t[k]
    BY <1>3, <1>4, TotalChanges
  <1>8. Total(s) \in Nat /\ Total(t) \in Nat
    BY <1>3, TotalNat
  <1>9. Total(t) = Total(s) + (IF k \in S THEN 0 ELSE d)
    <2>1. CASE k \in S
      <3>1. s[k] = 0 /\ t[k] = 0
        BY <1>5, <2>1
      <3>2. QED
        BY <1>7, <1>8, <2>1, <3>1
    <2>2. CASE k \notin S
      <3> DEFINE a == Len(found[k])
      <3>1. a \in Nat /\ s[k] = a /\ t[k] = a + d
        BY <1>5, <1>6, <2>2
      <3> HIDE DEF a
      <3>2. Total(t) + a = Total(s) + (a + d)
        BY <1>7, <3>1
      <3>3. Total(t) = Total(s) + d
        BY <1>8, <3>1, <3>2
      <3>4. QED
        BY <2>2, <3>3
    <2>3. QED
      BY <2>1, <2>2
  <1>10. QED
    BY <1>1, <1>9 DEF CountIn, s, t, g

(* Nothing found yet.                                                      *)
LEMMA CountNothing ==
    ASSUME NEW found \in Seq(Said), NEW S, \A i \in DOMAIN found : found[i] = <<>>
    PROVE  CountIn(found, S) = 0
  <1>1. Counted(found, S) \in Seq(Nat) /\ Len(Counted(found, S)) = Len(found)
    BY CountNat
  <1>2. \A i \in DOMAIN found : Counted(found, S)[i] = 0
    BY DEF Counted
  <1>3. DOMAIN found = 1..Len(found)
    BY FoundTyped
  <1>4. QED
    BY <1>1, <1>2, <1>3, TotalZero DEF CountIn

-----------------------------------------------------------------------------
(* What recalling may make of what was found.                              *)
Extends(c, S, d, found, f) ==
    /\ f \in Seq(Said) /\ Len(f) = Len(found)
    /\ CountIn(f, S) <= CountIn(found, S) + d
    /\ \A m \in DOMAIN found :
          /\ \A t \in Range(found[m]) : t \in Range(f[m])
          /\ \A t \in Range(f[m]) :
                t \in Range(found[m]) \/ (t.img \in Range(c[m]) /\ Describes(t))

(* One description recalled.                                               *)
LEMMA ExtendsOnce ==
    ASSUME NEW c, NEW S, NEW n \in Nat, NEW found \in Seq(Said), NEW f,
           Extends(c, S, n, found, f), NEW m \in DOMAIN found, NEW t \in Description,
           t.img \in Range(c[m]), Describes(t)
    PROVE  Extends(c, S, n + 1, found, [f EXCEPT ![m] = Append(@, t)])
  <1> DEFINE x == Append(f[m], t)
             g == Put(f, m, x)
  <1>1. f \in Seq(Said) /\ DOMAIN f = DOMAIN found
    <2>1. DOMAIN found = 1..Len(found)
      BY FoundTyped
    <2>2. f \in Seq(Said) /\ Len(f) = Len(found)
      BY DEF Extends
    <2>3. DOMAIN f = 1..Len(f)
      BY <2>2, FoundTyped
    <2>4. QED
      BY <2>1, <2>2, <2>3
  <1>2. f[m] \in Seq(Description) /\ Len(f[m]) \in Nat
    BY <1>1, FoundTyped
  <1> DEFINE a == f[m]
  <1> HIDE DEF a
  <1>3. a \in Seq(Description)
    BY <1>2 DEF a
  <1>4. /\ Append(a, t) \in Seq(Description) /\ Len(Append(a, t)) = Len(a) + 1
        /\ Range(Append(a, t)) = Range(a) \cup {t}
    BY <1>3, RangeAppended
  <1>5. x \in Said /\ Len(x) = Len(f[m]) + 1 /\ Range(x) = Range(f[m]) \cup {t}
    BY <1>4 DEF a, Said, Description
  <1> HIDE DEF x
  <1>6. /\ g \in Seq(Said) /\ Len(g) = Len(f)
        /\ CountIn(g, S) = CountIn(f, S) + (IF m \in S THEN 0 ELSE 1)
    <2>1. m \in DOMAIN f /\ 1 \in Nat
      BY <1>1
    <2> DEFINE one == 1
    <2>2. one \in Nat /\ Len(x) = Len(f[m]) + one
      BY <1>5
    <2> HIDE DEF one
    <2>3. /\ g \in Seq(Said) /\ Len(g) = Len(f)
          /\ CountIn(g, S) = CountIn(f, S) + (IF m \in S THEN 0 ELSE one)
      BY <1>1, <1>5, <2>1, <2>2, CountGrows
    <2>4. QED
      BY <2>3 DEF one
  <1>7. g[m] = x /\ \A i \in DOMAIN found : i # m => g[i] = f[i]
    BY <1>1 DEF Put
  <1>8. g = [f EXCEPT ![m] = Append(@, t)]
    BY DEF x, Put
  <1> HIDE DEF g
  <1>9. CountIn(g, S) <= CountIn(found, S) + (n + 1)
    <2>1. CountIn(f, S) \in Nat /\ CountIn(found, S) \in Nat
      BY <1>1, CountNat
    <2>2. CountIn(f, S) <= CountIn(found, S) + n
      BY DEF Extends
    <2>3. QED
      BY <1>6, <2>1, <2>2
  <1>10. ASSUME NEW i \in DOMAIN found
         PROVE  /\ \A y \in Range(found[i]) : y \in Range(g[i])
                /\ \A y \in Range(g[i]) :
                      y \in Range(found[i]) \/ (y.img \in Range(c[i]) /\ Describes(y))
    <2>1. /\ \A y \in Range(found[i]) : y \in Range(f[i])
          /\ \A y \in Range(f[i]) :
                y \in Range(found[i]) \/ (y.img \in Range(c[i]) /\ Describes(y))
      BY DEF Extends
    <2>2. CASE i = m
      BY <1>5, <1>7, <2>1, <2>2
    <2>3. CASE i # m
      BY <1>7, <2>1, <2>3
    <2>4. QED
      BY <2>2, <2>3
  <1>11. Len(g) = Len(found)
    BY <1>6 DEF Extends
  <1>12. QED
    BY <1>6, <1>8, <1>9, <1>10, <1>11 DEF Extends

(* Recalling adds cached descriptions of images to their messages.         *)
LEMMA RecalledExtends ==
    ASSUME NEW c, NEW S, NEW found \in Seq(Said), NEW known \in Seq(Places),
           cache \in Memories,
           \A p \in Range(known) : /\ p.msg \in DOMAIN found /\ p.img \in DOMAIN cache
                                   /\ p.img \in Range(c[p.msg])
    PROVE  Extends(c, S, Len(known), found, Recalled(found, known))
  <1> DEFINE N == Len(known)
             V == Seq(Said)
             next(f, n) == [f EXCEPT ![known[n].msg] =
                               Append(@, Told(known[n].img, cache[known[n].img]))]
             step == [i \in 1..N |-> [f \in V |-> next(f, i)]]
  <1>1. N \in Nat /\ \A i \in 1..N :
           /\ known[i].msg \in DOMAIN found /\ known[i].img \in DOMAIN cache
           /\ known[i].img \in Range(c[known[i].msg])
    <2>1. N \in Nat /\ DOMAIN known = 1..N
      OBVIOUS
    <2>2. QED
      BY <2>1 DEF Range
  <1>2. ASSUME NEW i \in 1..N
        PROVE  LET t == Told(known[i].img, cache[known[i].img])
               IN  t \in Description /\ t.img = known[i].img /\ Describes(t)
    <2>1. /\ DOMAIN cache \subseteq Images /\ cache \in [DOMAIN cache -> Text]
          /\ \A j \in DOMAIN cache : j \in cache[j].of
      BY MemoryIs
    <2>2. QED
      BY <1>1, <2>1 DEF Told, Description, Describes
  <1>3. \E u : /\ Recalled(found, known) = u[N]
               /\ \A n \in 0..N : u[n] = IF n = 0 THEN found ELSE next(u[n - 1], n)
    <2>1. ASSUME NEW f \in V, NEW i \in 1..N PROVE next(f, i) \in V
      <3> DEFINE m == known[i].msg
                 t == Told(known[i].img, cache[known[i].img])
                 x == Append(f[m], t)
      <3>1. DOMAIN f = 1..Len(f) /\ Len(f) \in Nat /\ \A j \in DOMAIN f : f[j] \in Seq(Description)
        BY FoundTyped
      <3>2. CASE m \in DOMAIN f
        <4>1. f[m] \in Seq(Description) /\ t \in Description
          BY <1>2, <3>1, <3>2
        <4> HIDE DEF t, m
        <4>2. x \in Said
          BY <4>1 DEF Said, Description
        <4> HIDE DEF x
        <4>3. [f EXCEPT ![m] = x] \in Seq(Said)
          BY <3>2, <4>2
        <4>4. QED
          BY <4>3 DEF x, m, t
      <3>3. CASE m \notin DOMAIN f
        <4>1. [f EXCEPT ![m] = x] = f
          BY <3>3
        <4>2. QED
          BY <4>1
      <3>4. QED
        BY <3>2, <3>3
    <2>2. step \in [1..N -> [V -> V]] /\ found \in V
      BY <2>1
    <2> DEFINE start == found
    <2> HIDE DEF N, V, step, start
    <2>3. PICK f : Recurs(f, N, V, start, step)
      BY <1>1, <2>2, Recursion DEF start
    <2>4. ASSUME NEW i \in 0..N PROVE f[i] = IF i = 0 THEN found ELSE next(f[i - 1], i)
      <3>1. CASE i = 0
        BY <2>3, <3>1 DEF Recurs, start
      <3>2. CASE i # 0
        <4>1. i \in 1..N /\ i - 1 \in 0..N
          BY <1>1, <3>2
        <4>2. f[i - 1] \in V /\ f[i] = step[i][f[i - 1]]
          BY <2>3, <4>1 DEF Recurs
        <4>3. step[i][f[i - 1]] = next(f[i - 1], i)
          BY <4>1, <4>2 DEF step
        <4>4. QED
          BY <3>2, <4>2, <4>3
      <3>3. QED
        BY <3>1, <3>2
    <2>5. f = [n \in 0..N |-> IF n = 0 THEN found ELSE next(f[n - 1], n)]
      BY <2>3, <2>4 DEF Recurs
    <2> DEFINE u[n \in 0..N] == IF n = 0 THEN found ELSE next(u[n - 1], n)
    <2>6. u = [n \in 0..N |-> IF n = 0 THEN found ELSE next(u[n - 1], n)]
      BY <2>5
    <2>7. Recalled(found, known) = u[N]
      BY DEF Recalled, N
    <2> HIDE DEF u, next
    <2>8. \A n \in 0..N : u[n] = IF n = 0 THEN found ELSE next(u[n - 1], n)
      BY <2>6
    <2>9. QED
      BY <2>7, <2>8
  <1>4. PICK u : /\ Recalled(found, known) = u[N]
                 /\ \A n \in 0..N : u[n] = IF n = 0 THEN found ELSE next(u[n - 1], n)
    BY <1>3
  <1> DEFINE G == {n \in Nat : n <= N => Extends(c, S, n, found, u[n])}
  <1> HIDE DEF step, V
  <1>5. 0 \in G
    <2>1. 0 \in 0..N
      BY <1>1
    <2>2. u[0] = found
      BY <1>4, <2>1
    <2>3. CountIn(found, S) \in Nat
      BY CountNat
    <2>4. Extends(c, S, 0, found, found)
      BY <2>3 DEF Extends
    <2>5. QED
      BY <2>2, <2>4
  <1>6. ASSUME NEW n \in Nat, n \in G PROVE n + 1 \in G
    <2> SUFFICES ASSUME n + 1 <= N PROVE Extends(c, S, n + 1, found, u[n + 1])
      OBVIOUS
    <2>1. n + 1 \in 1..N /\ n + 1 \in 0..N /\ (n + 1) - 1 = n /\ n + 1 # 0 /\ n <= N
      BY <1>1
    <2>2. Extends(c, S, n, found, u[n])
      BY <1>6, <2>1
    <2>3. u[n + 1] = next(u[n], n + 1)
      BY <1>4, <2>1
    <2> DEFINE m == known[n + 1].msg
               t == Told(known[n + 1].img, cache[known[n + 1].img])
    <2>4. m \in DOMAIN found /\ t \in Description /\ t.img \in Range(c[m]) /\ Describes(t)
      BY <1>1, <1>2, <2>1
    <2>5. u[n + 1] = [u[n] EXCEPT ![m] = Append(@, t)]
      BY <2>3
    <2> HIDE DEF m, t, next
    <2>6. Extends(c, S, n + 1, found, [u[n] EXCEPT ![m] = Append(@, t)])
      BY <2>2, <2>4, ExtendsOnce
    <2>7. QED
      BY <2>5, <2>6
  <1>7. N \in G
    <2> HIDE DEF G
    <2> QED BY <1>1, <1>5, <1>6, Induction
  <1>8. QED
    BY <1>1, <1>4, <1>7

Wordings == [told : Said, len : Nat]
Suffix(texts, i) == [k \in DOMAIN texts |-> IF k < i THEN 0 ELSE texts[k].len]

(* The lengths that From adds up.                                          *)
LEMMA SuffixTyped ==
    ASSUME NEW texts \in Seq(Wordings), NEW i
    PROVE  /\ Suffix(texts, i) \in Seq(Nat) /\ Len(Suffix(texts, i)) = Len(texts)
           /\ DOMAIN texts = 1..Len(texts) /\ Len(texts) \in Nat
           /\ From(texts, i) = Total(Suffix(texts, i))
           /\ From(texts, i) \in Nat
           /\ \A k \in 1..Len(texts) : /\ texts[k].len \in Nat
                                       /\ Suffix(texts, i)[k] = IF k < i THEN 0 ELSE texts[k].len
  <1>1. /\ DOMAIN texts = 1..Len(texts) /\ Len(texts) \in Nat
        /\ \A k \in 1..Len(texts) : texts[k] \in Wordings
    OBVIOUS
  <1>2. \A k \in 1..Len(texts) : texts[k].len \in Nat
    BY <1>1 DEF Wordings
  <1>3. Suffix(texts, i) \in [1..Len(texts) -> Nat]
    BY <1>1, <1>2 DEF Suffix
  <1>4. Suffix(texts, i) \in Seq(Nat) /\ Len(Suffix(texts, i)) = Len(texts)
    BY <1>1, <1>3, Sequenced
  <1>5. From(texts, i) = Total(Suffix(texts, i))
    BY DEF From, Suffix
  <1>6. \A k \in 1..Len(texts) : Suffix(texts, i)[k] = IF k < i THEN 0 ELSE texts[k].len
    BY <1>1 DEF Suffix
  <1>7. QED
    BY <1>1, <1>2, <1>4, <1>5, <1>6, TotalNat

(* The texts from a later one on come to no more.                          *)
LEMMA FromShrinks ==
    ASSUME NEW texts \in Seq(Wordings), NEW i \in Nat, NEW j \in Nat, i <= j
    PROVE  From(texts, j) <= From(texts, i)
  <1> DEFINE s == Suffix(texts, j)
             t == Suffix(texts, i)
  <1>1. s \in Seq(Nat) /\ t \in Seq(Nat) /\ Len(s) = Len(t) /\ Len(s) = Len(texts)
    BY SuffixTyped
  <1>2. ASSUME NEW k \in 1..Len(s) PROVE s[k] <= t[k]
    <2>1. texts[k].len \in Nat /\ k \in Nat
      BY <1>1, SuffixTyped
    <2>2. s[k] = (IF k < j THEN 0 ELSE texts[k].len) /\ t[k] = (IF k < i THEN 0 ELSE texts[k].len)
      BY <1>1, SuffixTyped
    <2>3. QED
      BY <2>1, <2>2
  <1>3. Total(s) <= Total(t)
    <2> HIDE DEF s, t
    <2> QED BY <1>1, <1>2, TotalGrows
  <1>4. QED
    BY <1>3, SuffixTyped

(* The texts from i on are the i-th and those behind it.                   *)
LEMMA FromSplits ==
    ASSUME NEW texts \in Seq(Wordings), NEW i \in DOMAIN texts
    PROVE  From(texts, i) = texts[i].len + From(texts, i + 1)
  <1> DEFINE s == Suffix(texts, i + 1)
             t == Suffix(texts, i)
  <1>1. s \in Seq(Nat) /\ t \in Seq(Nat) /\ Len(s) = Len(t) /\ Len(s) = Len(texts)
    BY SuffixTyped
  <1>2. i \in 1..Len(texts) /\ i \in Nat
    BY SuffixTyped
  <1>3. s[i] = 0 /\ t[i] = texts[i].len /\ texts[i].len \in Nat
    <2>1. texts[i].len \in Nat
      BY <1>2, SuffixTyped
    <2>2. s[i] = IF i < i + 1 THEN 0 ELSE texts[i].len
      BY <1>2, SuffixTyped
    <2>3. t[i] = IF i < i THEN 0 ELSE texts[i].len
      BY <1>2, SuffixTyped
    <2>4. i < i + 1 /\ ~(i < i)
      BY <1>2
    <2>5. QED
      BY <2>1, <2>2, <2>3, <2>4
  <1>4. ASSUME NEW k \in 1..Len(s), k # i PROVE s[k] = t[k]
    <2>1. /\ s[k] = (IF k < i + 1 THEN 0 ELSE texts[k].len)
          /\ t[k] = (IF k < i THEN 0 ELSE texts[k].len)
      BY <1>1, SuffixTyped
    <2>2. k < i + 1 <=> k < i
      BY <1>1, <1>2, <1>4
    <2>3. QED
      BY <2>1, <2>2
  <1>5. Total(t) + s[i] = Total(s) + t[i]
    <2> HIDE DEF s, t
    <2> QED BY <1>1, <1>2, <1>4, TotalChanges
  <1>6. Total(s) \in Nat /\ Total(t) \in Nat
    BY <1>1, TotalNat
  <1>7. Total(t) = texts[i].len + Total(s)
    <2> HIDE DEF s, t
    <2> QED BY <1>3, <1>5, <1>6
  <1>8. QED
    BY <1>7, SuffixTyped

(* Texts that agree from i on come to the same.                            *)
LEMMA FromAgrees ==
    ASSUME NEW texts \in Seq(Wordings), NEW others \in Seq(Wordings), Len(texts) = Len(others),
           NEW i \in Nat, \A k \in DOMAIN texts : i <= k => texts[k].len = others[k].len
    PROVE  From(texts, i) = From(others, i)
  <1>1. DOMAIN texts = 1..Len(texts) /\ DOMAIN others = 1..Len(texts)
    BY SuffixTyped
  <1>2. \A k \in DOMAIN texts :
           (IF k < i THEN 0 ELSE texts[k].len) = (IF k < i THEN 0 ELSE others[k].len)
    BY <1>1
  <1>3. Suffix(texts, i) = Suffix(others, i)
    BY <1>1, <1>2 DEF Suffix
  <1>4. QED
    BY <1>3, SuffixTyped

(* Texts without length from i on come to nothing.                         *)
LEMMA FromNone ==
    ASSUME NEW texts \in Seq(Wordings), NEW i \in Nat,
           \A k \in DOMAIN texts : i <= k => texts[k].len = 0
    PROVE  From(texts, i) = 0
  <1> DEFINE s == Suffix(texts, i)
  <1>1. s \in Seq(Nat) /\ Len(s) = Len(texts) /\ DOMAIN texts = 1..Len(texts)
    BY SuffixTyped
  <1>2. ASSUME NEW k \in 1..Len(s) PROVE s[k] = 0
    <2>1. s[k] = IF k < i THEN 0 ELSE texts[k].len
      BY <1>1, SuffixTyped
    <2>2. k \in Nat /\ (k < i \/ i <= k)
      OBVIOUS
    <2>3. QED
      BY <1>1, <2>1, <2>2
  <1>3. Total(s) = 0
    <2> HIDE DEF s
    <2> QED BY <1>1, <1>2, TotalZero
  <1>4. QED
    BY <1>3, SuffixTyped

(* The text of a message of which nothing is told.                         *)
LEMMA NothingTyped == Nothing \in Wordings /\ Nothing.len = 0
  <1>1. <<>> \in Said
    BY DEF Said
  <1>2. QED
    BY <1>1 DEF Nothing, Wordings

(* What remains fits, and what fitted from the start remains.              *)
LEMMA TextsFit ==
    ASSUME NEW texts \in Seq(Wordings), NEW room \in Nat
    PROVE  /\ Fitting(Cut(texts, room), room) \in Seq(Wordings)
           /\ From(Fitting(Cut(texts, room), room), 1) <= room
           /\ \A i \in DOMAIN texts :
                 From(texts, i) <= room => Fitting(Cut(texts, room), room)[i] = texts[i]
  <1> DEFINE C == Cut(texts, room)
             F == Fitting(C, room)
             over == {i \in DOMAIN texts : From(texts, i) > room}
             N == Len(texts)
  <1>1. DOMAIN texts = 1..N /\ N \in Nat /\ \A i : From(texts, i) \in Nat
    BY SuffixTyped
  <1>2. CASE over = {}
    <2>1. C = texts
      BY <1>2 DEF Cut
    <2>2. \A i \in DOMAIN texts : F[i] = texts[i]
      BY <1>1, <1>2, <2>1 DEF Fitting
    <2>3. F = texts
      <3>1. F \in [1..N -> Wordings] /\ texts \in [1..N -> Wordings]
        BY <1>1, <2>1, <2>2 DEF Fitting
      <3>2. QED
        BY <1>1, <2>1, <2>2 DEF Fitting
    <2>4. From(texts, 1) <= room
      <3>1. CASE N = 0
        <4>1. \A k \in DOMAIN texts : 1 <= k => texts[k].len = 0
          BY <1>1, <3>1
        <4> DEFINE one == 1
        <4> HIDE DEF one
        <4>2. From(texts, one) = 0
          BY <4>1, FromNone DEF one
        <4>3. QED
          BY <4>2 DEF one
      <3>2. CASE N # 0
        <4>1. 1 \in DOMAIN texts
          BY <1>1, <3>2
        <4>2. ~(From(texts, 1) > room)
          BY <1>2, <4>1
        <4>3. QED
          BY <1>1, <4>2
      <3>3. QED
        BY <3>1, <3>2
    <2>5. QED
      BY <2>3, <2>4
  <1>3. CASE over # {}
    <2> DEFINE first == CHOOSE i \in over : \A j \in over : j <= i
               newer == From(texts, first + 1)
               n == Marker + (IF newer < room THEN room - newer ELSE 1)
    <2>1. first \in over /\ \A j \in over : j <= first
      <3>1. over \in SUBSET Nat /\ \A i \in over : i <= N
        BY <1>1
      <3> HIDE DEF over
      <3>2. \E m \in over : \A j \in over : j <= m
        BY <1>1, <1>3, <3>1, Greatest
      <3>3. QED
        BY <3>2
    <2> HIDE DEF first
    <2>2. first \in DOMAIN texts /\ first \in 1..N /\ From(texts, first) > room
      BY <1>1, <2>1
    <2>3. \A i \in DOMAIN texts : i <= first => From(texts, i) > room
      <3> SUFFICES ASSUME NEW i \in DOMAIN texts, i <= first PROVE From(texts, i) > room
        OBVIOUS
      <3>1. i \in Nat /\ first \in Nat
        BY <1>1, <2>2
      <3>2. From(texts, first) <= From(texts, i)
        BY <3>1, FromShrinks
      <3>3. QED
        BY <1>1, <2>2, <3>2
    <2>4. \A i \in DOMAIN texts : i > first => From(texts, i) <= room
      BY <1>1, <2>1, <2>2
    <2>5. newer \in Nat /\ newer <= room
      <3>1. newer \in Nat
        BY <1>1
      <3>2. CASE first + 1 \in DOMAIN texts
        BY <2>2, <2>4, <3>2, <1>1
      <3>3. CASE first + 1 \notin DOMAIN texts
        <4> DEFINE i == first + 1
        <4>1. i \in Nat /\ \A k \in DOMAIN texts : ~(i <= k)
          BY <1>1, <2>2, <3>3
        <4> HIDE DEF i
        <4>2. From(texts, i) = 0
          BY <4>1, FromNone
        <4>3. QED
          BY <4>2 DEF i
      <3>4. QED
        BY <3>1, <3>2, <3>3
    <2>6. n \in Nat /\ n + newer > room
      BY <2>5, VisionAssumption
    <2>7. C = [texts EXCEPT ![first].len = n]
      BY <1>3 DEF Cut, first
    <2> HIDE DEF C, n
    <2>8. /\ C \in Seq(Wordings) /\ Len(C) = N /\ DOMAIN C = DOMAIN texts
          /\ C[first].len = n /\ \A i \in DOMAIN texts : i # first => C[i] = texts[i]
      <3>1. texts[first] \in Wordings
        BY <2>2
      <3>2. [texts[first] EXCEPT !.len = n] \in Wordings /\ [texts[first] EXCEPT !.len = n].len = n
        BY <2>6, <3>1 DEF Wordings
      <3> DEFINE w == [texts[first] EXCEPT !.len = n]
      <3>3. C = [texts EXCEPT ![first] = w]
        BY <2>7
      <3> HIDE DEF w
      <3>4. w \in Wordings /\ w.len = n
        BY <3>2 DEF w
      <3>5. QED
        BY <1>1, <2>2, <3>3, <3>4
    <2>9. From(C, first + 1) = newer
      <3> DEFINE i == first + 1
      <3>1. i \in Nat /\ \A k \in DOMAIN texts : i <= k => k # first
        BY <1>1, <2>2
      <3> HIDE DEF i
      <3>2. \A k \in DOMAIN texts : i <= k => texts[k].len = C[k].len
        BY <2>8, <3>1
      <3>3. From(texts, i) = From(C, i)
        BY <2>8, <3>1, <3>2, FromAgrees
      <3>4. QED
        BY <3>3 DEF i
    <2>10. From(C, first) > room
      <3>1. From(C, first) = C[first].len + From(C, first + 1)
        BY <2>2, <2>8, FromSplits
      <3>2. QED
        BY <2>5, <2>6, <2>8, <2>9, <3>1
    <2>11. \A i \in DOMAIN texts : i <= first => From(C, i) > room
      <3> SUFFICES ASSUME NEW i \in DOMAIN texts, i <= first PROVE From(C, i) > room
        OBVIOUS
      <3>0. \A j : From(C, j) \in Nat
        BY <2>8, SuffixTyped
      <3>1. i \in Nat /\ first \in Nat /\ From(C, i) \in Nat /\ From(C, first) \in Nat
        BY <1>1, <2>2, <3>0
      <3>2. From(C, first) <= From(C, i)
        BY <2>8, <3>1, FromShrinks
      <3>3. QED
        BY <2>10, <3>1, <3>2
    <2>12. \A i \in DOMAIN texts : i > first => From(C, i) = From(texts, i)
      <3> SUFFICES ASSUME NEW i \in DOMAIN texts, i > first PROVE From(C, i) = From(texts, i)
        OBVIOUS
      <3>1. i \in Nat /\ \A k \in DOMAIN texts : i <= k => texts[k].len = C[k].len
        BY <1>1, <2>2, <2>8
      <3>2. From(texts, i) = From(C, i)
        BY <2>8, <3>1, FromAgrees
      <3>3. QED
        BY <3>2
    <2>13. /\ \A i \in DOMAIN texts : i <= first => F[i] = Nothing
           /\ \A i \in DOMAIN texts : i > first => F[i] = texts[i]
      <3>1. \A i \in DOMAIN texts : F[i] = IF From(C, i) > room THEN Nothing ELSE C[i]
        BY <2>8 DEF Fitting
      <3>2. \A i \in DOMAIN texts : i <= first => F[i] = Nothing
        BY <2>11, <3>1
      <3>3. ASSUME NEW i \in DOMAIN texts, i > first PROVE F[i] = texts[i]
        <4>1. From(C, i) <= room /\ From(C, i) \in Nat /\ i # first
          BY <1>1, <2>2, <2>4, <2>12, <3>3
        <4>2. ~(From(C, i) > room)
          BY <4>1
        <4>3. QED
          BY <2>8, <3>1, <4>1, <4>2
      <3>4. QED
        BY <3>2, <3>3
    <2>14. F \in Seq(Wordings) /\ Len(F) = N /\ DOMAIN F = DOMAIN texts
      <3>1. \A i \in DOMAIN texts : i <= first \/ i > first
        BY <1>1, <2>2
      <3>2. \A i \in DOMAIN texts : F[i] \in Wordings
        BY <2>13, <3>1, NothingTyped
      <3>3. DOMAIN F = DOMAIN texts /\ F = [i \in DOMAIN F |-> F[i]]
        BY <2>8 DEF Fitting
      <3> HIDE DEF F
      <3>4. F \in [1..N -> Wordings]
        BY <1>1, <3>2, <3>3
      <3>5. QED
        BY <1>1, <3>4, Sequenced
    <2> HIDE DEF F, over
    <2>15. From(F, 1) <= room
      <3> DEFINE a == From(texts, first + 1)
      <3>1. first + 1 \in Nat /\ first \in Nat
        BY <1>1, <2>2
      <3> DEFINE i == first + 1
                 one == 1
      <3>2. /\ i \in Nat /\ one \in Nat
            /\ \A k \in DOMAIN texts : (i <= k => k > first) /\ (k < i => k <= first)
        BY <1>1, <3>1
      <3> HIDE DEF i, one
      <3>3. From(F, i) = From(texts, i)
        <4>1. \A k \in DOMAIN texts : i <= k => texts[k].len = F[k].len
          BY <2>13, <3>2
        <4>2. From(texts, i) = From(F, i)
          BY <2>14, <3>2, <4>1, FromAgrees
        <4>3. QED
          BY <4>2
      <3>4. From(F, one) = From(F, i)
        <4>1. Suffix(F, one) = Suffix(F, i)
          <5>1. ASSUME NEW k \in DOMAIN F
                PROVE  (IF k < one THEN 0 ELSE F[k].len) = (IF k < i THEN 0 ELSE F[k].len)
            <6>1. k \in 1..N /\ k \in DOMAIN texts
              BY <1>1, <2>14
            <6>2. CASE k < i
              <7>1. F[k].len = 0
                BY <2>13, <3>2, <6>1, <6>2, NothingTyped
              <7>2. QED
                BY <6>2, <7>1
            <6>3. CASE ~(k < i)
              BY <6>1, <6>3 DEF one
            <6>4. QED
              BY <6>2, <6>3
          <5>2. QED
            BY <5>1 DEF Suffix
        <4>2. QED
          BY <2>14, <4>1, SuffixTyped
      <3>5. QED
        BY <2>5, <3>3, <3>4 DEF i, one
    <2>16. \A i \in DOMAIN texts : From(texts, i) <= room => F[i] = texts[i]
      <3> SUFFICES ASSUME NEW i \in DOMAIN texts, From(texts, i) <= room PROVE F[i] = texts[i]
        OBVIOUS
      <3>1. i \in 1..N /\ From(texts, i) \in Nat
        BY <1>1
      <3>2. i > first
        BY <2>2, <2>3, <3>1
      <3>3. QED
        BY <2>13, <3>2
    <2>17. QED
      BY <2>14, <2>15, <2>16 DEF F, C
  <1>4. QED
    BY <1>2, <1>3

(* The fields of a request.                                                *)
LEMMA RequestTyped ==
    ASSUME NEW q \in Request
    PROVE  /\ q.conv \in Seq(Seq(Images)) /\ q.room \in Nat /\ q.todo \in Seq(Nat)
           /\ q.spent \in Nat /\ q.found \in Seq(Said) /\ q.said \in Seq(Wordings)
           /\ q.intact \in BOOLEAN /\ q.noticed \in BOOLEAN
           /\ q.pc \in {"new", "look", "wait", "cut", "done"}
  BY DEF Request, Wordings

(* The budgets of a request.                                               *)
LEMMA Budgets ==
    ASSUME NEW q \in Request
    PROVE  X(q) \in Nat /\ Cap(q) \in Nat /\ Cap(q) <= X(q)
  <1>1. q.room \in Nat /\ Share \in Nat \ {0} /\ Golden \in Nat
    BY RequestTyped, VisionAssumption
  <1>2. q.room \div Share \in Nat
    BY <1>1
  <1>3. X(q) \in Nat
    BY <1>2 DEF X
  <1>4. QED
    BY <1>1, <1>3, SmallerOf DEF Cap

NewestOf(c) == {i \in WithImages(c) : i = Latest(c)}

(* Earlier counts what is found outside the newest message with images.    *)
LEMMA EarlierIs ==
    ASSUME NEW q \in Request
    PROVE  Earlier(q) = CountIn(q.found, NewestOf(q.conv)) /\ Earlier(q) \in Nat
  <1>1. Counted(q.found, NewestOf(q.conv))
           = [i \in DOMAIN q.found |->
                 IF i \in WithImages(q.conv) /\ i = Latest(q.conv) THEN 0 ELSE Len(q.found[i])]
    BY DEF Counted, NewestOf
  <1>2. Earlier(q) = CountIn(q.found, NewestOf(q.conv))
    BY <1>1 DEF Earlier, CountIn
  <1>3. QED
    BY <1>2, CountNat, RequestTyped

(* Descriptions added to those found for a message.                        *)
IsAdded(f, found, m, told) ==
    /\ f \in Seq(Said) /\ Len(f) = Len(found) /\ DOMAIN f = DOMAIN found
    /\ \A S : CountIn(f, S) = CountIn(found, S) + (IF m \in S THEN 0 ELSE Len(told))
    /\ Len(told) \in Nat
    /\ \A i \in DOMAIN found : \A t \in Range(found[i]) : t \in Range(f[i])
    /\ \A t \in Range(told) : t \in Range(f[m])
    /\ \A i \in DOMAIN found : \A t \in Range(f[i]) :
          t \in Range(found[i]) \/ (i = m /\ t \in Range(told))

(* Put at message m, the descriptions told come behind those it had.       *)
LEMMA FoundAdded ==
    ASSUME NEW found \in Seq(Said), NEW m \in DOMAIN found, NEW told \in Said,
           NEW f, f = Put(found, m, found[m] \o told)
    PROVE  IsAdded(f, found, m, told)
  <1> DEFINE a == found[m]
             x == a \o told
  <1>0. f = Put(found, m, x)
    OBVIOUS
  <1>1. a \in Seq(Description) /\ told \in Seq(Description) /\ Len(a) \in Nat
    BY FoundTyped DEF Said, Description
  <1> HIDE DEF a
  <1>2. /\ x \in Seq(Description) /\ Len(x) = Len(a) + Len(told)
        /\ Range(x) = Range(a) \cup Range(told)
    BY <1>1, RangeJoined
  <1>3. Len(told) \in Nat
    BY <1>1
  <1>4. x \in Said /\ Len(x) = Len(found[m]) + Len(told)
    BY <1>2 DEF Said, Description, a
  <1>5. /\ \A i \in DOMAIN found : f[i] = IF i = m THEN x ELSE found[i]
        /\ DOMAIN f = DOMAIN found
    BY <1>0 DEF Put
  <1> HIDE DEF x
  <1>6. /\ f \in Seq(Said) /\ Len(f) = Len(found)
        /\ \A S : CountIn(f, S) = CountIn(found, S) + (IF m \in S THEN 0 ELSE Len(told))
    BY <1>0, <1>3, <1>4, CountGrows
  <1>7. \A i \in DOMAIN found : \A t \in Range(found[i]) : t \in Range(f[i])
    BY <1>2, <1>5 DEF a
  <1>8. \A t \in Range(told) : t \in Range(f[m])
    BY <1>2, <1>5
  <1>9. \A i \in DOMAIN found : \A t \in Range(f[i]) :
           t \in Range(found[i]) \/ (i = m /\ t \in Range(told))
    BY <1>2, <1>5 DEF a
  <1>10. QED
    BY <1>3, <1>5, <1>6, <1>7, <1>8, <1>9 DEF IsAdded

-----------------------------------------------------------------------------
(* One step of a request: what it finds, and what it has to keep.          *)
Looking(q) ==
    /\ q \in Request /\ Len(q.found) = Len(q.conv) /\ FoundDescribes(q)
    /\ q.room # 0 /\ InDepth(q.conv) # {}
    /\ q.said = [i \in DOMAIN q.conv |-> Nothing]
    /\ \A k \in DOMAIN q.todo : q.todo[k] \in DOMAIN q.conv
    /\ q.spent <= Cap(q)

(* The message at hand and those that remain are of the conversation.      *)
LEMMA HeadAndTail ==
    ASSUME NEW q \in Request, q.todo # <<>>, \A k \in DOMAIN q.todo : q.todo[k] \in DOMAIN q.conv
    PROVE  /\ Head(q.todo) \in DOMAIN q.conv /\ Tail(q.todo) \in Seq(Nat)
           /\ \A k \in DOMAIN Tail(q.todo) : Tail(q.todo)[k] \in DOMAIN q.conv
  <1> DEFINE s == q.todo
             D == DOMAIN q.conv
  <1>1. s \in Seq(Nat) /\ s # <<>> /\ \A k \in DOMAIN s : s[k] \in D
    BY RequestTyped
  <1> HIDE DEF s, D
  <1>2. Len(s) \in Nat \ {0} /\ DOMAIN s = 1..Len(s) /\ Head(s) = s[1]
    BY <1>1
  <1>3. Tail(s) \in Seq(Nat) /\ DOMAIN Tail(s) = 1..(Len(s) - 1)
        /\ \A k \in 1..(Len(s) - 1) : Tail(s)[k] = s[k + 1]
    BY <1>1
  <1>4. Head(s) \in D
    BY <1>1, <1>2
  <1>5. \A k \in 1..(Len(s) - 1) : k + 1 \in DOMAIN s
    BY <1>2
  <1>6. \A k \in DOMAIN Tail(s) : Tail(s)[k] \in D
    BY <1>1, <1>3, <1>5
  <1>7. QED
    BY <1>3, <1>4, <1>6 DEF s, D

(* There is a place for what is found of each message.                     *)
LEMMA SameDomains ==
    ASSUME NEW q \in Request, Len(q.found) = Len(q.conv)
    PROVE  DOMAIN q.found = DOMAIN q.conv
  <1>1. q.conv \in Seq(Seq(Images)) /\ q.found \in Seq(Said)
    BY RequestTyped
  <1>2. DOMAIN q.conv = 1..Len(q.conv) /\ DOMAIN q.found = 1..Len(q.found)
    BY <1>1
  <1>3. QED
    BY <1>2

(* With an image in reach there is a newest message with images.           *)
LEMMA LatestIsNewest ==
    ASSUME NEW c \in Seq(Seq(Images)), InDepth(c) # {}
    PROVE  /\ Latest(c) \in WithImages(c) /\ Latest(c) \in DOMAIN c
           /\ \A m : m \in NewestOf(c) <=> m = Latest(c)
  <1>1. WithImages(c) # {}
    BY DEF InDepth
  <1>2. QED
    BY <1>1, LatestHasImages DEF NewestOf

(* What a look at message m takes of it.                                   *)
Takes(q) ==
    IF Head(q.todo) = Latest(q.conv) THEN q.conv[Head(q.todo)]
    ELSE First(q.conv[Head(q.todo)], Cap(q) - q.spent)
Hits(q) == Within(Takes(q), {i \in Images : Cached(i)})
Misses(q) == Within(Takes(q), {i \in Images : ~Cached(i)})
FoundHits(q) == [k \in DOMAIN Hits(q) |-> Told(Hits(q)[k], cache[Hits(q)[k]])]
Spends(q) == IF Head(q.todo) = Latest(q.conv) THEN q.spent ELSE q.spent + Len(Takes(q))

(* What a look takes is of the message at hand and within the cap; each    *)
(* image of it is told of or missed, and what is told was said of it.      *)
LEMMA LookTakes ==
    ASSUME cache \in Memories, NEW q, Looking(q), q.todo # <<>>
    PROVE  /\ Takes(q) \in Seq(Images) /\ Len(Takes(q)) \in Nat
           /\ \A i \in Range(Takes(q)) : i \in Range(q.conv[Head(q.todo)])
           /\ Spends(q) \in Nat /\ Spends(q) <= Cap(q)
           /\ FoundHits(q) \in Said /\ Misses(q) \in Seq(Images)
           /\ Len(FoundHits(q)) \in Nat /\ Len(Misses(q)) \in Nat
           /\ Len(FoundHits(q)) + Len(Misses(q)) <= Len(Takes(q))
           /\ \A t \in Range(FoundHits(q)) : t.img \in Range(Takes(q)) /\ Describes(t)
           /\ \A i \in Range(Misses(q)) : i \in Range(Takes(q))
           /\ \A i \in Range(Takes(q)) :
                 (\E t \in Range(FoundHits(q)) : t.img = i) \/ i \in Range(Misses(q))
  <1> DEFINE m == Head(q.todo)
             taken == Takes(q)
             hits == Hits(q)
             misses == Misses(q)
             H == {i \in Images : Cached(i)}
             M == {i \in Images : ~Cached(i)}
  <1>1. q \in Request /\ m \in DOMAIN q.conv /\ q.conv \in Seq(Seq(Images))
    BY HeadAndTail, RequestTyped DEF Looking
  <1>2. q.conv[m] \in Seq(Images)
    BY <1>1
  <1>3. q.spent \in Nat /\ Cap(q) \in Nat /\ q.spent <= Cap(q)
    BY <1>1, RequestTyped, Budgets DEF Looking
  <1>4. Cap(q) - q.spent \in Nat
    BY <1>3
  <1>5. /\ taken \in Seq(Images) /\ Len(taken) \in Nat
        /\ \A i \in Range(taken) : i \in Range(q.conv[m])
        /\ Head(q.todo) # Latest(q.conv) => Len(taken) <= Cap(q) - q.spent
    <2>1. CASE Head(q.todo) = Latest(q.conv)
      <3>1. taken = q.conv[m]
        BY <2>1 DEF Takes
      <3>2. Len(q.conv[m]) \in Nat
        BY <1>2
      <3>3. QED
        BY <1>2, <2>1, <3>1, <3>2
    <2>2. CASE Head(q.todo) # Latest(q.conv)
      <3> DEFINE s == q.conv[m]
                 n == Cap(q) - q.spent
      <3>1. taken = First(s, n)
        BY <2>2 DEF Takes
      <3>2. s \in Seq(Images) /\ n \in Nat
        BY <1>2, <1>4
      <3> HIDE DEF s, n
      <3>3. /\ First(s, n) \in Seq(Images) /\ Len(First(s, n)) <= n
            /\ Len(First(s, n)) \in Nat
            /\ \A x \in Range(First(s, n)) : x \in Range(s)
        BY <3>2, FirstOf
      <3>4. QED
        BY <3>1, <3>3 DEF s, n
    <2>3. QED
      BY <2>1, <2>2
  <1> HIDE DEF m, taken
  <1>6. /\ hits \in Seq(Images)
        /\ \A x : x \in Range(hits) <=> x \in Range(taken) /\ x \in H
    <2> HIDE DEF H
    <2>1. /\ Within(taken, H) \in Seq(Images)
          /\ \A x : x \in Range(Within(taken, H)) <=> x \in Range(taken) /\ x \in H
      BY <1>5, WithinSifts
    <2>2. QED
      BY <2>1 DEF Hits, taken, H
  <1>7. /\ misses \in Seq(Images)
        /\ \A x : x \in Range(misses) <=> x \in Range(taken) /\ x \in M
    <2> HIDE DEF M
    <2>1. /\ Within(taken, M) \in Seq(Images)
          /\ \A x : x \in Range(Within(taken, M)) <=> x \in Range(taken) /\ x \in M
      BY <1>5, WithinSifts
    <2>2. QED
      BY <2>1 DEF Misses, taken, M
  <1>8. Len(hits) + Len(misses) <= Len(taken)
    <2>1. H \cap M = {}
      OBVIOUS
    <2> HIDE DEF H, M
    <2>2. Len(Within(taken, H)) + Len(Within(taken, M)) <= Len(taken)
      BY <1>5, <2>1, WithinApart
    <2>3. QED
      BY <2>2 DEF Hits, Misses, taken, H, M
  <1>9. /\ DOMAIN cache \subseteq Images /\ cache \in [DOMAIN cache -> Text]
        /\ \A j \in DOMAIN cache : j \in cache[j].of
    BY MemoryIs
  <1> HIDE DEF hits, misses
  <1>10. /\ DOMAIN hits = 1..Len(hits) /\ Len(hits) \in Nat /\ Len(misses) \in Nat
         /\ \A k \in DOMAIN hits : hits[k] \in Range(hits)
    BY <1>6, <1>7 DEF Range
  <1>11. FoundHits(q) = [k \in DOMAIN hits |-> Told(hits[k], cache[hits[k]])]
    BY DEF FoundHits, hits
  <1>12. \A k \in DOMAIN hits : /\ Told(hits[k], cache[hits[k]]) \in Description
                                /\ Describes(Told(hits[k], cache[hits[k]]))
                                /\ Told(hits[k], cache[hits[k]]).img = hits[k]
    BY <1>6, <1>9, <1>10 DEF Told, Description, Describes, Cached
  <1>13. /\ FoundHits(q) \in Said /\ Len(FoundHits(q)) = Len(hits)
         /\ DOMAIN FoundHits(q) = DOMAIN hits
    <2> DEFINE F == FoundHits(q)
    <2>1. F \in [1..Len(hits) -> Description]
      BY <1>10, <1>11, <1>12
    <2> HIDE DEF F
    <2>2. F \in Seq(Description) /\ Len(F) = Len(hits) /\ DOMAIN F = 1..Len(hits)
      BY <1>10, <2>1, Sequenced
    <2>3. QED
      BY <1>10, <2>2 DEF F, Said, Description
  <1>14. \A t \in Range(FoundHits(q)) : t.img \in Range(taken) /\ Describes(t)
    <2> SUFFICES ASSUME NEW t \in Range(FoundHits(q)) PROVE t.img \in Range(taken) /\ Describes(t)
      OBVIOUS
    <2>1. PICK k \in DOMAIN hits : t = FoundHits(q)[k]
      BY <1>13 DEF Range
    <2>2. t = Told(hits[k], cache[hits[k]])
      BY <1>11, <2>1
    <2>3. QED
      BY <1>6, <1>10, <1>12, <2>2
  <1>15. ASSUME NEW i \in Range(taken)
         PROVE  (\E t \in Range(FoundHits(q)) : t.img = i) \/ i \in Range(misses)
    <2>1. i \in Images
      BY <1>5 DEF Range
    <2>2. CASE Cached(i)
      <3>1. i \in Range(hits)
        BY <1>6, <2>1, <2>2
      <3>2. PICK k \in DOMAIN hits : i = hits[k]
        BY <3>1 DEF Range
      <3>3. /\ FoundHits(q)[k] = Told(hits[k], cache[hits[k]])
            /\ FoundHits(q)[k] \in Range(FoundHits(q))
        BY <1>11, <1>13, <3>2 DEF Range
      <3>4. QED
        BY <1>12, <3>2, <3>3
    <2>3. CASE ~Cached(i)
      BY <1>7, <2>1, <2>3
    <2>4. QED
      BY <2>2, <2>3
  <1>16. Spends(q) \in Nat /\ Spends(q) <= Cap(q)
    <2>1. CASE Head(q.todo) = Latest(q.conv)
      BY <1>3, <2>1 DEF Spends
    <2>2. CASE Head(q.todo) # Latest(q.conv)
      <3>1. Spends(q) = q.spent + Len(taken)
        BY <2>2 DEF Spends, taken
      <3>2. QED
        BY <1>3, <1>5, <2>2, <3>1
    <2>3. QED
      BY <2>1, <2>2
  <1>17. QED
    BY <1>5, <1>7, <1>8, <1>10, <1>13, <1>14, <1>15, <1>16 DEF taken, m, misses

(* A request after it looked at a message: it goes on, or waits.           *)
HasFound(q, told) == Put(q.found, Head(q.todo), q.found[Head(q.todo)] \o told)
Passed(q) == [q EXCEPT !.found = HasFound(q, FoundHits(q)), !.spent = Spends(q),
                       !.todo = Tail(q.todo)]
Waits(q) == [q EXCEPT !.found = HasFound(q, FoundHits(q)), !.spent = Spends(q),
                      !.pc = "wait"]

(* Of a request that is not done less has to be shown.                     *)
LEMMA NotDone ==
    ASSUME NEW q, NEW b, q.pc # "done", Len(q.found) = Len(q.conv), FoundDescribes(q),
           Earlier(q) <= X(q), Under(q, b)
    PROVE  Stands(q, b)
  BY DEF Stands, Fits, NewestTold

(* A request between its messages, or in one, is looking.                  *)
LEMMA LookingNow ==
    ASSUME NEW q \in Request, NEW b, Stands(q, b), q.pc \in {"look", "wait"}
    PROVE  Looking(q)
  BY DEF Stands, Under, Looking

(* Descriptions found of images of the message at hand.                    *)
LEMMA HasFoundMore ==
    ASSUME NEW q, Looking(q), q.todo # <<>>, NEW told \in Said,
           \A t \in Range(told) : t.img \in Range(q.conv[Head(q.todo)]) /\ Describes(t)
    PROVE  /\ HasFound(q, told) \in Seq(Said) /\ Len(HasFound(q, told)) = Len(q.conv)
           /\ CountIn(HasFound(q, told), NewestOf(q.conv))
                 = Earlier(q) + (IF Head(q.todo) = Latest(q.conv) THEN 0 ELSE Len(told))
           /\ \A m \in DOMAIN q.conv : \A t \in Range(HasFound(q, told)[m]) :
                 t.img \in Range(q.conv[m]) /\ Describes(t)
           /\ \A i : (\E t \in Range(q.found[Latest(q.conv)]) : t.img = i) =>
                     \E t \in Range(HasFound(q, told)[Latest(q.conv)]) : t.img = i
           /\ Head(q.todo) = Latest(q.conv) =>
                 \A t \in Range(told) : t \in Range(HasFound(q, told)[Latest(q.conv)])
           /\ DOMAIN HasFound(q, told) = DOMAIN q.conv
  <1> DEFINE m == Head(q.todo)
             S == NewestOf(q.conv)
             f == HasFound(q, told)
             found == q.found
  <1>1. /\ q \in Request /\ m \in DOMAIN q.conv /\ DOMAIN found = DOMAIN q.conv
        /\ found \in Seq(Said) /\ q.conv \in Seq(Seq(Images)) /\ Len(found) = Len(q.conv)
    BY HeadAndTail, SameDomains, RequestTyped DEF Looking
  <1>2. (m \in S <=> m = Latest(q.conv)) /\ Latest(q.conv) \in DOMAIN q.conv
    BY <1>1, LatestIsNewest DEF Looking
  <1> HIDE DEF m, S, found
  <1>3. f = Put(found, m, found[m] \o told)
    BY DEF HasFound, m, found
  <1> HIDE DEF f
  <1>4. /\ f \in Seq(Said) /\ Len(f) = Len(found) /\ DOMAIN f = DOMAIN found
        /\ CountIn(f, S) = CountIn(found, S) + (IF m \in S THEN 0 ELSE Len(told))
        /\ Len(told) \in Nat
        /\ \A i \in DOMAIN found : \A t \in Range(found[i]) : t \in Range(f[i])
        /\ \A t \in Range(told) : t \in Range(f[m])
        /\ \A i \in DOMAIN found : \A t \in Range(f[i]) :
              t \in Range(found[i]) \/ (i = m /\ t \in Range(told))
    <2>1. m \in DOMAIN found
      BY <1>1
    <2>2. IsAdded(f, found, m, told)
      BY <1>1, <1>3, <2>1, FoundAdded
    <2>3. QED
      BY <2>2 DEF IsAdded
  <1>5. CountIn(found, S) = Earlier(q)
    BY <1>1, EarlierIs DEF found, S
  <1>6. \A i \in DOMAIN q.conv : \A t \in Range(f[i]) : t.img \in Range(q.conv[i]) /\ Describes(t)
    <2> SUFFICES ASSUME NEW i \in DOMAIN q.conv, NEW t \in Range(f[i])
                 PROVE  t.img \in Range(q.conv[i]) /\ Describes(t)
      OBVIOUS
    <2>1. CASE t \in Range(found[i])
      BY <1>1, <2>1 DEF Looking, FoundDescribes, Describes, found
    <2>2. CASE i = m /\ t \in Range(told)
      BY <2>2 DEF m
    <2>3. QED
      BY <1>1, <1>4, <2>1, <2>2
  <1>7. CountIn(f, S) = Earlier(q) + (IF m = Latest(q.conv) THEN 0 ELSE Len(told))
    BY <1>2, <1>4, <1>5
  <1>8. ASSUME NEW i, \E t \in Range(q.found[Latest(q.conv)]) : t.img = i
        PROVE  \E t \in Range(f[Latest(q.conv)]) : t.img = i
    BY <1>1, <1>2, <1>4, <1>8 DEF found
  <1>9. m = Latest(q.conv) => \A t \in Range(told) : t \in Range(f[Latest(q.conv)])
    BY <1>4
  <1>10. QED
    BY <1>1, <1>4, <1>6, <1>7, <1>8, <1>9 DEF f, m, S

(* All of a message was cached: the request goes on and stands.            *)
LEMMA PassedStands ==
    ASSUME cache \in Memories, NEW q \in Request, NEW b, Stands(q, b), q.pc = "look",
           q.todo # <<>>, Misses(q) = <<>>
    PROVE  Passed(q) \in Request /\ Stands(Passed(q), b)
  <1> DEFINE p == Passed(q)
             told == FoundHits(q)
             f == HasFound(q, told)
  <1>1. Looking(q)
    BY LookingNow
  <1>2. /\ told \in Said /\ Len(told) \in Nat /\ Len(told) <= Len(Takes(q))
        /\ Len(Takes(q)) \in Nat
        /\ \A t \in Range(told) : t.img \in Range(q.conv[Head(q.todo)]) /\ Describes(t)
        /\ Spends(q) \in Nat /\ Spends(q) <= Cap(q)
        /\ \A i \in Range(Takes(q)) : \E t \in Range(told) : t.img = i
    <2>1. Range(Misses(q)) = {} /\ Len(Misses(q)) = 0
      BY DEF Range
    <2>2. QED
      BY <1>1, <2>1, LookTakes
  <1> HIDE DEF told
  <1>3. /\ f \in Seq(Said) /\ Len(f) = Len(q.conv) /\ DOMAIN f = DOMAIN q.conv
        /\ CountIn(f, NewestOf(q.conv))
              = Earlier(q) + (IF Head(q.todo) = Latest(q.conv) THEN 0 ELSE Len(told))
        /\ \A m \in DOMAIN q.conv : \A t \in Range(f[m]) :
              t.img \in Range(q.conv[m]) /\ Describes(t)
        /\ \A i : (\E t \in Range(q.found[Latest(q.conv)]) : t.img = i) =>
                  \E t \in Range(f[Latest(q.conv)]) : t.img = i
        /\ Head(q.todo) = Latest(q.conv) =>
              \A t \in Range(told) : t \in Range(f[Latest(q.conv)])
    BY <1>1, <1>2, HasFoundMore
  <1> HIDE DEF f
  <1>4. /\ Tail(q.todo) \in Seq(Nat)
        /\ \A k \in DOMAIN Tail(q.todo) : Tail(q.todo)[k] \in DOMAIN q.conv
    BY <1>1, HeadAndTail DEF Looking
  <1>5. p = [q EXCEPT !.found = f, !.spent = Spends(q), !.todo = Tail(q.todo)]
    BY DEF Passed, f, told
  <1>6. p \in Request
    BY <1>2, <1>3, <1>4, <1>5 DEF Request
  <1>7. /\ p.pc = "look" /\ p.conv = q.conv /\ p.room = q.room /\ p.said = q.said
        /\ p.found = f /\ p.spent = Spends(q) /\ p.todo = Tail(q.todo)
    BY <1>5 DEF Request
  <1> HIDE DEF p
  <1>8. FoundDescribes(p)
    BY <1>3, <1>7 DEF FoundDescribes, Describes
  <1>9. Earlier(p) <= p.spent /\ Earlier(p) \in Nat
    <2>1. Earlier(p) = CountIn(f, NewestOf(q.conv)) /\ Earlier(p) \in Nat
      BY <1>6, <1>7, EarlierIs
    <2>2. Earlier(q) \in Nat /\ q.spent \in Nat
      BY EarlierIs, RequestTyped
    <2>3. Earlier(q) <= q.spent
      <3>1. Awaited(q, b) = 0 /\ Earlier(q) + Awaited(q, b) <= q.spent
        BY DEF Stands, Under, Awaited
      <3>2. QED
        BY <2>2, <3>1
    <2>4. CASE Head(q.todo) = Latest(q.conv)
      BY <1>3, <1>7, <2>1, <2>2, <2>3, <2>4 DEF Spends
    <2>5. CASE Head(q.todo) # Latest(q.conv)
      <3>1. p.spent = q.spent + Len(Takes(q)) /\ Earlier(p) = Earlier(q) + Len(told)
        BY <1>3, <1>7, <2>1, <2>5 DEF Spends
      <3>2. QED
        BY <1>2, <2>1, <2>2, <2>3, <3>1
    <2>6. QED
      BY <2>4, <2>5
  <1>10. X(p) = X(q) /\ Cap(p) = Cap(q)
    BY <1>7 DEF X, Cap
  <1>11. Earlier(p) <= X(p)
    <2>1. X(q) \in Nat /\ Cap(q) \in Nat /\ Cap(q) <= X(q)
      BY Budgets
    <2>2. QED
      BY <1>2, <1>7, <1>9, <1>10, <2>1
  <1>12. NewestCovered(p, b)
    <2> SUFFICES ASSUME NEW i \in Range(q.conv[Latest(q.conv)]) PROVE ToldOf(p, i)
      BY <1>7 DEF NewestCovered
    <2>1. CASE Head(q.todo) = Latest(q.conv)
      <3>1. Takes(q) = q.conv[Latest(q.conv)]
        BY <2>1 DEF Takes
      <3>2. PICK t \in Range(told) : t.img = i
        BY <1>2, <3>1
      <3>3. t \in Range(f[Latest(q.conv)])
        BY <1>3, <2>1
      <3>4. QED
        BY <1>7, <3>2, <3>3 DEF ToldOf
    <2>2. CASE Head(q.todo) # Latest(q.conv)
      <3>1. NewestCovered(q, b)
        BY <2>2 DEF Stands, Under, NewestAhead
      <3>2. ToldOf(q, i)
        BY <3>1 DEF NewestCovered
      <3>3. QED
        BY <1>3, <1>7, <3>2 DEF ToldOf
    <2>3. QED
      BY <2>1, <2>2
  <1>13. Under(p, b)
    <2>1. Awaited(p, b) = 0
      BY <1>7 DEF Awaited
    <2>2. Earlier(p) + Awaited(p, b) <= p.spent
      BY <1>9, <2>1
    <2>3. p.spent <= Cap(p)
      BY <1>2, <1>7, <1>10
    <2>4. p.room # 0 /\ InDepth(p.conv) # {} /\ p.said = [i \in DOMAIN p.conv |-> Nothing]
      BY <1>1, <1>7 DEF Looking
    <2>5. QED
      BY <1>4, <1>7, <1>12, <2>2, <2>3, <2>4 DEF Under
  <1>14. Stands(p, b)
    BY <1>3, <1>7, <1>8, <1>11, <1>13, NotDone
  <1>15. QED
    BY <1>6, <1>14 DEF p

(* Some of it was not: the request waits for its analysis and stands.      *)
LEMMA WaitsStands ==
    ASSUME cache \in Memories, NEW q \in Request, NEW b, Stands(q, b), q.pc = "look",
           q.todo # <<>>
    PROVE  /\ Waits(q) \in Request /\ Batches(Misses(q)) \in Seq(Task)
           /\ Stands(Waits(q), Batches(Misses(q)))
  <1> DEFINE p == Waits(q)
             told == FoundHits(q)
             f == HasFound(q, told)
             c == Batches(Misses(q))
  <1>1. Looking(q)
    BY LookingNow
  <1>2. /\ told \in Said /\ Len(told) \in Nat /\ Misses(q) \in Seq(Images) /\ Len(Misses(q)) \in Nat
        /\ Len(Takes(q)) \in Nat /\ Len(told) + Len(Misses(q)) <= Len(Takes(q))
        /\ \A t \in Range(told) : t.img \in Range(q.conv[Head(q.todo)]) /\ Describes(t)
        /\ Spends(q) \in Nat /\ Spends(q) <= Cap(q)
        /\ \A i \in Range(Misses(q)) : i \in Range(q.conv[Head(q.todo)])
        /\ \A i \in Range(Takes(q)) :
              (\E t \in Range(told) : t.img = i) \/ i \in Range(Misses(q))
    BY <1>1, LookTakes
  <1> HIDE DEF told
  <1>3. /\ f \in Seq(Said) /\ Len(f) = Len(q.conv) /\ DOMAIN f = DOMAIN q.conv
        /\ CountIn(f, NewestOf(q.conv))
              = Earlier(q) + (IF Head(q.todo) = Latest(q.conv) THEN 0 ELSE Len(told))
        /\ \A m \in DOMAIN q.conv : \A t \in Range(f[m]) :
              t.img \in Range(q.conv[m]) /\ Describes(t)
        /\ \A i : (\E t \in Range(q.found[Latest(q.conv)]) : t.img = i) =>
                  \E t \in Range(f[Latest(q.conv)]) : t.img = i
        /\ Head(q.todo) = Latest(q.conv) =>
              \A t \in Range(told) : t \in Range(f[Latest(q.conv)])
    BY <1>1, <1>2, HasFoundMore
  <1> HIDE DEF f
  <1>4. /\ c \in Seq(Task) /\ NumberOf(c) = Len(Misses(q))
        /\ \A x : x \in ImagesOf(c) <=> x \in Range(Misses(q))
    BY <1>2, BatchesShare
  <1> HIDE DEF c
  <1>5. p = [q EXCEPT !.found = f, !.spent = Spends(q), !.pc = "wait"]
    BY DEF Waits, f, told
  <1>6. p \in Request
    BY <1>2, <1>3, <1>5 DEF Request
  <1>7. /\ p.pc = "wait" /\ p.conv = q.conv /\ p.room = q.room /\ p.said = q.said
        /\ p.found = f /\ p.spent = Spends(q) /\ p.todo = q.todo
    BY <1>5 DEF Request
  <1> HIDE DEF p
  <1>8. FoundDescribes(p)
    BY <1>3, <1>7 DEF FoundDescribes, Describes
  <1>9. Earlier(p) + Awaited(p, c) <= p.spent /\ Earlier(p) \in Nat /\ Awaited(p, c) \in Nat
    <2>1. Earlier(p) = CountIn(f, NewestOf(q.conv)) /\ Earlier(p) \in Nat
      BY <1>6, <1>7, EarlierIs
    <2>2. Earlier(q) \in Nat /\ q.spent \in Nat
      BY EarlierIs, RequestTyped
    <2>3. Earlier(q) <= q.spent
      <3>1. Awaited(q, b) = 0 /\ Earlier(q) + Awaited(q, b) <= q.spent
        BY DEF Stands, Under, Awaited
      <3>2. QED
        BY <2>2, <3>1
    <2>4. /\ IsNewest(p, Head(p.todo)) <=> Head(q.todo) = Latest(q.conv)
      BY <1>1, <1>7, LatestIsNewest, RequestTyped DEF IsNewest, Looking
    <2>5. CASE Head(q.todo) = Latest(q.conv)
      <3>1. Awaited(p, c) = 0 /\ p.spent = q.spent /\ Earlier(p) = Earlier(q) + 0
        BY <1>3, <1>7, <2>1, <2>4, <2>5 DEF Spends, Awaited
      <3>2. QED
        BY <2>1, <2>2, <2>3, <3>1
    <2>6. CASE Head(q.todo) # Latest(q.conv)
      <3>1. /\ p.spent = q.spent + Len(Takes(q)) /\ Earlier(p) = Earlier(q) + Len(told)
            /\ Awaited(p, c) = Len(Misses(q))
        BY <1>3, <1>4, <1>7, <2>1, <2>4, <2>6 DEF Spends, Awaited
      <3>2. QED
        BY <1>2, <2>1, <2>2, <2>3, <3>1
    <2>7. QED
      BY <2>5, <2>6
  <1>10. X(p) = X(q) /\ Cap(p) = Cap(q)
    BY <1>7 DEF X, Cap
  <1>11. Earlier(p) <= X(p)
    <2>1. X(q) \in Nat /\ Cap(q) \in Nat /\ Cap(q) <= X(q)
      BY Budgets
    <2>2. p.spent \in Nat /\ p.spent <= Cap(q)
      BY <1>2, <1>7
    <2>3. Earlier(p) <= p.spent
      BY <1>9, <2>2
    <2>4. QED
      BY <1>9, <1>10, <2>1, <2>2, <2>3
  <1>12. NewestCovered(p, c)
    <2> SUFFICES ASSUME NEW i \in Range(q.conv[Latest(q.conv)])
                 PROVE  ToldOf(p, i) \/ (Head(q.todo) = Latest(q.conv) /\ i \in ImagesOf(c))
      BY <1>7 DEF NewestCovered
    <2>1. CASE Head(q.todo) = Latest(q.conv)
      <3>1. Takes(q) = q.conv[Latest(q.conv)]
        BY <2>1 DEF Takes
      <3>2. CASE i \in Range(Misses(q))
        BY <1>4, <2>1, <3>2
      <3>3. CASE \E t \in Range(told) : t.img = i
        <4>1. PICK t \in Range(told) : t.img = i
          BY <3>3
        <4>2. t \in Range(f[Latest(q.conv)])
          BY <1>3, <2>1
        <4>3. QED
          BY <1>7, <4>1, <4>2 DEF ToldOf
      <3>4. QED
        BY <1>2, <3>1, <3>2, <3>3
    <2>2. CASE Head(q.todo) # Latest(q.conv)
      <3>1. NewestCovered(q, b)
        BY <2>2 DEF Stands, Under, NewestAhead
      <3>2. ToldOf(q, i)
        BY <3>1 DEF NewestCovered
      <3>3. QED
        BY <1>3, <1>7, <3>2 DEF ToldOf
    <2>3. QED
      BY <2>1, <2>2
  <1>13. Under(p, c)
    <2>1. p.spent <= Cap(p)
      BY <1>2, <1>7, <1>10
    <2>2. p.room # 0 /\ InDepth(p.conv) # {} /\ p.said = [i \in DOMAIN p.conv |-> Nothing]
      BY <1>1, <1>7 DEF Looking
    <2>3. \A k \in DOMAIN p.todo : p.todo[k] \in DOMAIN p.conv
      BY <1>1, <1>7 DEF Looking
    <2>4. ImagesOf(c) \subseteq Range(p.conv[Head(p.todo)])
      BY <1>2, <1>4, <1>7
    <2>5. QED
      BY <1>7, <1>9, <1>12, <2>1, <2>2, <2>3, <2>4 DEF Under
  <1>14. Stands(p, c)
    BY <1>3, <1>7, <1>8, <1>11, <1>13, NotDone
  <1>15. QED
    BY <1>4, <1>6, <1>14 DEF p, c

(* A request whose analysis ended: with results, without, or for good.     *)
Gathered(q, b) == [q EXCEPT !.pc = "look", !.todo = Tail(q.todo),
                            !.found = HasFound(q, Results(b))]
Skipped(q) == [q EXCEPT !.pc = "look", !.todo = Tail(q.todo)]
GivenUp(q) == [q EXCEPT !.pc = "done", !.intact = TRUE]

(* What is known of a request that waits.                                  *)
LEMMA WaitingFor ==
    ASSUME NEW q \in Request, NEW b \in Seq(Task), Stands(q, b), q.pc = "wait"
    PROVE  /\ Looking(q) /\ q.todo # <<>>
           /\ \A i \in ImagesOf(b) : i \in Range(q.conv[Head(q.todo)])
           /\ NewestCovered(q, b)
           /\ Earlier(q) \in Nat /\ q.spent \in Nat /\ NumberOf(b) \in Nat
           /\ Earlier(q) + (IF Head(q.todo) = Latest(q.conv) THEN 0 ELSE NumberOf(b)) <= q.spent
           /\ Earlier(q) <= X(q)
  <1>1. Looking(q)
    BY LookingNow
  <1>2. /\ q.todo # <<>> /\ ImagesOf(b) \subseteq Range(q.conv[Head(q.todo)])
        /\ NewestCovered(q, b) /\ Earlier(q) + Awaited(q, b) <= q.spent /\ Earlier(q) <= X(q)
    BY DEF Stands, Under, NewestAhead
  <1>3. Earlier(q) \in Nat /\ q.spent \in Nat
    BY EarlierIs, RequestTyped
  <1>4. NumberOf(b) \in Nat
    <2> DEFINE r == Results(b)
    <2>1. r \in Said /\ Len(r) = NumberOf(b)
      BY ResultsDescribe
    <2> HIDE DEF r
    <2>2. Len(r) \in Nat
      BY <2>1 DEF Said
    <2>3. QED
      BY <2>1, <2>2
  <1>5. IsNewest(q, Head(q.todo)) <=> Head(q.todo) = Latest(q.conv)
    BY <1>1, LatestIsNewest, RequestTyped DEF IsNewest, Looking
  <1>6. Awaited(q, b) = IF Head(q.todo) = Latest(q.conv) THEN 0 ELSE NumberOf(b)
    BY <1>5 DEF Awaited
  <1>7. QED
    BY <1>1, <1>2, <1>3, <1>4, <1>6

(* With the results of its analysis a request stands,                      *)
LEMMA GatheredStands ==
    ASSUME NEW q \in Request, NEW b \in Seq(Task), Stands(q, b), q.pc = "wait", NEW c
    PROVE  Gathered(q, b) \in Request /\ Stands(Gathered(q, b), c)
  <1> DEFINE p == Gathered(q, b)
             told == Results(b)
             f == HasFound(q, told)
  <1>1. /\ Looking(q) /\ q.todo # <<>>
        /\ \A i \in ImagesOf(b) : i \in Range(q.conv[Head(q.todo)])
        /\ NewestCovered(q, b)
        /\ Earlier(q) \in Nat /\ q.spent \in Nat /\ NumberOf(b) \in Nat
        /\ Earlier(q) + (IF Head(q.todo) = Latest(q.conv) THEN 0 ELSE NumberOf(b)) <= q.spent
    BY WaitingFor
  <1>2. /\ told \in Said /\ Len(told) = NumberOf(b)
        /\ \A t \in Range(told) : t.img \in ImagesOf(b) /\ Describes(t)
        /\ \A i \in ImagesOf(b) : \E t \in Range(told) : t.img = i
    BY ResultsDescribe
  <1> HIDE DEF told
  <1>3. /\ f \in Seq(Said) /\ Len(f) = Len(q.conv) /\ DOMAIN f = DOMAIN q.conv
        /\ CountIn(f, NewestOf(q.conv))
              = Earlier(q) + (IF Head(q.todo) = Latest(q.conv) THEN 0 ELSE Len(told))
        /\ \A m \in DOMAIN q.conv : \A t \in Range(f[m]) :
              t.img \in Range(q.conv[m]) /\ Describes(t)
        /\ \A i : (\E t \in Range(q.found[Latest(q.conv)]) : t.img = i) =>
                  \E t \in Range(f[Latest(q.conv)]) : t.img = i
        /\ Head(q.todo) = Latest(q.conv) =>
              \A t \in Range(told) : t \in Range(f[Latest(q.conv)])
    <2>1. \A t \in Range(told) : t.img \in Range(q.conv[Head(q.todo)]) /\ Describes(t)
      BY <1>1, <1>2
    <2>2. QED
      BY <1>1, <1>2, <2>1, HasFoundMore
  <1> HIDE DEF f
  <1>4. /\ Tail(q.todo) \in Seq(Nat)
        /\ \A k \in DOMAIN Tail(q.todo) : Tail(q.todo)[k] \in DOMAIN q.conv
    BY <1>1, HeadAndTail DEF Looking
  <1>5. p = [q EXCEPT !.pc = "look", !.todo = Tail(q.todo), !.found = f]
    BY DEF Gathered, f, told
  <1>6. p \in Request
    BY <1>3, <1>4, <1>5 DEF Request
  <1>7. /\ p.pc = "look" /\ p.conv = q.conv /\ p.room = q.room /\ p.said = q.said
        /\ p.found = f /\ p.spent = q.spent /\ p.todo = Tail(q.todo)
    BY <1>5 DEF Request
  <1> HIDE DEF p
  <1>8. FoundDescribes(p)
    BY <1>3, <1>7 DEF FoundDescribes, Describes
  <1>9. Earlier(p) <= p.spent /\ Earlier(p) \in Nat
    <2>1. Earlier(p) = CountIn(f, NewestOf(q.conv)) /\ Earlier(p) \in Nat
      BY <1>6, <1>7, EarlierIs
    <2>2. QED
      BY <1>1, <1>2, <1>3, <1>7, <2>1
  <1>10. X(p) = X(q) /\ Cap(p) = Cap(q)
    BY <1>7 DEF X, Cap
  <1>11. Earlier(p) <= X(p) /\ p.spent <= Cap(p)
    <2>1. X(q) \in Nat /\ Cap(q) \in Nat /\ Cap(q) <= X(q) /\ q.spent <= Cap(q)
      BY <1>1, Budgets DEF Looking
    <2>2. QED
      BY <1>1, <1>7, <1>9, <1>10, <2>1
  <1>12. NewestCovered(p, c)
    <2> SUFFICES ASSUME NEW i \in Range(q.conv[Latest(q.conv)]) PROVE ToldOf(p, i)
      BY <1>7 DEF NewestCovered
    <2>1. CASE ToldOf(q, i)
      BY <1>3, <1>7, <2>1 DEF ToldOf
    <2>2. CASE Head(q.todo) = Latest(q.conv) /\ i \in ImagesOf(b)
      <3>1. PICK t \in Range(told) : t.img = i
        BY <1>2, <2>2
      <3>2. t \in Range(f[Latest(q.conv)])
        BY <1>3, <2>2
      <3>3. QED
        BY <1>7, <3>1, <3>2 DEF ToldOf
    <2>3. QED
      BY <1>1, <2>1, <2>2 DEF NewestCovered
  <1>13. Under(p, c)
    <2>1. Awaited(p, c) = 0
      BY <1>7 DEF Awaited
    <2>2. Earlier(p) + Awaited(p, c) <= p.spent
      BY <1>9, <2>1
    <2>3. p.room # 0 /\ InDepth(p.conv) # {} /\ p.said = [i \in DOMAIN p.conv |-> Nothing]
      BY <1>1, <1>7 DEF Looking
    <2>4. QED
      BY <1>4, <1>7, <1>11, <1>12, <2>2, <2>3 DEF Under
  <1>14. Stands(p, c)
    BY <1>3, <1>7, <1>8, <1>11, <1>13, NotDone
  <1>15. QED
    BY <1>6, <1>14 DEF p

(* ... and without them, when they were of an earlier message,             *)
LEMMA SkippedStands ==
    ASSUME NEW q \in Request, NEW b \in Seq(Task), Stands(q, b), q.pc = "wait",
           Head(q.todo) # Latest(q.conv), NEW c
    PROVE  Skipped(q) \in Request /\ Stands(Skipped(q), c)
  <1> DEFINE p == Skipped(q)
  <1>1. /\ Looking(q) /\ q.todo # <<>> /\ NewestCovered(q, b)
        /\ Earlier(q) \in Nat /\ q.spent \in Nat /\ NumberOf(b) \in Nat
        /\ Earlier(q) + NumberOf(b) <= q.spent /\ Earlier(q) <= X(q)
    BY WaitingFor
  <1>2. /\ Tail(q.todo) \in Seq(Nat)
        /\ \A k \in DOMAIN Tail(q.todo) : Tail(q.todo)[k] \in DOMAIN q.conv
    BY <1>1, HeadAndTail DEF Looking
  <1>3. p \in Request
    BY <1>2 DEF Skipped, Request
  <1>4. /\ p.pc = "look" /\ p.conv = q.conv /\ p.room = q.room /\ p.said = q.said
        /\ p.found = q.found /\ p.spent = q.spent /\ p.todo = Tail(q.todo)
    BY DEF Skipped, Request
  <1> HIDE DEF p
  <1>5. FoundDescribes(p) /\ Len(p.found) = Len(p.conv)
    BY <1>1, <1>4 DEF FoundDescribes, Looking
  <1>6. Earlier(p) = Earlier(q) /\ X(p) = X(q) /\ Cap(p) = Cap(q)
    BY <1>4 DEF Earlier, X, Cap
  <1>7. NewestCovered(p, c)
    BY <1>1, <1>4 DEF NewestCovered, ToldOf
  <1>8. Under(p, c)
    <2>1. Awaited(p, c) = 0
      BY <1>4 DEF Awaited
    <2>2. Earlier(p) + Awaited(p, c) <= p.spent
      BY <1>1, <1>4, <1>6, <2>1
    <2>3. /\ p.room # 0 /\ InDepth(p.conv) # {} /\ p.said = [i \in DOMAIN p.conv |-> Nothing]
          /\ p.spent <= Cap(p)
      BY <1>1, <1>4, <1>6 DEF Looking
    <2>4. QED
      BY <1>2, <1>4, <1>7, <2>2, <2>3 DEF Under
  <1>9. Stands(p, c)
    BY <1>1, <1>4, <1>5, <1>6, <1>8, NotDone
  <1>10. QED
    BY <1>3, <1>9 DEF p

(* Where nothing is said, nothing is too long.                             *)
LEMMA NothingSaid ==
    ASSUME NEW c \in Seq(Seq(Images))
    PROVE  LET said == [i \in DOMAIN c |-> Nothing]
           IN  said \in Seq(Wordings) /\ DOMAIN said = DOMAIN c /\ From(said, 1) = 0
  <1> DEFINE said == [i \in DOMAIN c |-> Nothing]
             one == 1
  <1>1. DOMAIN c = 1..Len(c) /\ Len(c) \in Nat /\ one \in Nat
    OBVIOUS
  <1>2. said \in [1..Len(c) -> Wordings] /\ DOMAIN said = DOMAIN c
    BY <1>1, NothingTyped
  <1>3. \A k \in DOMAIN said : said[k].len = 0
    BY NothingTyped
  <1> HIDE DEF said, one
  <1>4. said \in Seq(Wordings)
    BY <1>1, <1>2, Sequenced
  <1>5. From(said, one) = 0
    BY <1>1, <1>3, <1>4, FromNone
  <1>6. QED
    BY <1>2, <1>4, <1>5 DEF said, one

(* ... and when it goes out with its images.                               *)
LEMMA GivenUpStands ==
    ASSUME NEW q \in Request, NEW b \in Seq(Task), Stands(q, b), q.pc = "wait", NEW c
    PROVE  GivenUp(q) \in Request /\ Stands(GivenUp(q), c)
  <1> DEFINE p == GivenUp(q)
  <1>1. /\ Looking(q) /\ Earlier(q) \in Nat /\ Earlier(q) <= X(q)
    BY WaitingFor
  <1>2. p \in Request
    BY DEF GivenUp, Request
  <1>3. /\ p.pc = "done" /\ p.conv = q.conv /\ p.room = q.room /\ p.said = q.said
        /\ p.found = q.found /\ p.intact = TRUE
    BY DEF GivenUp, Request
  <1> HIDE DEF p
  <1>4. FoundDescribes(p) /\ Len(p.found) = Len(p.conv)
    BY <1>1, <1>3 DEF FoundDescribes, Looking
  <1>5. Earlier(p) = Earlier(q) /\ X(p) = X(q)
    BY <1>3 DEF Earlier, X
  <1>6. Fits(p)
    <2>1. /\ p.said = [i \in DOMAIN q.conv |-> Nothing]
          /\ q.conv \in Seq(Seq(Images)) /\ p.room \in Nat
      BY <1>1, <1>3, RequestTyped DEF Looking
    <2>2. From(p.said, 1) = 0
      BY <2>1, NothingSaid
    <2>3. From(p.said, 1) <= p.room
      BY <2>1, <2>2
    <2>4. QED
      BY <1>3, <2>3 DEF Fits
  <1>7. Under(p, c) /\ NewestTold(p)
    BY <1>3 DEF Under, NewestTold
  <1>8. Stands(p, c)
    BY <1>1, <1>4, <1>5, <1>6, <1>7 DEF Stands
  <1>9. QED
    BY <1>2, <1>8 DEF p

(* What recalling finds cached of the deeper rounds, and what it leaves to *)
(* the background.                                                         *)
Known(q) ==
    First(Within(At(q.conv, DeepRounds(q.conv)), {p \in Places : Cached(p.img)}),
          X(q) - q.spent)
Unseen(q) ==
    Within(At(q.conv, GoldenRounds(q.conv)) \o At(q.conv, DeepRounds(q.conv)),
           {p \in Places : ~Cached(p.img)})
Left(q) == First([k \in DOMAIN Unseen(q) |-> Unseen(q)[k].img], X(q) - q.spent)
Later(q) == IF X(q) > Golden THEN Batches(Left(q)) ELSE <<>>
Recalls(q) == [q EXCEPT !.pc = "cut", !.found = Recalled(q.found, Known(q))]

(* What is recalled is cached, of its message, and within the budget; the  *)
(* rest makes tasks for the background.                                    *)
LEMMA KnownIs ==
    ASSUME cache \in Memories, NEW q, Looking(q)
    PROVE  /\ Known(q) \in Seq(Places) /\ Len(Known(q)) \in Nat
           /\ q.spent + Len(Known(q)) <= X(q)
           /\ \A p \in Range(Known(q)) : /\ p.msg \in DOMAIN q.found
                                         /\ p.img \in DOMAIN cache
                                         /\ p.img \in Range(q.conv[p.msg])
           /\ Later(q) \in Seq(Task)
  <1> DEFINE deep == At(q.conv, DeepRounds(q.conv))
             golden == At(q.conv, GoldenRounds(q.conv))
             H == {p \in Places : Cached(p.img)}
             M == {p \in Places : ~Cached(p.img)}
             n == X(q) - q.spent
  <1>1. q \in Request /\ q.conv \in Seq(Seq(Images)) /\ DOMAIN q.found = DOMAIN q.conv
    BY RequestTyped, SameDomains DEF Looking
  <1>2. n \in Nat /\ q.spent \in Nat /\ X(q) \in Nat
    <2>1. X(q) \in Nat /\ Cap(q) \in Nat /\ Cap(q) <= X(q)
      BY <1>1, Budgets
    <2>2. q.spent \in Nat /\ q.spent <= Cap(q)
      BY <1>1, RequestTyped DEF Looking
    <2>3. QED
      BY <2>1, <2>2
  <1>3. /\ deep \in Seq(Places)
        /\ \A p \in Range(deep) : p.msg \in DOMAIN q.conv /\ p.img \in Range(q.conv[p.msg])
    BY <1>1, AtLists
  <1>4. golden \in Seq(Places)
    BY <1>1, AtLists
  <1>5. Known(q) = First(Within(deep, H), n)
    BY DEF Known
  <1>6. Unseen(q) = Within(golden \o deep, M)
    BY DEF Unseen
  <1>7. \A p \in H : p.img \in DOMAIN cache
    BY DEF Cached
  <1>8. q.spent + n = X(q)
    BY <1>2
  <1>9. Left(q) = First([k \in DOMAIN Unseen(q) |-> Unseen(q)[k].img], n)
    BY DEF Left
  <1> HIDE DEF deep, golden, H, M, n
  <1>10. /\ Within(deep, H) \in Seq(Places)
         /\ \A x : x \in Range(Within(deep, H)) <=> x \in Range(deep) /\ x \in H
    BY <1>3, WithinSifts
  <1>11. /\ Known(q) \in Seq(Places) /\ Len(Known(q)) <= n /\ Len(Known(q)) \in Nat
         /\ \A x \in Range(Known(q)) : x \in Range(Within(deep, H))
    <2> DEFINE s == Within(deep, H)
    <2>1. s \in Seq(Places)
      BY <1>10
    <2> HIDE DEF s
    <2>2. /\ First(s, n) \in Seq(Places) /\ Len(First(s, n)) <= n
          /\ Len(First(s, n)) \in Nat
          /\ \A x \in Range(First(s, n)) : x \in Range(s)
      BY <1>2, <2>1, FirstOf
    <2>3. QED
      BY <1>5, <2>2 DEF s
  <1>12. q.spent + Len(Known(q)) <= X(q)
    BY <1>2, <1>8, <1>11
  <1>13. Later(q) \in Seq(Task)
    <2> DEFINE open == Unseen(q)
               imgs == [k \in DOMAIN open |-> open[k].img]
    <2>1. golden \o deep \in Seq(Places)
      BY <1>3, <1>4, RangeJoined
    <2>2. open \in Seq(Places)
      <3> DEFINE s == golden \o deep
      <3>1. s \in Seq(Places)
        BY <2>1
      <3> HIDE DEF s
      <3>2. Within(s, M) \in Seq(Places)
        BY <3>1, WithinSifts
      <3>3. QED
        BY <1>6, <3>2 DEF s
    <2> HIDE DEF open
    <2>3. DOMAIN open = 1..Len(open) /\ Len(open) \in Nat
          /\ \A k \in DOMAIN open : open[k].img \in Images
      <3>1. DOMAIN open = 1..Len(open) /\ Len(open) \in Nat
            /\ \A k \in DOMAIN open : open[k] \in Places
        BY <2>2
      <3>2. QED
        BY <3>1 DEF Places
    <2>4. imgs \in Seq(Images)
      <3>1. imgs \in [1..Len(open) -> Images]
        BY <2>3
      <3> HIDE DEF imgs
      <3>2. QED
        BY <2>3, <3>1, Sequenced
    <2>5. Left(q) = First(imgs, n)
      BY <1>9 DEF open
    <2> HIDE DEF imgs
    <2>6. Left(q) \in Seq(Images)
      BY <1>2, <2>4, <2>5, FirstOf
    <2>7. Batches(Left(q)) \in Seq(Task)
      BY <2>6, BatchesShare
    <2>8. <<>> \in Seq(Task)
      OBVIOUS
    <2>9. QED
      BY <2>7, <2>8 DEF Later
  <1>14. QED
    BY <1>1, <1>3, <1>7, <1>10, <1>11, <1>12, <1>13

(* A request that recalled deeper rounds stands.                           *)
LEMMA RecalledStands ==
    ASSUME cache \in Memories, NEW q \in Request, NEW b, Stands(q, b), q.pc = "look",
           q.todo = <<>>
    PROVE  /\ Recalls(q) \in Request /\ Later(q) \in Seq(Task)
           /\ Stands(Recalls(q), b)
  <1> DEFINE p == Recalls(q)
             f == Recalled(q.found, Known(q))
             S == NewestOf(q.conv)
  <1>1. Looking(q)
    BY LookingNow
  <1>2. /\ q.conv \in Seq(Seq(Images)) /\ DOMAIN q.found = DOMAIN q.conv
        /\ q.found \in Seq(Said) /\ Len(q.found) = Len(q.conv)
    BY <1>1, RequestTyped, SameDomains DEF Looking
  <1>3. Extends(q.conv, S, Len(Known(q)), q.found, f)
    <2> DEFINE known == Known(q)
               c == q.conv
               found == q.found
    <2>1. /\ known \in Seq(Places) /\ found \in Seq(Said)
          /\ \A x \in Range(known) : /\ x.msg \in DOMAIN found
                                     /\ x.img \in DOMAIN cache
                                     /\ x.img \in Range(c[x.msg])
      BY <1>1, <1>2, KnownIs
    <2> HIDE DEF known, c, found, S
    <2>2. Extends(c, S, Len(known), found, Recalled(found, known))
      BY <2>1, RecalledExtends
    <2>3. QED
      BY <2>2 DEF known, c, found
  <1> HIDE DEF f
  <1>4. /\ f \in Seq(Said) /\ Len(f) = Len(q.found)
        /\ CountIn(f, S) <= CountIn(q.found, S) + Len(Known(q))
        /\ \A m \in DOMAIN q.found :
              /\ \A t \in Range(q.found[m]) : t \in Range(f[m])
              /\ \A t \in Range(f[m]) :
                    t \in Range(q.found[m]) \/ (t.img \in Range(q.conv[m]) /\ Describes(t))
    BY <1>3 DEF Extends
  <1>5. p = [q EXCEPT !.pc = "cut", !.found = f]
    BY DEF Recalls, f
  <1>6. p \in Request
    BY <1>4, <1>5 DEF Request
  <1>7. /\ p.pc = "cut" /\ p.conv = q.conv /\ p.room = q.room /\ p.said = q.said
        /\ p.found = f
    BY <1>5 DEF Request
  <1> HIDE DEF p, S
  <1>8. DOMAIN f = DOMAIN q.conv /\ Len(f) = Len(q.conv)
    BY <1>2, <1>6, <1>7, <1>4, SameDomains
  <1>9. FoundDescribes(p)
    <2>1. \A m \in DOMAIN q.found : \A t \in Range(q.found[m]) :
             t.img \in Range(q.conv[m]) /\ Describes(t)
      BY <1>1 DEF Looking, FoundDescribes, Describes
    <2>2. \A m \in DOMAIN f : \A t \in Range(f[m]) : t.img \in Range(q.conv[m]) /\ Describes(t)
      BY <1>2, <1>4, <1>8, <2>1
    <2>3. QED
      BY <1>7, <2>2 DEF FoundDescribes, Describes
  <1>10. Earlier(p) <= X(p)
    <2>1. Earlier(p) = CountIn(f, S) /\ Earlier(p) \in Nat
      BY <1>6, <1>7, EarlierIs DEF S
    <2>2. Earlier(q) = CountIn(q.found, S) /\ Earlier(q) \in Nat /\ q.spent \in Nat
      BY EarlierIs, RequestTyped DEF S
    <2>3. Earlier(q) <= q.spent
      <3>1. Awaited(q, b) = 0 /\ Earlier(q) + Awaited(q, b) <= q.spent
        BY DEF Stands, Under, Awaited
      <3>2. QED
        BY <2>2, <3>1
    <2>4. Len(Known(q)) \in Nat /\ q.spent + Len(Known(q)) <= X(q) /\ X(q) \in Nat
      BY <1>1, KnownIs, Budgets
    <2>5. X(p) = X(q)
      BY <1>7 DEF X
    <2>6. QED
      BY <1>4, <2>1, <2>2, <2>3, <2>4, <2>5
  <1>11. NewestCovered(p, b)
    <2>1. NewestCovered(q, b)
      BY DEF Stands, Under, NewestAhead
    <2>2. Latest(q.conv) \in DOMAIN q.found
      BY <1>1, <1>2, LatestIsNewest DEF Looking
    <2>3. QED
      BY <1>4, <1>7, <2>1, <2>2 DEF NewestCovered, ToldOf
  <1>12. Under(p, b)
    <2>1. p.room # 0 /\ InDepth(p.conv) # {} /\ p.said = [i \in DOMAIN p.conv |-> Nothing]
      BY <1>1, <1>7 DEF Looking
    <2>2. QED
      BY <1>7, <1>11, <2>1 DEF Under
  <1>13. Stands(p, b)
    BY <1>7, <1>8, <1>9, <1>10, <1>12, NotDone
  <1>14. QED
    BY <1>1, <1>6, <1>13, KnownIs DEF p

(* The texts made of what was found.                                       *)
LEMMA TextsTyped ==
    ASSUME NEW found \in Seq(Said)
    PROVE  Texts(found) \in Seq(Wordings) /\ DOMAIN Texts(found) = DOMAIN found
  <1>1. /\ DOMAIN found = 1..Len(found) /\ Len(found) \in Nat
        /\ \A m \in DOMAIN found : found[m] \in Said
    BY FoundTyped DEF Said, Description
  <1>2. ASSUME NEW told \in Said PROVE Length(told) \in Nat
    <2> DEFINE lens == [k \in DOMAIN told |-> told[k].text.len]
    <2>1. told \in Seq(Description)
      BY DEF Said, Description
    <2>2. /\ DOMAIN told = 1..Len(told) /\ Len(told) \in Nat
          /\ \A k \in DOMAIN told : told[k] \in Description
      BY <2>1
    <2>3. \A k \in DOMAIN told : told[k].text.len \in Nat
      BY <2>2 DEF Description, Text
    <2>4. lens \in [1..Len(told) -> Nat]
      BY <2>2, <2>3
    <2>5. Length(told) = Total(lens)
      BY DEF Length
    <2> HIDE DEF lens
    <2>6. lens \in Seq(Nat)
      BY <2>2, <2>4, Sequenced
    <2>7. QED
      BY <2>5, <2>6, TotalNat
  <1>3. \A i \in DOMAIN found : [told |-> found[i], len |-> Length(found[i])] \in Wordings
    BY <1>1, <1>2 DEF Wordings
  <1>4. Texts(found) \in [1..Len(found) -> Wordings] /\ DOMAIN Texts(found) = DOMAIN found
    BY <1>1, <1>3 DEF Texts
  <1>5. QED
    BY <1>1, <1>4, Sequenced

(* A request whose descriptions are put in place.                          *)
Tells(q) == [q EXCEPT !.pc = "done", !.said = Fitting(Cut(Texts(q.found), q.room), q.room)]

(* A request whose texts were cut to the room stands.                      *)
LEMMA TellsStands ==
    ASSUME NEW q \in Request, NEW b, Stands(q, b), q.pc = "cut"
    PROVE  Tells(q) \in Request /\ Stands(Tells(q), b)
  <1> DEFINE p == Tells(q)
             texts == Texts(q.found)
             said == Fitting(Cut(texts, q.room), q.room)
  <1>1. texts \in Seq(Wordings) /\ q.room \in Nat
    BY RequestTyped, TextsTyped
  <1> HIDE DEF texts
  <1>2. /\ said \in Seq(Wordings) /\ From(said, 1) <= q.room
        /\ \A i \in DOMAIN texts : From(texts, i) <= q.room => said[i] = texts[i]
    BY <1>1, TextsFit
  <1> HIDE DEF said
  <1>3. p = [q EXCEPT !.pc = "done", !.said = said]
    BY DEF Tells, said, texts
  <1>4. p \in Request
    BY <1>2, <1>3 DEF Request, Wordings
  <1>5. /\ p.pc = "done" /\ p.conv = q.conv /\ p.room = q.room /\ p.said = said
        /\ p.found = q.found
    BY <1>3 DEF Request
  <1> HIDE DEF p
  <1>6. Len(p.found) = Len(p.conv) /\ FoundDescribes(p)
    BY <1>5 DEF Stands, FoundDescribes
  <1>7. Earlier(p) <= X(p)
    <2>1. Earlier(p) = Earlier(q) /\ X(p) = X(q)
      BY <1>5 DEF Earlier, X
    <2>2. QED
      BY <2>1 DEF Stands
  <1>8. Under(p, b)
    BY <1>5 DEF Under
  <1>9. Fits(p)
    BY <1>2, <1>5 DEF Fits, texts
  <1>10. NewestTold(p)
    <2>1. \A i \in Range(q.conv[Latest(q.conv)]) : ToldOf(q, i)
      BY DEF Stands, Under, NewestAhead, NewestCovered
    <2>2. QED
      BY <1>5, <2>1 DEF NewestTold, ToldOf
  <1>11. QED
    BY <1>4, <1>6, <1>7, <1>8, <1>9, <1>10 DEF Stands, p

-----------------------------------------------------------------------------
(* A request that begins with conversation c and this much room.           *)
Asks(c, room) == [Fresh EXCEPT !.conv = c, !.room = room,
                               !.found = [i \in DOMAIN c |-> <<>>],
                               !.said = [i \in DOMAIN c |-> Nothing]]
Refused(c, room) == [Asks(c, room) EXCEPT !.pc = "done", !.noticed = WithImages(c) # {}]
Spared(c, room) == [Asks(c, room) EXCEPT !.pc = "done"]
Starts(c, room) == [Asks(c, room) EXCEPT !.pc = "look",
                       !.todo = <<Latest(c)>> \o NewestFirst(c, GoldenRounds(c))]

(* It has found nothing and said nothing.                                  *)
LEMMA AsksNothing ==
    ASSUME NEW c \in Seq(Seq(Images)), NEW room \in Nat
    PROVE  /\ Asks(c, room) \in Request
           /\ Asks(c, room).conv = c /\ Asks(c, room).room = room
           /\ Asks(c, room).spent = 0 /\ Asks(c, room).intact = FALSE
           /\ Asks(c, room).found = [i \in DOMAIN c |-> <<>>]
           /\ Asks(c, room).said = [i \in DOMAIN c |-> Nothing]
           /\ [i \in DOMAIN c |-> <<>>] \in Seq(Said)
           /\ Len([i \in DOMAIN c |-> <<>>]) = Len(c)
           /\ [i \in DOMAIN c |-> Nothing] \in Seq(Wordings)
           /\ From([i \in DOMAIN c |-> Nothing], 1) = 0
           /\ Texts([i \in DOMAIN c |-> <<>>]) = [i \in DOMAIN c |-> Nothing]
           /\ \A S : CountIn([i \in DOMAIN c |-> <<>>], S) = 0
  <1> DEFINE none == [i \in DOMAIN c |-> <<>>]
             said == [i \in DOMAIN c |-> Nothing]
  <1>1. DOMAIN c = 1..Len(c) /\ Len(c) \in Nat /\ <<>> \in Said
    BY DEF Said
  <1>2. none \in Seq(Said) /\ Len(none) = Len(c) /\ DOMAIN none = DOMAIN c
    <2>1. none \in [1..Len(c) -> Said]
      BY <1>1
    <2> HIDE DEF none
    <2>2. QED
      BY <1>1, <2>1, Sequenced
  <1>3. said \in Seq(Wordings) /\ From(said, 1) = 0
    BY NothingSaid
  <1>4. /\ Asks(c, room).conv = c /\ Asks(c, room).room = room
        /\ Asks(c, room).spent = 0 /\ Asks(c, room).intact = FALSE
        /\ Asks(c, room).found = none /\ Asks(c, room).said = said
    <2> HIDE DEF none, said
    <2>1. QED
      BY DEF Asks, Fresh, none, said
  <1>5. Asks(c, room) \in Request
    <2>1. Asks(c, room) = [Fresh EXCEPT !.conv = c, !.room = room, !.found = none, !.said = said]
      BY DEF Asks
    <2> HIDE DEF none, said
    <2>2. <<>> \in Seq(Nat) /\ 0 \in Nat
      OBVIOUS
    <2>3. QED
      BY <1>2, <1>3, <2>1, <2>2 DEF Request, Wordings, Fresh
  <1>6. Length(<<>>) = 0
    <2> DEFINE e == [k \in DOMAIN <<>> |-> <<>>[k].text.len]
    <2>1. e \in Seq(Nat) /\ Len(e) = 0
      <3>1. DOMAIN <<>> = 1..0
        OBVIOUS
      <3>2. e \in [1..0 -> Nat]
        BY <3>1
      <3> HIDE DEF e
      <3>3. QED
        BY <3>2, Sequenced
    <2>2. Length(<<>>) = Total(e)
      BY DEF Length
    <2> HIDE DEF e
    <2>3. \A i \in 1..Len(e) : e[i] = 0
      BY <2>1
    <2>4. QED
      BY <2>1, <2>2, <2>3, TotalZero
  <1>7. Texts(none) = said
    BY <1>6 DEF Texts, Nothing
  <1>8. \A i \in DOMAIN none : none[i] = <<>>
    OBVIOUS
  <1>9. ASSUME NEW S PROVE CountIn(none, S) = 0
    <2> HIDE DEF none
    <2>1. QED
      BY <1>2, <1>8, CountNothing
  <1>10. QED
    BY <1>2, <1>3, <1>4, <1>5, <1>7, <1>9

(* A request that has found nothing stands as far as that goes.            *)
LEMMA NothingFound ==
    ASSUME NEW p \in Request, p.found = [i \in DOMAIN p.conv |-> <<>>],
           p.said = [i \in DOMAIN p.conv |-> Nothing]
    PROVE  /\ Len(p.found) = Len(p.conv) /\ FoundDescribes(p) /\ Earlier(p) = 0
           /\ Earlier(p) <= X(p) /\ Fits(p)
  <1>1. p.conv \in Seq(Seq(Images)) /\ p.room \in Nat
    BY RequestTyped
  <1> DEFINE c == p.conv
             room == p.room
  <1>2. /\ [i \in DOMAIN c |-> <<>>] \in Seq(Said)
        /\ Len([i \in DOMAIN c |-> <<>>]) = Len(c)
        /\ From([i \in DOMAIN c |-> Nothing], 1) = 0
        /\ Texts([i \in DOMAIN c |-> <<>>]) = [i \in DOMAIN c |-> Nothing]
        /\ \A S : CountIn([i \in DOMAIN c |-> <<>>], S) = 0
    <2> HIDE DEF c, room
    <2>1. c \in Seq(Seq(Images)) /\ room \in Nat
      BY <1>1 DEF c, room
    <2>2. QED
      BY <2>1, AsksNothing
  <1>3. Earlier(p) = 0
    BY <1>2, EarlierIs
  <1>4. Earlier(p) <= X(p)
    BY <1>3, Budgets
  <1>5. FoundDescribes(p)
    <2>1. \A m \in DOMAIN p.found : p.found[m] = <<>>
      OBVIOUS
    <2>2. Range(<<>>) = {}
      BY DEF Range
    <2>3. QED
      BY <2>1, <2>2 DEF FoundDescribes
  <1>6. Fits(p)
    <2>1. Texts(p.found) = p.said /\ From(p.said, 1) = 0
      BY <1>2
    <2>2. DOMAIN Texts(p.found) = DOMAIN p.said
      BY <2>1
    <2>3. QED
      BY <1>1, <2>1, <2>2 DEF Fits
  <1>7. QED
    BY <1>2, <1>3, <1>4, <1>5, <1>6

(* A request that ends at its beginning stands: there is no room, or no    *)
(* image in reach.                                                         *)
LEMMA EndsAtOnce ==
    ASSUME NEW c \in Seq(Seq(Images)), NEW room \in Nat, NEW b,
           NEW p, (room = 0 /\ p = Refused(c, room)) \/ (InDepth(c) = {} /\ p = Spared(c, room))
    PROVE  p \in Request /\ Stands(p, b)
  <1> DEFINE a == Asks(c, room)
  <1>1. /\ a \in Request /\ a.conv = c /\ a.room = room
        /\ a.found = [i \in DOMAIN c |-> <<>>] /\ a.said = [i \in DOMAIN c |-> Nothing]
    BY AsksNothing
  <1>2. (WithImages(c) # {}) \in BOOLEAN
    OBVIOUS
  <1>3. p = [a EXCEPT !.pc = "done", !.noticed = WithImages(c) # {}] \/ p = [a EXCEPT !.pc = "done"]
    BY DEF Refused, Spared
  <1>4. room = 0 => p = [a EXCEPT !.pc = "done", !.noticed = WithImages(c) # {}]
                    \/ InDepth(c) = {}
    BY DEF Refused
  <1> HIDE DEF a
  <1>5. p \in Request
    BY <1>1, <1>2, <1>3 DEF Request
  <1>6. p.pc = "done" /\ p.conv = c /\ p.room = room /\ p.found = a.found /\ p.said = a.said
    BY <1>1, <1>3 DEF Request
  <1>7. InDepth(c) # {} => p.room = 0 /\ p.noticed
    <2>1. InDepth(c) # {} => WithImages(c) # {}
      BY DEF InDepth
    <2>2. QED
      BY <1>1, <1>4, <1>6, <2>1 DEF Request
  <1>8. /\ Len(p.found) = Len(p.conv) /\ FoundDescribes(p) /\ Earlier(p) <= X(p) /\ Fits(p)
    BY <1>1, <1>5, <1>6, NothingFound
  <1>9. Under(p, b) /\ NewestTold(p)
    BY <1>6, <1>7 DEF Under, NewestTold
  <1>10. QED
    BY <1>5, <1>8, <1>9 DEF Stands

(* A request that starts to look has the newest message before it.         *)
LEMMA StartsStands ==
    ASSUME NEW c \in Seq(Seq(Images)), NEW room \in Nat, NEW b, room # 0, InDepth(c) # {}
    PROVE  Starts(c, room) \in Request /\ Stands(Starts(c, room), b)
  <1> DEFINE a == Asks(c, room)
             p == Starts(c, room)
             order == NewestFirst(c, GoldenRounds(c))
             todo == <<Latest(c)>> \o order
  <1>0. a = Asks(c, room)
    OBVIOUS
  <1> HIDE DEF a, order
  <1>1. /\ a \in Request /\ a.conv = c /\ a.room = room /\ a.spent = 0
        /\ a.found = [i \in DOMAIN c |-> <<>>] /\ a.said = [i \in DOMAIN c |-> Nothing]
    <2>1. /\ Asks(c, room) \in Request /\ Asks(c, room).conv = c
          /\ Asks(c, room).room = room
      BY AsksNothing
    <2>2. /\ Asks(c, room).found = [i \in DOMAIN c |-> <<>>]
          /\ Asks(c, room).said = [i \in DOMAIN c |-> Nothing]
      BY AsksNothing
    <2>3. Asks(c, room).spent = 0
      BY DEF Asks, Fresh
    <2>4. QED
      BY <1>0, <2>1, <2>2, <2>3
  <1>2. p = [a EXCEPT !.pc = "look", !.todo = todo]
    BY <1>0 DEF Starts, order
  <1>3. order \in Seq(Nat) /\ \A x \in Range(order) : x \in DOMAIN c
    BY NewestFirstLists DEF order
  <1>4. Latest(c) \in DOMAIN c /\ Latest(c) \in Nat
    BY LatestIsNewest
  <1>5. todo \in Seq(Nat) /\ todo # <<>> /\ Head(todo) = Latest(c)
        /\ \A k \in DOMAIN todo : todo[k] \in DOMAIN c
    <2> DEFINE l == Latest(c)
               D == DOMAIN c
    <2>1. l \in Nat /\ l \in D
      BY <1>4
    <2> HIDE DEF l, D
    <2>2. <<l>> \in Seq(Nat) /\ Len(<<l>>) = 1 /\ <<l>>[1] = l
      BY <2>1
    <2>3. Len(order) \in Nat /\ DOMAIN order = 1..Len(order)
      BY <1>3
    <2>4. /\ <<l>> \o order \in Seq(Nat) /\ Len(<<l>> \o order) = 1 + Len(order)
          /\ (<<l>> \o order)[1] = l
          /\ \A k \in 2..(1 + Len(order)) : (<<l>> \o order)[k] = order[k - 1]
      BY <1>3, <2>1, <2>2, <2>3
    <2>5. /\ <<l>> \o order # <<>> /\ Head(<<l>> \o order) = l
          /\ DOMAIN (<<l>> \o order) = 1..(1 + Len(order))
      BY <2>3, <2>4
    <2>6. \A k \in 1..(1 + Len(order)) : (<<l>> \o order)[k] \in D
      <3> SUFFICES ASSUME NEW k \in 1..(1 + Len(order)) PROVE (<<l>> \o order)[k] \in D
        OBVIOUS
      <3>1. CASE k = 1
        BY <2>1, <2>4, <3>1
      <3>2. CASE k # 1
        <4>1. k \in 2..(1 + Len(order)) /\ k - 1 \in DOMAIN order
          BY <2>3, <3>2
        <4>2. order[k - 1] \in Range(order)
          BY <4>1 DEF Range
        <4>3. QED
          BY <1>3, <2>4, <4>1, <4>2 DEF D
      <3>3. QED
        BY <3>1, <3>2
    <2>7. QED
      BY <2>4, <2>5, <2>6 DEF l, D
  <1> HIDE DEF todo
  <1>6. p \in Request
    BY <1>1, <1>2, <1>5 DEF Request
  <1>7. /\ p.pc = "look" /\ p.conv = c /\ p.room = room /\ p.found = a.found
        /\ p.said = a.said /\ p.spent = 0 /\ p.todo = todo
    BY <1>1, <1>2 DEF Request
  <1> HIDE DEF p
  <1>8. /\ Len(p.found) = Len(p.conv) /\ FoundDescribes(p) /\ Earlier(p) = 0
        /\ Earlier(p) <= X(p)
    BY <1>1, <1>6, <1>7, NothingFound
  <1>9. Under(p, b)
    <2>1. NewestAhead(p)
      BY <1>5, <1>7 DEF NewestAhead
    <2>2. Awaited(p, b) = 0
      BY <1>7 DEF Awaited
    <2>3. Earlier(p) + Awaited(p, b) <= p.spent
      BY <1>7, <1>8, <2>2
    <2>4. Cap(p) \in Nat
      BY <1>6, Budgets
    <2>5. p.spent <= Cap(p)
      BY <1>7, <2>4
    <2>6. /\ p.room # 0 /\ InDepth(p.conv) # {}
          /\ p.said = [i \in DOMAIN p.conv |-> Nothing]
      BY <1>1, <1>7
    <2>7. \A k \in DOMAIN p.todo : p.todo[k] \in DOMAIN p.conv
      BY <1>5, <1>7
    <2>8. QED
      BY <1>7, <2>1, <2>3, <2>5, <2>6, <2>7 DEF Under
  <1>10. Stands(p, b)
    BY <1>7, <1>8, <1>9, NotDone
  <1>11. QED
    BY <1>6, <1>10 DEF p

(* A request not yet begun.                                                *)
LEMMA FreshStands == ASSUME NEW b PROVE Fresh \in Request /\ Stands(Fresh, b)
  <1>1. <<>> \in Seq(Seq(Images)) /\ <<>> \in Seq(Nat) /\ <<>> \in Seq(Said)
        /\ <<>> \in Seq([told : Said, len : Nat])
    OBVIOUS
  <1>2. Fresh \in Request
    BY <1>1 DEF Fresh, Request
  <1>3. Fresh.pc = "new" /\ Fresh.found = <<>> /\ Fresh.conv = <<>>
    BY DEF Fresh
  <1>4. Len(Fresh.found) = Len(Fresh.conv) /\ FoundDescribes(Fresh)
    BY <1>3 DEF FoundDescribes
  <1>5. Earlier(Fresh) = 0
    <2>1. \A S : CountIn(<<>>, S) = 0
      <3> DEFINE none == <<>>
      <3>1. none \in Seq(Said) /\ \A i \in DOMAIN none : none[i] = <<>>
        BY <1>1
      <3> HIDE DEF none
      <3>2. \A S : CountIn(none, S) = 0
        BY <3>1, CountNothing
      <3>3. QED
        BY <3>2 DEF none
    <2>2. QED
      BY <1>2, <1>3, <2>1, EarlierIs
  <1>6. Earlier(Fresh) <= X(Fresh)
    BY <1>2, <1>5, Budgets
  <1>7. Under(Fresh, b)
    BY <1>3 DEF Under
  <1>8. QED
    BY <1>2, <1>3, <1>4, <1>6, <1>7, NotDone

(* An analysis about the same images leaves a request as it stands.        *)
LEMMA SameImages ==
    ASSUME NEW q, NEW b \in Seq(Task), NEW c \in Seq(Task), Stands(q, b),
           DOMAIN c = DOMAIN b, \A k \in DOMAIN b : c[k].imgs = b[k].imgs
    PROVE  Stands(q, c)
  <1>1. ImagesOf(c) = ImagesOf(b)
    BY DEF ImagesOf
  <1>2. [k \in DOMAIN c |-> Len(c[k].imgs)] = [k \in DOMAIN b |-> Len(b[k].imgs)]
    OBVIOUS
  <1>3. NumberOf(c) = NumberOf(b)
    BY <1>2 DEF NumberOf
  <1>4. Awaited(q, c) = Awaited(q, b)
    BY <1>3 DEF Awaited
  <1>5. NewestCovered(q, b) <=> NewestCovered(q, c)
    BY <1>1 DEF NewestCovered
  <1>6. Under(q, c)
    BY <1>1, <1>4, <1>5 DEF Under, Stands
  <1>7. QED
    BY <1>6 DEF Stands

-----------------------------------------------------------------------------
Typed ==
    /\ cache \in Memories /\ req \in [Requests -> Request]
    /\ job \in [Owners -> Seq(Task)] /\ losses \in 0..MaxLosses

(* The invariant, with the cache's part of it as one membership.           *)
LEMMA InvariantIs ==
    VisionInvariant <=> Typed /\ \A r \in Requests : Stands(req[r], job[<<r, "now">>])
  <1>1. cache \in Memories <=> /\ DOMAIN cache \subseteq Images /\ cache \in [DOMAIN cache -> Text]
                               /\ CacheDescribes
    BY MemoryIs DEF CacheDescribes
  <1>2. QED
    BY <1>1 DEF VisionInvariant, TypeOK, Typed

(* The same of the next state, in the direction the steps need.            *)
LEMMA InvariantNext ==
    ASSUME Typed', (\A r \in Requests : Stands(req[r], job[<<r, "now">>]))'
    PROVE  VisionInvariant'
  <1>1. cache' \in Memories =>
           /\ DOMAIN cache' \subseteq Images /\ cache' \in [DOMAIN cache' -> Text]
           /\ \A i \in DOMAIN cache' : i \in cache'[i].of
    BY MemoryIs
  <1>2. QED
    BY <1>1 DEF VisionInvariant, TypeOK, Typed, CacheDescribes

(* A request's analysis and its background are owned apart.                *)
LEMMA OwnersAre ==
    ASSUME NEW r \in Requests
    PROVE  /\ <<r, "now">> \in Owners /\ <<r, "later">> \in Owners
           /\ <<r, "now">> # <<r, "later">>
           /\ \A s \in Requests : s # r => /\ <<s, "now">> # <<r, "now">>
                                           /\ <<s, "now">> # <<r, "later">>
           /\ \A s \in Requests : <<s, "now">> # <<r, "later">>
  BY DEF Owners

(* A step of one request that keeps it standing keeps the invariant.       *)
LEMMA OneRequest ==
    ASSUME VisionInvariant, NEW r \in Requests, NEW p \in Request, NEW b \in Seq(Task),
           NEW w \in {"now", "later"},
           req' = [req EXCEPT ![r] = p], job' = [job EXCEPT ![<<r, w>>] = b],
           w = "now" => Stands(p, b), w = "later" => Stands(p, job[<<r, "now">>]),
           cache' \in Memories, UNCHANGED losses
    PROVE  VisionInvariant'
  <1>1. Typed /\ \A s \in Requests : Stands(req[s], job[<<s, "now">>])
    BY InvariantIs
  <1>2. <<r, w>> \in Owners
    BY DEF Owners
  <1>3. Typed'
    BY <1>1, <1>2 DEF Typed
  <1>4. ASSUME NEW s \in Requests PROVE Stands(req'[s], job'[<<s, "now">>])
    <2>1. CASE s # r
      <3>1. req'[s] = req[s]
        BY <1>1, <2>1 DEF Typed
      <3>2. <<s, "now">> \in Owners /\ <<s, "now">> # <<r, w>>
        BY <2>1 DEF Owners
      <3>3. job'[<<s, "now">>] = job[<<s, "now">>]
        BY <1>1, <1>2, <3>2 DEF Typed
      <3>4. QED
        BY <1>1, <3>1, <3>3
    <2>2. CASE s = r /\ w = "now"
      <3>1. req'[s] = p /\ job'[<<s, "now">>] = b
        BY <1>1, <1>2, <2>2 DEF Typed
      <3>2. QED
        BY <2>2, <3>1
    <2>3. CASE s = r /\ w = "later"
      <3>1. req'[s] = p
        BY <1>1, <2>3 DEF Typed
      <3>2. <<s, "now">> \in Owners /\ <<s, "now">> # <<r, w>>
        BY <2>3 DEF Owners
      <3>3. job'[<<s, "now">>] = job[<<s, "now">>]
        BY <1>1, <1>2, <3>2 DEF Typed
      <3>4. QED
        BY <2>3, <3>1, <3>3
    <2>4. QED
      BY <2>1, <2>2, <2>3
  <1>5. (\A s \in Requests : Stands(req[s], job[<<s, "now">>]))'
    BY <1>4
  <1>6. QED
    BY <1>3, <1>5, InvariantNext

(* What holds of each request.                                             *)
LEMMA EachRequest ==
    ASSUME VisionInvariant, NEW r \in Requests
    PROVE  /\ req[r] \in Request /\ cache \in Memories
           /\ job[<<r, "now">>] \in Seq(Task) /\ job[<<r, "later">>] \in Seq(Task)
           /\ job = [job EXCEPT ![<<r, "now">>] = job[<<r, "now">>]]
           /\ Stands(req[r], job[<<r, "now">>])
  BY InvariantIs, OwnersAre DEF Typed

-----------------------------------------------------------------------------
(* Each action keeps the invariant: a request begins,                      *)
LEMMA BeginKeeps ==
    ASSUME VisionInvariant, NEW r \in Requests, Begin(r)
    PROVE  VisionInvariant'
  <1> DEFINE b == job[<<r, "now">>]
  <1>1. PICK asked \in Asked[r] :
           LET c == asked[1]
               room == asked[2]
           IN  req' = [req EXCEPT ![r] =
                  IF room = 0 THEN Refused(c, room)
                  ELSE IF InDepth(c) = {} THEN Spared(c, room)
                  ELSE Starts(c, room)]
    BY DEF Begin, Asks, Refused, Spared, Starts
  <1> DEFINE c == asked[1]
             room == asked[2]
             p == IF room = 0 THEN Refused(c, room)
                  ELSE IF InDepth(c) = {} THEN Spared(c, room)
                  ELSE Starts(c, room)
  <1>2. c \in Seq(Seq(Images)) /\ room \in Nat
    BY VisionAssumption
  <1>3. req' = [req EXCEPT ![r] = p]
    BY <1>1
  <1>4. cache \in Memories /\ b \in Seq(Task) /\ job = [job EXCEPT ![<<r, "now">>] = b]
    BY EachRequest
  <1> HIDE DEF c, room, b
  <1>5. p \in Request /\ Stands(p, b)
    <2>1. CASE room = 0
      BY <1>2, <2>1, EndsAtOnce
    <2>2. CASE room # 0 /\ InDepth(c) = {}
      BY <1>2, <2>2, EndsAtOnce
    <2>3. CASE room # 0 /\ InDepth(c) # {}
      BY <1>2, <2>3, StartsStands
    <2>4. QED
      BY <2>1, <2>2, <2>3
  <1> HIDE DEF p
  <1>6. UNCHANGED <<cache, job, losses>>
    BY DEF Begin
  <1>7. QED
    BY <1>3, <1>4, <1>5, <1>6, OneRequest

(* ... looks at a message,                                                 *)
LEMMA LookKeeps ==
    ASSUME VisionInvariant, NEW r \in Requests, Look(r)
    PROVE  VisionInvariant'
  <1> DEFINE b == job[<<r, "now">>]
             q == req[r]
  <1>1. /\ q \in Request /\ cache \in Memories /\ b \in Seq(Task)
        /\ job = [job EXCEPT ![<<r, "now">>] = b] /\ Stands(q, b)
    BY EachRequest
  <1>2. /\ q.pc = "look" /\ q.todo # <<>>
        /\ \/ req' = [req EXCEPT ![r] = Passed(q)] /\ UNCHANGED job /\ Misses(q) = <<>>
           \/ /\ req' = [req EXCEPT ![r] = Waits(q)]
              /\ job' = [job EXCEPT ![<<r, "now">>] = Batches(Misses(q))]
        /\ UNCHANGED <<cache, losses>>
    <2> DEFINE msg == Head(q.todo)
               looked == [q EXCEPT !.found[msg] = @ \o FoundHits(q), !.spent = Spends(q)]
    <2>1. looked = [q EXCEPT !.found = HasFound(q, FoundHits(q)), !.spent = Spends(q)]
      <3> DEFINE told == FoundHits(q)
                 s == Spends(q)
      <3> HIDE DEF told, s
      <3>1. QED
        BY DEF HasFound, Put
    <2>2. /\ q.pc = "look" /\ q.todo # <<>>
          /\ \/ /\ req' = [req EXCEPT ![r] = [looked EXCEPT !.todo = Tail(@)]]
                /\ UNCHANGED job /\ Misses(q) = <<>>
             \/ /\ req' = [req EXCEPT ![r] = [looked EXCEPT !.pc = "wait"]]
                /\ job' = [job EXCEPT ![<<r, "now">>] = Batches(Misses(q))]
          /\ UNCHANGED <<cache, losses>>
      BY DEF Look, Spends, Takes, FoundHits, Hits, Misses
    <2> DEFINE f == HasFound(q, FoundHits(q))
               s == Spends(q)
    <2>3. /\ looked = [q EXCEPT !.found = f, !.spent = s]
          /\ Passed(q) = [q EXCEPT !.found = f, !.spent = s, !.todo = Tail(q.todo)]
          /\ Waits(q) = [q EXCEPT !.found = f, !.spent = s, !.pc = "wait"]
      BY <2>1 DEF Passed, Waits
    <2> HIDE DEF looked, f, s, q
    <2>4. [looked EXCEPT !.todo = Tail(@)] = Passed(q)
      BY <1>1, <2>3 DEF Request
    <2>5. [looked EXCEPT !.pc = "wait"] = Waits(q)
      BY <1>1, <2>3 DEF Request
    <2>6. QED
      BY <2>2, <2>4, <2>5
  <1> HIDE DEF b, q
  <1>3. CASE req' = [req EXCEPT ![r] = Passed(q)] /\ UNCHANGED job /\ Misses(q) = <<>>
    <2>1. Passed(q) \in Request /\ Stands(Passed(q), b)
      BY <1>1, <1>2, <1>3, PassedStands
    <2>2. QED
      BY <1>1, <1>2, <1>3, <2>1, OneRequest
  <1>4. CASE /\ req' = [req EXCEPT ![r] = Waits(q)]
             /\ job' = [job EXCEPT ![<<r, "now">>] = Batches(Misses(q))]
    <2>1. /\ Waits(q) \in Request /\ Batches(Misses(q)) \in Seq(Task)
          /\ Stands(Waits(q), Batches(Misses(q)))
      BY <1>1, <1>2, WaitsStands
    <2>2. QED
      BY <1>1, <1>2, <1>4, <2>1, OneRequest
  <1>5. QED
    BY <1>2, <1>3, <1>4

(* ... takes the results of its analysis, all in or cut short by time,     *)
LEMMA CollectKeeps ==
    ASSUME VisionInvariant, NEW r \in Requests, Collect(r)
    PROVE  VisionInvariant'
  <1> DEFINE b == job[<<r, "now">>]
             q == req[r]
             none == <<>>
  <1>1. /\ q \in Request /\ cache \in Memories /\ b \in Seq(Task) /\ Stands(q, b)
    BY EachRequest
  <1>2. /\ q.pc = "wait"
        /\ \/ req' = [req EXCEPT ![r] = Gathered(q, b)]
           \/ req' = [req EXCEPT ![r] = GivenUp(q)]
           \/ req' = [req EXCEPT ![r] = Skipped(q)] /\ Head(q.todo) # Latest(q.conv)
        /\ cache' = Remembered(cache, Results(b))
        /\ job' = [job EXCEPT ![<<r, "now">>] = none]
        /\ UNCHANGED losses
    BY DEF Collect, Gathered, GivenUp, Skipped, HasFound, Put
  <1>3. none \in Seq(Task)
    OBVIOUS
  <1> HIDE DEF b, q, none
  <1>4. cache' \in Memories
    BY <1>1, <1>2, ResultsDescribe, RememberedIsMemory
  <1>5. PICK p : p \in Request /\ Stands(p, none) /\ req' = [req EXCEPT ![r] = p]
    <2>1. CASE req' = [req EXCEPT ![r] = Gathered(q, b)]
      BY <1>1, <1>2, <2>1, GatheredStands
    <2>2. CASE req' = [req EXCEPT ![r] = GivenUp(q)]
      BY <1>1, <1>2, <2>2, GivenUpStands
    <2>3. CASE req' = [req EXCEPT ![r] = Skipped(q)] /\ Head(q.todo) # Latest(q.conv)
      BY <1>1, <1>2, <2>3, SkippedStands
    <2>4. QED
      BY <1>2, <2>1, <2>2, <2>3
  <1>6. QED
    BY <1>2, <1>3, <1>4, <1>5, OneRequest

(* ... has the background's results stored,                                *)
LEMMA StoreKeeps ==
    ASSUME VisionInvariant, NEW r \in Requests, Store(r)
    PROVE  VisionInvariant'
  <1> DEFINE b == job[<<r, "later">>]
             none == <<>>
  <1>1. /\ req[r] \in Request /\ cache \in Memories /\ b \in Seq(Task)
        /\ Stands(req[r], job[<<r, "now">>]) /\ req = [req EXCEPT ![r] = req[r]]
    BY EachRequest, InvariantIs DEF Typed
  <1>2. /\ cache' = Remembered(cache, Results(b))
        /\ job' = [job EXCEPT ![<<r, "later">>] = none]
        /\ UNCHANGED <<req, losses>>
    BY DEF Store
  <1>3. none \in Seq(Task)
    OBVIOUS
  <1> HIDE DEF b, none
  <1>4. cache' \in Memories
    BY <1>1, <1>2, ResultsDescribe, RememberedIsMemory
  <1>5. req' = [req EXCEPT ![r] = req[r]]
    BY <1>1, <1>2
  <1>6. QED
    BY <1>1, <1>2, <1>3, <1>4, <1>5, OneRequest

(* ... recalls deeper rounds,                                              *)
LEMMA RecallKeeps ==
    ASSUME VisionInvariant, NEW r \in Requests, Recall(r)
    PROVE  VisionInvariant'
  <1> DEFINE b == job[<<r, "now">>]
             q == req[r]
             later == Later(q)
  <1>1. /\ q \in Request /\ cache \in Memories /\ b \in Seq(Task) /\ Stands(q, b)
    BY EachRequest
  <1>2. /\ q.pc = "look" /\ q.todo = <<>>
        /\ req' = [req EXCEPT ![r].pc = "cut", ![r].found = Recalled(@, Known(q))]
        /\ job' = [job EXCEPT ![<<r, "later">>] = later]
        /\ UNCHANGED <<cache, losses>>
    BY DEF Recall, Known, Later, Left, Unseen, Places
  <1>3. req' = [req EXCEPT ![r] = Recalls(q)]
    BY <1>2, InvariantIs DEF Recalls, Typed
  <1> HIDE DEF b, q, later
  <1>4. Recalls(q) \in Request /\ later \in Seq(Task) /\ Stands(Recalls(q), b)
    BY <1>1, <1>2, RecalledStands DEF later
  <1>5. QED
    BY <1>1, <1>2, <1>3, <1>4, OneRequest DEF b

(* ... puts its texts in place;                                            *)
LEMMA TellKeeps ==
    ASSUME VisionInvariant, NEW r \in Requests, Tell(r)
    PROVE  VisionInvariant'
  <1> DEFINE b == job[<<r, "now">>]
             q == req[r]
  <1>1. /\ q \in Request /\ cache \in Memories /\ b \in Seq(Task) /\ Stands(q, b)
        /\ job = [job EXCEPT ![<<r, "now">>] = b]
    BY EachRequest
  <1>2. /\ q.pc = "cut"
        /\ req' = [req EXCEPT ![r].pc = "done",
                              ![r].said = Fitting(Cut(Texts(q.found), q.room), q.room)]
        /\ UNCHANGED <<cache, job, losses>>
    BY DEF Tell
  <1>3. req' = [req EXCEPT ![r] = Tells(q)]
    BY <1>2, InvariantIs DEF Tells, Typed
  <1> HIDE DEF b, q
  <1>4. Tells(q) \in Request /\ Stands(Tells(q), b)
    BY <1>1, <1>2, TellsStands
  <1>5. QED
    BY <1>1, <1>2, <1>3, <1>4, OneRequest

(* A step of one task that leaves it its images keeps the invariant.       *)
LEMMA OneTask ==
    ASSUME VisionInvariant, NEW o \in Owners, NEW k \in DOMAIN job[o], NEW t \in Task,
           t.imgs = job[o][k].imgs,
           job' = [job EXCEPT ![o] = [job[o] EXCEPT ![k] = t]],
           UNCHANGED <<cache, req, losses>>
    PROVE  VisionInvariant'
  <1> DEFINE b == job[o]
             c == [b EXCEPT ![k] = t]
  <1>1. Typed /\ \A s \in Requests : Stands(req[s], job[<<s, "now">>])
    BY InvariantIs
  <1>2. b \in Seq(Task) /\ k \in DOMAIN b
    BY <1>1 DEF Typed
  <1>3. t.imgs = b[k].imgs
    OBVIOUS
  <1>4. job' = [job EXCEPT ![o] = c]
    OBVIOUS
  <1> HIDE DEF b
  <1>5. /\ c \in Seq(Task) /\ DOMAIN c = DOMAIN b
        /\ \A i \in DOMAIN b : c[i].imgs = b[i].imgs
    BY <1>2, <1>3
  <1> HIDE DEF c
  <1>6. Typed'
    BY <1>1, <1>4, <1>5 DEF Typed
  <1>7. ASSUME NEW s \in Requests PROVE Stands(req'[s], job'[<<s, "now">>])
    <2>1. <<s, "now">> \in Owners /\ req'[s] = req[s]
      BY DEF Owners
    <2>2. CASE <<s, "now">> = o
      <3>1. job'[<<s, "now">>] = c /\ job[<<s, "now">>] = b
        BY <1>1, <1>4, <2>1, <2>2 DEF Typed, b
      <3>2. Stands(req[s], b)
        BY <1>1, <3>1
      <3> DEFINE q == req[s]
      <3>3. Stands(q, b)
        BY <3>2
      <3> HIDE DEF q
      <3>4. Stands(q, c)
        BY <1>2, <1>5, <3>3, SameImages
      <3>5. QED
        BY <2>1, <3>1, <3>4 DEF q
    <2>3. CASE <<s, "now">> # o
      <3>1. job'[<<s, "now">>] = job[<<s, "now">>]
        BY <1>1, <1>4, <2>1, <2>3 DEF Typed
      <3>2. QED
        BY <1>1, <2>1, <3>1
    <2>4. QED
      BY <2>2, <2>3
  <1>8. QED
    BY <1>6, <1>7, InvariantNext

(* ... a task calls the second model, or has its answer;                   *)
LEMMA AnalyseKeeps ==
    ASSUME VisionInvariant, NEW o \in Owners, Analyse(o)
    PROVE  VisionInvariant'
  <1>1. job \in [Owners -> Seq(Task)] /\ job[o] \in Seq(Task)
    BY InvariantIs DEF Typed
  <1>2. \A k \in DOMAIN job[o] : job[o][k] \in Task
    BY <1>1
  <1>3. UNCHANGED <<cache, req, losses>>
    BY DEF Analyse, Call, Answer
  <1>4. CASE Call(o)
    <2>1. PICK k \in DOMAIN job[o] : job' = [job EXCEPT ![o][k].at = "call"]
      BY <1>4 DEF Call
    <2> DEFINE t == [job[o][k] EXCEPT !.at = "call"]
    <2>2. t \in Task /\ t.imgs = job[o][k].imgs
      BY <1>2 DEF Task
    <2>3. job' = [job EXCEPT ![o] = [job[o] EXCEPT ![k] = t]]
      BY <1>1, <2>1
    <2> HIDE DEF t
    <2>4. QED
      BY <1>3, <2>2, <2>3, OneTask
  <1>5. CASE Answer(o)
    <2>1. PICK k \in Calls(o) :
             \/ \E n \in Lengths : job' = [job EXCEPT ![o][k].at = "ok", ![o][k].len = n]
             \/ job' = [job EXCEPT ![o][k].at = "bad"]
      BY <1>5 DEF Answer
    <2>2. k \in DOMAIN job[o]
      BY DEF Calls
    <2>3. CASE \E n \in Lengths : job' = [job EXCEPT ![o][k].at = "ok", ![o][k].len = n]
      <3>1. PICK n \in Lengths : job' = [job EXCEPT ![o][k].at = "ok", ![o][k].len = n]
        BY <2>3
      <3> DEFINE t == [job[o][k] EXCEPT !.at = "ok", !.len = n]
      <3>2. n \in Nat
        BY VisionAssumption
      <3>3. t \in Task /\ t.imgs = job[o][k].imgs
        BY <1>2, <2>2, <3>2 DEF Task
      <3>4. job' = [job EXCEPT ![o] = [job[o] EXCEPT ![k] = t]]
        BY <1>1, <1>2, <2>2, <3>1 DEF Task
      <3> HIDE DEF t
      <3>5. QED
        BY <1>3, <2>2, <3>3, <3>4, OneTask
    <2>4. CASE job' = [job EXCEPT ![o][k].at = "bad"]
      <3> DEFINE t == [job[o][k] EXCEPT !.at = "bad"]
      <3>1. t \in Task /\ t.imgs = job[o][k].imgs
        BY <1>2, <2>2 DEF Task
      <3>2. job' = [job EXCEPT ![o] = [job[o] EXCEPT ![k] = t]]
        BY <1>1, <2>4
      <3> HIDE DEF t
      <3>3. QED
        BY <1>3, <2>2, <3>1, <3>2, OneTask
    <2>5. QED
      BY <2>1, <2>3, <2>4
  <1>6. QED
    BY <1>4, <1>5 DEF Analyse

(* ... a cached description is lost.                                       *)
LEMMA LoseKeeps ==
    ASSUME VisionInvariant, Lose
    PROVE  VisionInvariant'
  <1>1. Typed /\ \A s \in Requests : Stands(req[s], job[<<s, "now">>])
    BY InvariantIs
  <1>2. PICK img \in DOMAIN cache : cache' = [i \in DOMAIN cache \ {img} |-> cache[i]]
    BY DEF Lose
  <1>3. /\ DOMAIN cache \subseteq Images /\ cache \in [DOMAIN cache -> Text]
        /\ \A i \in DOMAIN cache : i \in cache[i].of
    BY <1>1, MemoryIs DEF Typed
  <1> DEFINE D == DOMAIN cache \ {img}
             m == [i \in D |-> cache[i]]
  <1>4. D \subseteq Images /\ m \in [D -> Text] /\ DOMAIN m = D /\ \A i \in D : i \in m[i].of
    BY <1>3
  <1>5. cache' = m
    BY <1>2
  <1> HIDE DEF m, D
  <1>6. m \in Memories
    BY <1>4, MemoryIs
  <1>7. losses' \in 0..MaxLosses /\ UNCHANGED <<req, job>>
    BY <1>1, VisionAssumption DEF Lose, Typed
  <1>8. Typed'
    BY <1>1, <1>5, <1>6, <1>7 DEF Typed
  <1>9. (\A s \in Requests : Stands(req[s], job[<<s, "now">>]))'
    BY <1>1, <1>7
  <1>10. QED
    BY <1>8, <1>9, InvariantNext

-----------------------------------------------------------------------------
(* The invariant holds at first,                                           *)
LEMMA InitStands == Init => VisionInvariant
  <1> SUFFICES ASSUME Init PROVE VisionInvariant
    OBVIOUS
  <1>1. Typed
    <2> DEFINE m == [i \in {} |-> Unknown]
    <2>1. m \in [{} -> Text] /\ DOMAIN m = {}
      OBVIOUS
    <2>2. cache = m
      BY DEF Init
    <2> HIDE DEF m
    <2>3. m \in Memories
      BY <2>1, MemoryIs
    <2>4. Fresh \in Request /\ <<>> \in Seq(Task) /\ 0 \in 0..MaxLosses
      BY FreshStands, VisionAssumption
    <2>5. QED
      BY <2>2, <2>3, <2>4 DEF Init, Typed
  <1>2. \A s \in Requests : Stands(req[s], job[<<s, "now">>])
    BY FreshStands DEF Init
  <1>3. QED
    BY <1>1, <1>2, InvariantIs

(* ... every step keeps it,                                                *)
LEMMA StepStands == VisionInvariant /\ [Next]_vars => VisionInvariant'
  <1> SUFFICES ASSUME VisionInvariant, [Next]_vars PROVE VisionInvariant'
    OBVIOUS
  <1>1. ASSUME NEW r \in Requests, Begin(r) PROVE VisionInvariant'
    BY <1>1, BeginKeeps
  <1>2. ASSUME NEW r \in Requests, Proceed(r) PROVE VisionInvariant'
    BY <1>2, LookKeeps, CollectKeeps, RecallKeeps, TellKeeps DEF Proceed, AllIn, TimeUp
  <1>3. ASSUME NEW r \in Requests, Store(r) PROVE VisionInvariant'
    BY <1>3, StoreKeeps
  <1>4. ASSUME NEW o \in Owners, Analyse(o) PROVE VisionInvariant'
    BY <1>4, AnalyseKeeps
  <1>5. CASE Lose
    BY <1>5, LoseKeeps
  <1>6. CASE UNCHANGED vars
    <2>1. Typed /\ \A s \in Requests : Stands(req[s], job[<<s, "now">>])
      BY InvariantIs
    <2>2. Typed' /\ (\A s \in Requests : Stands(req[s], job[<<s, "now">>]))'
      BY <1>6, <2>1 DEF vars, Typed
    <2>3. QED
      BY <2>2, InvariantNext
  <1>7. QED
    BY <1>1, <1>2, <1>3, <1>4, <1>5, <1>6 DEF Next

(* ... and it says what is to be shown.                                    *)
LEMMA InvariantSound == VisionInvariant => VisionSound
  <1> SUFFICES ASSUME VisionInvariant PROVE VisionSound
    OBVIOUS
  <1>1. TypeOK /\ \A r \in Requests : Stands(req[r], job[<<r, "now">>])
    BY DEF VisionInvariant
  <1>2. DescribesIts
    BY <1>1 DEF VisionInvariant, CacheDescribes, DescribesIts, Stands, FoundDescribes
  <1>3. BudgetHeld
    BY <1>1 DEF BudgetHeld, Stands
  <1>4. FitsTheRoom
    BY <1>1 DEF FitsTheRoom, Stands, Fits
  <1>5. NewestIsTold
    BY <1>1 DEF NewestIsTold, Stands, NewestTold, ToldOf
  <1>6. QED
    BY <1>1, <1>2, <1>3, <1>4, <1>5 DEF VisionSound

(* Whatever order batches, time limits, other requests and background      *)
(* analyses come in, every request stands: what it found was said of the   *)
(* image, its budget covers what it found and still awaits, and the newest *)
(* images are ahead, under analysis, or told of.                           *)
THEOREM VisionStands == Spec => []VisionInvariant
  <1>1. QED
    BY InitStands, StepStands, PTL DEF Spec

(* Descriptions stay with their images and within the budget, what is told *)
(* fits the room and is left out for that reason only, and the newest images *)
(* are told of, reported missing, or sent as they are (strip_image_blocks, *)
(* analyze_all and the shared cache of vision.rs).                         *)
THEOREM VisionIsSound == Spec => []VisionSound
  <1>1. QED
    BY VisionStands, InvariantSound, PTL
=============================================================================
