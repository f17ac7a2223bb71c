-------------------------- MODULE SingleExecutorProofs --------------------------
(***************************************************************************)
(* Proofs about SingleExecutor, for every schedule that any plans build,   *)
(* any number of runs, and systems that panic: the systems run in the      *)
(* order they were written, and a run that returns has run them all and    *)
(* left every gate closed.                                                 *)
(***************************************************************************)
EXTENDS SingleExecutor, BuilderProofs

-----------------------------------------------------------------------------
(* The run in progress has run a prefix of the keys. *)

Gate == schedule.dependency_gate

Descends(s) == \A i, j \in 1..Len(s) : i < j => s[j] < s[i]

\* The systems of opened batches that have not run.
Ready == {s \in Len(ran) + 1 .. Count : \E t \in Trigs : t <= Len(ran) + 1 /\ s \in Members(t)}

\* The stack holds them, the next one on top.
QueueInv ==
    /\ Descends(queue)
    /\ Range(queue) = Ready

\* A closed gate has counted the systems that have run; all others are reset.
Counted(s) == IF s \in Trigs /\ s > Len(ran) + 1
              THEN Cardinality(Opens(s) \cap (1..Len(ran))) ELSE 0

RunInv ==
    /\ executor \in BOOLEAN /\ running \in BOOLEAN /\ runs \in 0..MaxRuns
    /\ queue \in Seq(Nat) /\ ran \in Seq(Nat)
    /\ Len(ran) <= Count /\ \A i \in 1..Len(ran) : ran[i] = i
    /\ \A s \in 1..Count : Gate[s] \in 0..Cnt[s]
    /\ executor => \A s \in 1..Count : Gate[s] = 0
    /\ running => ~executor /\ ~adding /\ QueueInv /\ \A s \in 1..Count : Gate[s] = Counted(s)
    /\ ~running => queue = <<>>

SingleInv == BuilderInv /\ RunInv

-----------------------------------------------------------------------------
(* The folds of RunSystem: a system has at most one dependent. *)

LEMMA FoldNone ==
    ASSUME NEW acc
    PROVE  FoldLeft(CountGate, acc, <<>>) = acc
<1> DEFINE P(g) == g = [s \in SUBSET {} |->
                          IF s = {} THEN acc ELSE CountGate(g[s \ {Max(s)}], <<>>[Max(s)])]
<1>1. DOMAIN <<>> = {}
  OBVIOUS
<1>2. FoldLeft(CountGate, acc, <<>>) = (CHOOSE g : P(g))[{}]
  BY <1>1 DEF FoldLeft, MapThenFoldSet
<1>3. \E g : P(g)
  <2> DEFINE w == [s \in SUBSET {} |-> acc]
  <2>1. \A s \in SUBSET {} : s = {}
    OBVIOUS
  <2>2. P(w)
    BY <2>1
  <2> QED
    BY <2>2
<1> HIDE DEF P
<1>4. PICK h : h = (CHOOSE g : P(g)) /\ P(h)
  BY <1>3
<1>5. h[{}] = acc
  BY <1>4 DEF P
<1> QED
  BY <1>2, <1>4, <1>5

LEMMA FoldOne ==
    ASSUME NEW acc, NEW i
    PROVE  FoldLeft(CountGate, acc, <<i>>) = CountGate(acc, i)
<1> DEFINE P(g) == g = [s \in SUBSET {1} |->
                          IF s = {} THEN acc ELSE CountGate(g[s \ {Max(s)}], <<i>>[Max(s)])]
<1>1. DOMAIN <<i>> = {1} /\ <<i>>[1] = i
  OBVIOUS
<1>2. FoldLeft(CountGate, acc, <<i>>) = (CHOOSE g : P(g))[{1}]
  BY <1>1 DEF FoldLeft, MapThenFoldSet
<1>3. Max({1}) = 1
  BY DEF Max
<1>4. \A s \in SUBSET {1} : s # {} => s = {1} /\ s \ {Max(s)} = {} /\ Max(s) = 1
  BY <1>3
<1>5. \E g : P(g)
  <2> DEFINE w == [s \in SUBSET {1} |-> IF s = {} THEN acc ELSE CountGate(acc, i)]
  <2>1. w[{}] = acc
    OBVIOUS
  <2>2. \A s \in SUBSET {1} : s # {} =>
           CountGate(w[s \ {Max(s)}], <<i>>[Max(s)]) = CountGate(acc, i)
    BY <1>1, <1>4, <2>1
  <2> HIDE DEF w
  <2>3. w = [s \in SUBSET {1} |->
               IF s = {} THEN acc ELSE CountGate(w[s \ {Max(s)}], <<i>>[Max(s)])]
    BY <2>2 DEF w
  <2>4. P(w)
    BY <2>3
  <2> QED
    BY <2>4
<1> HIDE DEF P
<1>6. PICK h : h = (CHOOSE g : P(g)) /\ P(h)
  BY <1>5
<1>7. \A s \in SUBSET {1} :
         h[s] = IF s = {} THEN acc ELSE CountGate(h[s \ {Max(s)}], <<i>>[Max(s)])
  BY <1>6 DEF P
<1>8. h[{}] = acc
  BY <1>7
<1>9. h[{1}] = CountGate(h[{1} \ {Max({1})}], <<i>>[Max({1})])
  BY <1>7
<1>10. {1} \ {Max({1})} = {}
  BY <1>3
<1> QED
  BY <1>1, <1>2, <1>3, <1>6, <1>8, <1>9, <1>10

-----------------------------------------------------------------------------
(* Sequences. *)

\* A stack without its top.
LEMMA FrontFacts ==
    ASSUME NEW q \in Seq(Nat), q # <<>>, Descends(q)
    PROVE  /\ Front(q) \in Seq(Nat) /\ Descends(Front(q))
           /\ Last(q) \in Range(q) /\ \A x \in Range(q) : Last(q) <= x
           /\ Range(Front(q)) = Range(q) \ {Last(q)}
<1>1. Len(q) \in Nat /\ Len(q) # 0 /\ Last(q) = q[Len(q)]
  BY DEF Last
<1>2. /\ Front(q) \in Seq(Nat) /\ Len(Front(q)) = Len(q) - 1
      /\ \A i \in 1..Len(q) - 1 : Front(q)[i] = q[i]
  <2>1. PICK n \in Nat : n = Len(q) - 1 /\ n + 1 = Len(q)
    BY <1>1
  <2>2. Front(q) = SubSeq(q, 1, n) /\ \A i \in 1..n : i \in 1..Len(q)
    BY <2>1 DEF Front
  <2>3. SubSeq(q, 1, n) \in Seq(Nat) /\ Len(SubSeq(q, 1, n)) = n
        /\ \A i \in 1..n : SubSeq(q, 1, n)[i] = q[i]
    BY <2>1, <2>2
  <2> QED
    BY <2>1, <2>2, <2>3
<1>3. /\ Range(q) = {q[i] : i \in 1..Len(q)}
      /\ Range(Front(q)) = {Front(q)[i] : i \in 1..Len(Front(q))}
  BY <1>2, RangeFacts
<1>4. \A i \in 1..Len(q) : q[i] \in Nat
  OBVIOUS
<1>5. \A i \in 1..Len(q) : i \in 1..Len(q) - 1 \/ i = Len(q)
  BY <1>1
<1>6. \A i \in 1..Len(q) - 1 : i \in 1..Len(q) /\ i < Len(q) /\ Len(q) \in 1..Len(q)
  BY <1>1
<1>7. \A i \in 1..Len(q) - 1 : Last(q) < q[i]
  BY <1>1, <1>6 DEF Descends
<1>8. Last(q) \in Range(q) /\ Last(q) \in Nat
  BY <1>1, <1>3, <1>4
<1>9. \A x \in Range(q) : Last(q) <= x
  BY <1>1, <1>3, <1>4, <1>5, <1>7
<1>10. Descends(Front(q))
  BY <1>2, <1>6 DEF Descends
<1>11. Range(Front(q)) = Range(q) \ {Last(q)}
  <2>1. \A x : x \in Range(Front(q)) <=> \E i \in 1..Len(q) - 1 : x = q[i]
    BY <1>2, <1>3
  <2>2. \A i \in 1..Len(q) - 1 : q[i] # Last(q)
    BY <1>4, <1>6, <1>7, <1>8
  <2>3. \A x : x \in Range(q) <=> \E i \in 1..Len(q) : x = q[i]
    BY <1>3
  <2>4. ASSUME NEW x, x \in Range(Front(q))
        PROVE  x \in Range(q) \ {Last(q)}
    <3>1. PICK i \in 1..Len(q) - 1 : x = q[i]
      BY <2>1, <2>4
    <3> QED
      BY <1>6, <2>2, <2>3, <3>1
  <2>5. ASSUME NEW x, x \in Range(q) \ {Last(q)}
        PROVE  x \in Range(Front(q))
    <3>1. PICK i \in 1..Len(q) : x = q[i]
      BY <2>3, <2>5
    <3>2. i # Len(q)
      BY <1>1, <2>5, <3>1
    <3> QED
      BY <1>5, <2>1, <3>1, <3>2
  <2> QED
    BY <2>4, <2>5
<1> QED
  BY <1>2, <1>8, <1>9, <1>10, <1>11

\* A stack grows by a smaller one.
LEMMA ConcatDescends ==
    ASSUME NEW s \in Seq(Nat), NEW t \in Seq(Nat), Descends(s), Descends(t),
           \A x \in Range(s), y \in Range(t) : y < x
    PROVE  Descends(s \o t)
<1>1. /\ Len(s \o t) = Len(s) + Len(t) /\ Len(s) \in Nat /\ Len(t) \in Nat
      /\ \A i \in 1..Len(s) : (s \o t)[i] = s[i]
      /\ \A i \in 1..Len(t) : (s \o t)[Len(s) + i] = t[i]
  OBVIOUS
<1>2. \A i \in 1..Len(s), j \in 1..Len(t) : t[j] < s[i]
  <2>1. Range(s) = {s[i] : i \in 1..Len(s)}
    BY RangeFacts
  <2>2. Range(t) = {t[i] : i \in 1..Len(t)}
    BY RangeFacts
  <2> QED
    BY <2>1, <2>2
<1>3. ASSUME NEW i \in 1..Len(s) + Len(t), NEW j \in 1..Len(s) + Len(t), i < j
      PROVE  (s \o t)[j] < (s \o t)[i]
  <2>1. CASE j \in 1..Len(s)
    <3>1. i \in 1..Len(s)
      BY <1>1, <1>3, <2>1
    <3> QED
      BY <1>1, <1>3, <2>1, <3>1 DEF Descends
  <2>2. CASE j \notin 1..Len(s)
    <3>1. PICK b \in 1..Len(t) : j = Len(s) + b
      <4>1. j - Len(s) \in 1..Len(t) /\ j = Len(s) + (j - Len(s))
        BY <1>1, <2>2
      <4> QED
        BY <4>1
    <3>2. CASE i \in 1..Len(s)
      BY <1>1, <1>2, <3>1, <3>2
    <3>3. CASE i \notin 1..Len(s)
      <4>1. PICK a \in 1..Len(t) : i = Len(s) + a
        <5>1. i - Len(s) \in 1..Len(t) /\ i = Len(s) + (i - Len(s))
          BY <1>1, <3>3
        <5> QED
          BY <5>1
      <4>2. a < b
        BY <1>1, <1>3, <3>1, <4>1
      <4> QED
        BY <1>1, <3>1, <4>1, <4>2 DEF Descends
    <3> QED
      BY <3>2, <3>3
  <2> QED
    BY <2>1, <2>2
<1> QED
  BY <1>1, <1>3 DEF Descends

\* A batch is pushed with its trigger on top and the associates in key order.
LEMMA DispatchFacts ==
    ASSUME VectorsInv, EdgesInv, NEW t \in 1..Count
    PROVE  /\ G!DispatchOrder(t) \in Seq(Nat) /\ Descends(G!DispatchOrder(t))
           /\ Range(G!DispatchOrder(t)) = Members(t)
<1>1. Asc[t] \in Seq(Nat) /\ t \in Nat
  <2>1. Count \in Nat /\ Keys = 1..Count /\ \A s \in Keys : Asc[s] \in Seq(Nat)
    BY KeysFacts
  <2> QED
    BY <2>1
<1>2. PICK a \in Seq(Nat) : a = Asc[t]
  BY <1>1
<1>3. /\ Len(a) \in Nat /\ \A i \in 1..Len(a) : a[i] \in Nat
      /\ \A i, j \in 1..Len(a) : i < j => a[i] < a[j]
      /\ \A y \in Range(a) : t < y
      /\ Range(a) = {a[i] : i \in 1..Len(a)}
  <2>1. \A y \in Range(a) : t < y
    BY <1>2, GraphKeys, KeysFacts
  <2>2. Range(a) = {a[i] : i \in 1..Len(a)}
    BY RangeFacts
  <2> QED
    BY <1>2, <2>1, <2>2 DEF EdgesInv
<1> DEFINE r == [i \in 1..Len(a) |-> a[(Len(a) - i) + 1]]
<1>4. \A i \in 1..Len(a) : (Len(a) - i) + 1 \in 1..Len(a)
  BY <1>3
<1>5. r \in [1..Len(a) -> Nat]
  BY <1>3, <1>4
<1>6. G!DispatchOrder(t) = r \o <<t>>
  BY <1>2 DEF G!DispatchOrder, G!Reverse, Asc
<1>7. \A i \in 1..Len(a) : r[i] = a[(Len(a) - i) + 1]
  OBVIOUS
<1> HIDE DEF r
<1>8. r \in Seq(Nat) /\ Len(r) = Len(a)
  BY <1>3, <1>5, FunctionIsSeq
<1>9. Descends(r)
  <2>1. \A i, j \in 1..Len(a) : i < j => (Len(a) - j) + 1 < (Len(a) - i) + 1
    BY <1>3
  <2> QED
    BY <1>3, <1>4, <1>7, <1>8, <2>1 DEF Descends
<1>10. Range(r) = Range(a)
  <2>1. Range(r) = {r[i] : i \in 1..Len(a)}
    BY <1>8, RangeFacts
  <2>2. \A i \in 1..Len(a) : a[i] = r[(Len(a) - i) + 1]
    <3>1. \A i \in 1..Len(a) : (Len(a) - ((Len(a) - i) + 1)) + 1 = i
      BY <1>3
    <3> QED
      BY <1>4, <1>7, <3>1
  <2>3. Range(a) = {a[i] : i \in 1..Len(a)}
    BY <1>3
  <2>4. \A i \in 1..Len(a) : r[i] \in Range(a)
    BY <1>4, <1>7, <2>3
  <2>5. \A i \in 1..Len(a) : a[i] \in Range(r)
    BY <1>4, <2>1, <2>2
  <2> QED
    BY <2>1, <2>3, <2>4, <2>5
<1>11. <<t>> \in Seq(Nat) /\ Range(<<t>>) = {t} /\ Descends(<<t>>)
  BY <1>1 DEF Range, Descends
<1>12. Descends(r \o <<t>>)
  BY <1>3, <1>8, <1>9, <1>10, <1>11, ConcatDescends
<1>13. Range(r \o <<t>>) = Range(a) \cup {t} /\ r \o <<t>> \in Seq(Nat)
  BY <1>8, <1>10, <1>11, ConcatFacts
<1> QED
  BY <1>2, <1>6, <1>12, <1>13 DEF Members

-----------------------------------------------------------------------------
(* One turn of the loop. *)

\* The next system to run is the next one in key order.
LEMMA StackTop ==
    ASSUME VectorsInv, GraphInv, RunInv, running, NEW k, k = Len(ran) + 1
    PROVE  /\ k \in Nat
           /\ queue # <<>> => k \in 1..Count /\ Last(queue) = k
           /\ queue = <<>> => Len(ran) = Count
<1>1. /\ Count \in Nat /\ Len(ran) \in Nat /\ Len(ran) <= Count /\ k \in Nat
      /\ queue \in Seq(Nat) /\ Descends(queue) /\ Range(queue) = Ready
  BY KeysFacts DEF RunInv, QueueInv
<1>2. /\ \A s \in 1..Count : \E t \in Trigs : s \in Members(t)
      /\ Trigs \subseteq 1..Count
      /\ \A t \in 1..Count : \A y \in Range(Asc[t]) : t < y
  BY <1>1, GraphKeys DEF GraphInv, BatchInv
<1>3. k <= Count => k \in Ready
  <2> SUFFICES ASSUME k <= Count
               PROVE  k \in Ready
    OBVIOUS
  <2>1. PICK t \in Trigs : k \in Members(t)
    BY <1>1, <1>2
  <2>2. t <= k
    <3>1. t \in 1..Count /\ (k = t \/ k \in Range(Asc[t]))
      BY <1>2, <2>1 DEF Members
    <3>2. t \in Nat /\ (k \in Range(Asc[t]) => t < k)
      BY <1>2, <3>1
    <3> QED
      BY <1>1, <3>1, <3>2
  <2> QED
    BY <1>1, <2>1, <2>2 DEF Ready
<1>4. \A x \in Ready : x \in k..Count
  BY DEF Ready
<1>5. queue = <<>> <=> Ready = {}
  BY <1>1, RangeFacts
<1>6. queue # <<>> => k <= Count
  BY <1>1, <1>4, <1>5
<1>7. ASSUME queue # <<>>
      PROVE  Last(queue) = k
  <2>1. Last(queue) \in Ready /\ \A x \in Ready : Last(queue) <= x
    BY <1>1, <1>7, FrontFacts
  <2>2. Last(queue) <= k /\ Last(queue) \in k..Count
    BY <1>3, <1>4, <1>6, <1>7, <2>1
  <2> QED
    BY <1>1, <2>2
<1>8. queue = <<>> => Len(ran) = Count
  BY <1>1, <1>3, <1>5
<1> QED
  BY <1>1, <1>6, <1>7, <1>8

\* A gate that k opens or counts at.
LEMMA GateFacts ==
    ASSUME VectorsInv, GraphInv, NEW k \in 1..Count, NEW i \in Trigs, k \in Opens(i),
           NEW m, m = k - 1
    PROVE  /\ i \in k + 1 .. Count
           /\ Cardinality(Opens(i) \cap (1..m)) + 1 = Cardinality(Opens(i) \cap (1..k))
           /\ Cardinality(Opens(i) \cap (1..k)) \in 0..Cnt[i]
           /\ Cardinality(Opens(i) \cap (1..k)) = Cnt[i] <=> i = k + 1
<1>1. Count \in Nat /\ k \in Nat /\ m \in Nat /\ EdgesInv /\ GateInv
  BY KeysFacts DEF GraphInv
<1>2. i \in 1..Count /\ Opens(i) \subseteq 1..Count /\ \A p \in Opens(i) : p < i
  BY <1>1, GraphKeys
<1>3. i \in k + 1 .. Count /\ i # 1
  BY <1>1, <1>2
<1>4. i - 1 \in Opens(i) /\ Cnt[i] = Cardinality(Opens(i))
  BY <1>3 DEF GateInv, GraphInv
<1>5. IsFiniteSet(Opens(i))
  <2>1. IsFiniteSet(1..Count)
    BY <1>1, FS_Interval
  <2> QED
    BY <1>2, <2>1, FS_Subset
<1> DEFINE A == Opens(i) \cap (1..m)
<1> DEFINE B == Opens(i) \cap (1..k)
<1>6. B = A \cup {k} /\ k \notin A
  <2>1. \A x : x \in 1..k <=> x \in 1..m \/ x = k
    BY <1>1
  <2>2. k \notin 1..m
    BY <1>1
  <2> QED
    BY <2>1, <2>2
<1>7. A \subseteq Opens(i) /\ B \subseteq Opens(i)
  OBVIOUS
<1>8. i = k + 1 => B = Opens(i)
  <2>1. \A p \in 1..Count : p < k + 1 => p \in 1..k
    BY <1>1
  <2> QED
    BY <1>2, <2>1
<1>9. i # k + 1 => B # Opens(i)
  <2>1. i # k + 1 => i - 1 \notin 1..k
    BY <1>1, <1>3
  <2> QED
    BY <1>4, <2>1
<1> HIDE DEF A, B
<1>10. IsFiniteSet(A) /\ IsFiniteSet(B)
  BY <1>5, <1>7, FS_Subset
<1>11. Cardinality(B) = Cardinality(A) + 1
  BY <1>6, <1>10, FS_AddElement
<1>12. /\ Cardinality(B) <= Cardinality(Opens(i))
       /\ Cardinality(Opens(i)) = Cardinality(B) => Opens(i) = B
  BY <1>5, <1>7, FS_Subset
<1>13. Cardinality(B) \in Nat /\ Cardinality(Opens(i)) \in Nat
  BY <1>5, <1>10, FS_CardinalityType
<1> QED
  BY <1>3, <1>4, <1>8, <1>9, <1>11, <1>12, <1>13 DEF A, B

LEMMA AtMostOne ==
    ASSUME NEW q \in Seq(Nat), Len(q) <= 1, q # <<>>
    PROVE  \E i \in Nat : q = <<i>>
<1>1. Len(q) \in Nat
  OBVIOUS
<1>2. Len(q) # 0
  OBVIOUS
<1>3. Len(q) = 1
  <2>1. \A n \in Nat : n <= 1 /\ n # 0 => n = 1
    OBVIOUS
  <2> QED
    BY <1>1, <1>2, <2>1
<1>4. q[1] \in Nat
  BY <1>3
<1>5. q = <<q[1]>>
  BY <1>3
<1> QED
  BY <1>4, <1>5

\* What one turn does: no dependent, one whose gate stays closed, one released.
Turn(k) ==
    \/ /\ Dep[k] = <<>>
       /\ Gate' = Gate /\ queue' = Front(queue)
    \/ \E i \in Trigs :
          /\ Dep[k] = <<i>>
          /\ \/ /\ i = k + 1
                /\ Gate' = [Gate EXCEPT ![i] = 0]
                /\ queue' = Front(queue) \o G!DispatchOrder(i)
             \/ /\ i # k + 1
                /\ Gate' = [Gate EXCEPT ![i] = Cardinality(Opens(i) \cap (1..k))]
                /\ queue' = Front(queue)

LEMMA TurnFacts ==
    ASSUME VectorsInv, GraphInv, RunInv, RunSystem, NEW k, k = Len(ran) + 1
    PROVE  /\ k \in 1..Count /\ Last(queue) = k /\ ran' = Append(ran, k)
           /\ Turn(k)
           /\ Cnt' = Cnt /\ Dep' = Dep /\ Asc' = Asc /\ schedule.root' = schedule.root
           /\ schedule' = [schedule EXCEPT !.dependency_gate = Gate']
<1>1. running /\ queue # <<>>
  BY DEF RunSystem
<1>2. k \in 1..Count /\ Last(queue) = k /\ k \in Nat /\ Count \in Nat
  BY <1>1, StackTop, KeysFacts
<1> DEFINE end == FoldLeft(CountGate, [gate |-> Gate, queue |-> Front(queue)], Dep[k])
<1>3. /\ ran' = Append(ran, k) /\ queue' = end.queue
      /\ schedule' = [schedule EXCEPT !.dependency_gate = end.gate]
  BY <1>2 DEF RunSystem, Gate, Dep
<1> HIDE DEF end
<1>4. /\ Cnt' = Cnt /\ Dep' = Dep /\ Asc' = Asc /\ schedule.root' = schedule.root
      /\ Gate' = end.gate
  BY <1>3 DEF VectorsInv, Schedules, Cnt, Dep, Asc, Gate
<1>5. Dep[k] \in Seq(Nat) /\ Len(Dep[k]) <= 1 /\ Range(Dep[k]) \subseteq k + 1 .. Count
  BY <1>2, KeysFacts DEF GraphInv, EdgesInv
<1>6. ASSUME Dep[k] = <<>>
      PROVE  Turn(k)
  <2>1. end = [gate |-> Gate, queue |-> Front(queue)]
    BY <1>6, FoldNone DEF end
  <2> QED
    BY <1>2, <1>3, <1>4, <1>6, <2>1 DEF Turn
<1>7. ASSUME Dep[k] # <<>>
      PROVE  Turn(k)
  <2>1. PICK i \in Nat : Dep[k] = <<i>>
    <3> QED
      BY <1>5, <1>7, AtMostOne
  <2>2. i \in Range(Dep[k])
    BY <2>1 DEF Range
  <2>3. i \in 1..Count
    BY <1>2, <1>5, <2>2
  <2>4. i \in Trigs /\ k \in Opens(i)
    BY <1>2, <2>2, <2>3 DEF Trigs, Opens
  <2>5. PICK m \in Nat : m = k - 1 /\ m = Len(ran)
    BY <1>2 DEF RunInv
  <2>6. /\ i \in k + 1 .. Count
        /\ Cardinality(Opens(i) \cap (1..m)) + 1 = Cardinality(Opens(i) \cap (1..k))
        /\ Cardinality(Opens(i) \cap (1..k)) = Cnt[i] <=> i = k + 1
    BY <1>2, <2>4, <2>5, GateFacts
  <2>7. Gate[i] + 1 = Cardinality(Opens(i) \cap (1..k))
    <3>1. Gate[i] = Counted(i)
      BY <1>1, <2>3 DEF RunInv
    <3>2. i > Len(ran) + 1
      BY <1>2, <2>5, <2>6
    <3> QED
      BY <2>4, <2>5, <2>6, <3>1, <3>2 DEF Counted
  <2>8. end = CountGate([gate |-> Gate, queue |-> Front(queue)], i)
    BY <2>1, FoldOne DEF end
  <2>9. end = [gate |-> [Gate EXCEPT ![i] = IF Gate[i] + 1 = Cnt[i] THEN 0 ELSE Gate[i] + 1],
               queue |-> IF Gate[i] + 1 = Cnt[i]
                         THEN Front(queue) \o G!DispatchOrder(i) ELSE Front(queue)]
    BY <2>8 DEF CountGate, Cnt
  <2>10. CASE i = k + 1
    <3>1. /\ Gate' = [Gate EXCEPT ![i] = 0]
          /\ queue' = Front(queue) \o G!DispatchOrder(i)
      BY <1>3, <1>4, <2>6, <2>7, <2>9, <2>10
    <3> QED
      BY <2>1, <2>4, <2>10, <3>1 DEF Turn
  <2>11. CASE i # k + 1
    <3>1. /\ Gate' = [Gate EXCEPT ![i] = Cardinality(Opens(i) \cap (1..k))]
          /\ queue' = Front(queue)
      BY <1>3, <1>4, <2>6, <2>7, <2>9, <2>11
    <3> QED
      BY <2>1, <2>4, <2>11, <3>1 DEF Turn
  <2> QED
    BY <2>10, <2>11
<1>8. Turn(k)
  BY <1>6, <1>7
<1> QED
  BY <1>2, <1>3, <1>4, <1>8

\* The graph does not change when a gate does.
LEMMA SameEdges ==
    ASSUME VectorsInv, GraphInv, DeclaredInv, RunInv, NEW g, g \in [1..Count -> Nat],
           schedule' = [schedule EXCEPT !.dependency_gate = g], declared' = declared
    PROVE  /\ VectorsInv' /\ GraphInv' /\ DeclaredInv' /\ Count' = Count
           /\ Cnt' = Cnt /\ Gate' = g /\ Trigs' = Trigs
           /\ \A t : Members(t)' = Members(t) /\ Opens(t)' = Opens(t)
<1>1. /\ Cnt' = Cnt /\ Dep' = Dep /\ Asc' = Asc /\ schedule.root' = schedule.root /\ Gate' = g
      /\ schedule' \in [dependency_count : Seq(Nat), dependency_gate : {g},
              dependents : Seq(Seq(Nat)), associates : Seq(Seq(Nat)), root : Nat]
  BY DEF VectorsInv, Schedules, Cnt, Dep, Asc, Gate
<1>2. Count' = Count /\ Count \in Nat
  BY <1>1, KeysFacts DEF Count, Cnt
<1>3. g \in Seq(Nat) /\ Len(g) = Count
  BY <1>2, FunctionIsSeq
<1>4. schedule' \in Schedules
  BY <1>1, <1>3 DEF Schedules
<1>5. VectorsInv'
  BY <1>1, <1>2, <1>3, <1>4 DEF VectorsInv, Gate
<1>6. Trigs' = Trigs
  BY <1>1, <1>2 DEF Trigs
<1>7. \A t : /\ Members(t)' = Members(t) /\ Opens(t)' = Opens(t)
             /\ DeclaredBefore(t)' = DeclaredBefore(t)
  BY <1>1, <1>2 DEF Members, Opens, DeclaredBefore
<1>8. EdgesInv' /\ BatchInv' /\ NestedInv'
  BY <1>1, <1>2, <1>6, <1>7 DEF GraphInv, EdgesInv, BatchInv, NestedInv
<1>9. GateInv'
  BY <1>1, <1>6, <1>7 DEF GraphInv, GateInv
<1>10. DeclaredInv'
  <2>1. \A t : Cover(Opens(t))' = Cover(Opens(t))
    BY <1>7 DEF Cover
  <2> QED
    BY <1>2, <1>6, <1>7, <2>1 DEF DeclaredInv
<1> QED
  BY <1>1, <1>2, <1>5, <1>6, <1>7, <1>8, <1>9, <1>10 DEF GraphInv

\* What is ready once k has run: what was, without k, and the batch of the
\* next system if that one is a trigger.
LEMMA ReadyNext ==
    ASSUME VectorsInv, GraphInv, NEW k \in 1..Count, k = Len(ran) + 1,
           Len(ran') = k, Count' = Count, Trigs' = Trigs, \A t : Members(t)' = Members(t)
    PROVE  Ready' = (Ready \ {k}) \cup (IF k + 1 \in Trigs THEN Members(k + 1) ELSE {})
<1>1. Count \in Nat /\ k \in Nat /\ Len(ran) \in Nat /\ EdgesInv
  <2>1. Count \in Nat /\ EdgesInv
    BY KeysFacts DEF GraphInv
  <2> QED
    BY <2>1
<1>2. /\ Trigs \subseteq 1..Count
      /\ \A t \in 1..Count :
            /\ Members(t) \subseteq 1..Count /\ t \in Members(t)
            /\ \A y \in Range(Asc[t]) : y \in 1..Count /\ t < y
  BY <1>1, GraphKeys
<1>3. \A s : s \in Ready' <=> s \in k + 1 .. Count /\ \E t \in Trigs : t <= k + 1 /\ s \in Members(t)
  BY DEF Ready
<1>4. \A s : s \in Ready <=> s \in k .. Count /\ \E t \in Trigs : t <= k /\ s \in Members(t)
  BY DEF Ready
<1>5. \A s : s \in k + 1 .. Count <=> s \in k .. Count /\ s # k
  BY <1>1
<1>6. \A t \in 1..Count : t <= k + 1 <=> t <= k \/ t = k + 1
  BY <1>1
<1>7. k + 1 \in Trigs => Members(k + 1) \subseteq k + 1 .. Count
  <2> SUFFICES ASSUME k + 1 \in Trigs, NEW s \in Members(k + 1)
               PROVE  s \in k + 1 .. Count
    OBVIOUS
  <2>1. k + 1 \in 1..Count
    BY <1>2
  <2>2. s \in 1..Count /\ (s = k + 1 \/ k + 1 < s)
    BY <1>2, <2>1 DEF Members
  <2> QED
    BY <1>1, <2>1, <2>2
<1>8. ASSUME NEW s
      PROVE  s \in Ready' <=>
                s \in Ready \ {k} \/ (k + 1 \in Trigs /\ s \in Members(k + 1))
  <2>1. s \in Ready' <=>
           s \in k + 1 .. Count /\ \E t \in Trigs : (t <= k \/ t = k + 1) /\ s \in Members(t)
    BY <1>2, <1>3, <1>6
  <2>2. s \in Ready \ {k} <=> s \in k + 1 .. Count /\ \E t \in Trigs : t <= k /\ s \in Members(t)
    BY <1>4, <1>5
  <2> QED
    BY <1>7, <2>1, <2>2
<1> QED
  BY <1>8

\* What the gates have counted once k has run.
LEMMA CountedNext ==
    ASSUME VectorsInv, GraphInv, NEW k \in 1..Count, k = Len(ran) + 1,
           Len(ran') = k, Trigs' = Trigs, \A t : Opens(t)' = Opens(t), NEW s \in 1..Count
    PROVE  Counted(s)' = IF s \in Trigs /\ k \in Opens(s)
                         THEN IF s = k + 1 THEN 0 ELSE Cardinality(Opens(s) \cap (1..k))
                         ELSE Counted(s)
<1>1. Count \in Nat /\ k \in Nat /\ EdgesInv /\ GateInv
  BY KeysFacts DEF GraphInv
<1>2. Counted(s)' = IF s \in Trigs /\ s > k + 1 THEN Cardinality(Opens(s) \cap (1..k)) ELSE 0
  BY DEF Counted
<1>3. Counted(s) = IF s \in Trigs /\ s > k THEN Cardinality(Opens(s) \cap (1..Len(ran))) ELSE 0
  BY DEF Counted
<1>4. CASE s \in Trigs /\ k \in Opens(s)
  <2>1. PICK m : m = k - 1
    OBVIOUS
  <2>2. s \in k + 1 .. Count
    BY <1>4, <2>1, GateFacts
  <2>3. s = k + 1 \/ s > k + 1
    BY <1>1, <2>2
  <2>4. s = k + 1 => ~(s > k + 1)
    BY <1>1
  <2> QED
    BY <1>2, <1>4, <2>3, <2>4
<1>5. CASE ~(s \in Trigs /\ k \in Opens(s))
  <2>1. s \in Trigs => s # k + 1
    <3>1. ASSUME s \in Trigs, s = k + 1
          PROVE  k \in Opens(s)
      <4>1. s # 1 /\ s - 1 = k
        BY <1>1, <3>1
      <4> QED
        BY <1>1, <3>1, <4>1 DEF GateInv
    <3> QED
      BY <1>5, <3>1
  <2>2. s > k + 1 \/ s = k + 1 \/ ~(s > k)
    BY <1>1
  <2>3. s > k + 1 => s > k
    BY <1>1
  <2>4. s \in Trigs => Opens(s) \cap (1..k) = Opens(s) \cap (1..Len(ran))
    <3>1. \A x : x \in 1..k <=> x \in 1..Len(ran) \/ x = k
      BY <1>1, <1>5
    <3> QED
      BY <1>5, <3>1
  <2>5. ~(s > k) => ~(s > k + 1)
    BY <1>1
  <2> QED
    BY <1>2, <1>3, <1>5, <2>1, <2>2, <2>3, <2>4, <2>5
<1> QED
  BY <1>4, <1>5

LEMMA RunSystemKeeps ==
    ASSUME SingleInv, RunSystem
    PROVE  SingleInv'
<1>1. /\ VectorsInv /\ GraphInv /\ DeclaredInv /\ StepsTypeInv /\ BuilderInv /\ RunInv
      /\ running /\ queue # <<>> /\ ~adding /\ ~executor
      /\ UNCHANGED <<executor, running, runs, calls, declared, stepVars>>
  BY DEF SingleInv, BuilderInv, RunSystem, RunInv
<1>2. PICK k : k = Len(ran) + 1
  OBVIOUS
<1>3. /\ k \in 1..Count /\ Last(queue) = k /\ ran' = Append(ran, k)
      /\ Turn(k)
      /\ schedule' = [schedule EXCEPT !.dependency_gate = Gate']
  BY <1>1, <1>2, TurnFacts
<1>a. Count \in Nat /\ Gate \in Seq(Nat) /\ DOMAIN Gate = 1..Count
  BY <1>1, KeysFacts DEF Gate
<1>4. /\ Count \in Nat /\ k \in Nat /\ EdgesInv /\ BatchInv /\ NestedInv
      /\ ran \in Seq(Nat) /\ Len(ran) \in Nat /\ Len(ran) <= Count /\ \A i \in 1..Len(ran) : ran[i] = i
      /\ queue \in Seq(Nat) /\ Descends(queue) /\ Range(queue) = Ready
      /\ \A s \in 1..Count : Gate[s] \in 0..Cnt[s] /\ Gate[s] = Counted(s)
  BY <1>1, <1>3, <1>a DEF GraphInv, RunInv, QueueInv
<1>5. /\ Trigs \subseteq 1..Count
      /\ \A t \in 1..Count :
            /\ Members(t) \subseteq 1..Count /\ t \in Members(t)
            /\ \A y \in Range(Asc[t]) : y \in 1..Count /\ t < y
  BY <1>4, GraphKeys
<1>6. PICK h : h = [s \in 1..Count |->
                      IF s \in Trigs /\ k \in Opens(s)
                      THEN IF s = k + 1 THEN 0 ELSE Cardinality(Opens(s) \cap (1..k))
                      ELSE Gate[s]]
  OBVIOUS
<1>7. \A i \in Trigs : k \in Opens(i) <=> i \in Range(Dep[k])
  BY <1>3 DEF Opens
<1>8. /\ Gate' = h
      /\ IF k + 1 \in Trigs
         THEN queue' = Front(queue) \o G!DispatchOrder(k + 1)
         ELSE queue' = Front(queue)
  <2>0. k + 1 \in Trigs => k \in Opens(k + 1)
    <3>1. k \in Nat /\ k # 0
      BY <1>3, <1>4
    <3>2. k + 1 # 1 /\ (k + 1) - 1 = k
      BY <3>1
    <3> QED
      BY <1>1, <3>2 DEF GraphInv, GateInv
  <2>a. Gate = [s \in 1..Count |-> Gate[s]]
    <3>1. Gate \in [DOMAIN Gate -> Nat]
      BY <1>a
    <3> QED
      BY <1>a, <3>1
  <2>1. CASE Dep[k] = <<>> /\ Gate' = Gate /\ queue' = Front(queue)
    <3>1. \A i \in Trigs : k \notin Opens(i)
      BY <1>7, <2>1 DEF Range
    <3>2. h = [s \in 1..Count |-> Gate[s]]
      BY <1>6, <3>1
    <3> QED
      BY <2>0, <2>1, <2>a, <3>1, <3>2
  <2>2. ASSUME NEW i \in Trigs, Dep[k] = <<i>>
        PROVE  /\ \A s \in Trigs : k \in Opens(s) <=> s = i
               /\ k + 1 \in Trigs <=> i = k + 1
    <3>1. Range(Dep[k]) = {i}
      BY <2>2 DEF Range
    <3>2. \A s \in Trigs : k \in Opens(s) <=> s = i
      BY <1>7, <3>1
    <3> QED
      BY <2>0, <3>2
  <2>3. ASSUME NEW i \in Trigs, Dep[k] = <<i>>, i = k + 1, Gate' = [Gate EXCEPT ![i] = 0],
               queue' = Front(queue) \o G!DispatchOrder(i)
        PROVE  /\ Gate' = h
               /\ k + 1 \in Trigs /\ queue' = Front(queue) \o G!DispatchOrder(k + 1)
    <3>1. Gate' = [s \in 1..Count |-> IF s = i THEN 0 ELSE Gate[s]]
      BY <1>a, <2>3
    <3>2. \A s \in 1..Count : s \in Trigs /\ k \in Opens(s) <=> s = i
      BY <2>2, <2>3
    <3>3. h = [s \in 1..Count |-> IF s = i THEN 0 ELSE Gate[s]]
      BY <1>6, <2>3, <3>2
    <3> QED
      BY <2>3, <3>1, <3>3
  <2>4. ASSUME NEW i \in Trigs, Dep[k] = <<i>>, i # k + 1,
               Gate' = [Gate EXCEPT ![i] = Cardinality(Opens(i) \cap (1..k))],
               queue' = Front(queue)
        PROVE  Gate' = h /\ k + 1 \notin Trigs /\ queue' = Front(queue)
    <3>1. Gate' = [s \in 1..Count |->
                     IF s = i THEN Cardinality(Opens(i) \cap (1..k)) ELSE Gate[s]]
      BY <1>a, <2>4
    <3>2. \A s \in 1..Count : s \in Trigs /\ k \in Opens(s) <=> s = i
      BY <2>2, <2>4
    <3>3. h = [s \in 1..Count |->
                 IF s = i THEN Cardinality(Opens(i) \cap (1..k)) ELSE Gate[s]]
      BY <1>6, <2>4, <3>2
    <3> QED
      BY <2>2, <2>4, <3>1, <3>3
  <2> QED
    BY <1>3, <2>1, <2>3, <2>4 DEF Turn
<1>9. \A s \in 1..Count : h[s] \in 0..Cnt[s]
  <2> SUFFICES ASSUME NEW s \in 1..Count
               PROVE  h[s] \in 0..Cnt[s]
    OBVIOUS
  <2>1. Cnt[s] \in Nat
    BY <1>1, KeysFacts
  <2>2. CASE s \in Trigs /\ k \in Opens(s)
    <3>1. PICK m : m = k - 1
      OBVIOUS
    <3>2. Cardinality(Opens(s) \cap (1..k)) \in 0..Cnt[s]
      BY <1>1, <1>3, <2>2, <3>1, GateFacts
    <3> QED
      BY <1>6, <2>1, <2>2, <3>2
  <2>3. CASE ~(s \in Trigs /\ k \in Opens(s))
    BY <1>4, <1>6, <2>3
  <2> QED
    BY <2>2, <2>3
<1>10. h \in [1..Count -> Nat]
  <2>1. \A s \in 1..Count : Cnt[s] \in Nat
    BY <1>1, KeysFacts
  <2>2. \A s \in 1..Count : h[s] \in Nat
    BY <1>9, <2>1
  <2> QED
    BY <1>6, <2>2
<1>11. /\ VectorsInv' /\ GraphInv' /\ DeclaredInv' /\ Count' = Count
       /\ Cnt' = Cnt /\ Gate' = h /\ Trigs' = Trigs
       /\ \A t : Members(t)' = Members(t) /\ Opens(t)' = Opens(t)
  BY <1>1, <1>3, <1>8, <1>10, SameEdges
<1>12. /\ ran' \in Seq(Nat) /\ Len(ran') = k /\ \A i \in 1..k : ran'[i] = i
  <2>1. /\ ran' \in Seq(Nat) /\ Len(ran') = Len(ran) + 1 /\ ran'[Len(ran) + 1] = k
        /\ \A i \in 1..Len(ran) : ran'[i] = ran[i]
    BY <1>3, <1>4, AppendFacts
  <2>2. \A i \in 1..k : i \in 1..Len(ran) \/ i = k
    BY <1>2, <1>4
  <2> QED
    BY <1>2, <1>4, <2>1, <2>2
<1>13. /\ Front(queue) \in Seq(Nat) /\ Descends(Front(queue))
       /\ Range(Front(queue)) = Ready \ {k}
  BY <1>1, <1>3, <1>4, FrontFacts
<1>14. Ready' = (Ready \ {k}) \cup (IF k + 1 \in Trigs THEN Members(k + 1) ELSE {})
  BY <1>1, <1>2, <1>3, <1>11, <1>12, ReadyNext
<1>15. queue' \in Seq(Nat) /\ Descends(queue') /\ Range(queue') = Ready'
  <2>1. CASE k + 1 \notin Trigs
    BY <1>8, <1>13, <1>14, <2>1
  <2>2. CASE k + 1 \in Trigs
    <3>1. PICK i \in 1..Count : i = k + 1 /\ i \in Trigs
      BY <1>5, <2>2
    <3>2. /\ G!DispatchOrder(i) \in Seq(Nat) /\ Descends(G!DispatchOrder(i))
          /\ Range(G!DispatchOrder(i)) = Members(i)
      BY <1>1, <1>4, DispatchFacts
    <3>3. PICK new \in Seq(Nat) : new = G!DispatchOrder(i)
      BY <3>2
    <3>4. ASSUME NEW x \in Ready \ {k}, NEW y \in Members(i)
          PROVE  y < x
      <4>1. PICK u \in Trigs : u <= k /\ x \in Members(u) /\ x \in k .. Count
        BY <1>2, <3>4 DEF Ready
      <4>2. u \in 1..Count /\ u < i /\ u # i
        BY <1>4, <1>5, <3>1, <4>1
      <4>3. x # i
        <5>1. i \in Members(i)
          BY <1>5
        <5> QED
          BY <1>4, <3>1, <4>1, <4>2, <5>1 DEF BatchInv
      <4>4. x > i /\ x # u
        BY <1>4, <3>1, <3>4, <4>1, <4>2, <4>3
      <4>5. x \in Range(Asc[u])
        BY <4>1, <4>4 DEF Members
      <4>6. CASE y = i
        BY <1>4, <3>1, <4>4, <4>6
      <4>7. CASE y \in Range(Asc[i])
        BY <1>4, <3>1, <4>1, <4>2, <4>4, <4>5, <4>7 DEF NestedInv
      <4> QED
        BY <3>4, <4>6, <4>7 DEF Members
    <3>5. Descends(Front(queue) \o new)
      BY <1>13, <3>2, <3>3, <3>4, ConcatDescends
    <3>6. /\ Front(queue) \o new \in Seq(Nat)
          /\ Range(Front(queue) \o new) = (Ready \ {k}) \cup Members(i)
      BY <1>13, <3>2, <3>3, ConcatFacts
    <3> QED
      BY <1>8, <1>14, <2>2, <3>1, <3>3, <3>5, <3>6
  <2> QED
    BY <2>1, <2>2
<1>16. \A s \in 1..Count : Gate'[s] = Counted(s)'
  <2> SUFFICES ASSUME NEW s \in 1..Count
               PROVE  Gate'[s] = Counted(s)'
    OBVIOUS
  <2>1. Counted(s)' = IF s \in Trigs /\ k \in Opens(s)
                      THEN IF s = k + 1 THEN 0 ELSE Cardinality(Opens(s) \cap (1..k))
                      ELSE Counted(s)
    BY <1>1, <1>2, <1>3, <1>11, <1>12, CountedNext
  <2> QED
    BY <1>4, <1>6, <1>11, <2>1
<1>17. RunInv'
  <2>1. QueueInv'
    BY <1>15 DEF QueueInv
  <2>2. k <= Count
    BY <1>3
  <2>3. executor' = executor /\ running' = running /\ runs' = runs /\ adding' = adding
    BY <1>1 DEF stepVars
  <2>4. executor \in BOOLEAN /\ running \in BOOLEAN /\ runs \in 0..MaxRuns
    BY <1>1 DEF RunInv
  <2> QED
    BY <1>1, <1>9, <1>11, <1>12, <1>15, <1>16, <2>1, <2>2, <2>3, <2>4 DEF RunInv
<1>18. BuilderInv'
  <2>1. UNCHANGED <<calls, adding, last, current, trigger, frames, earlier, start>>
    BY <1>1 DEF stepVars
  <2>2. StepsTypeInv'
    BY <1>1, <2>1 DEF StepsTypeInv
  <2>3. frames' = <<>> /\ ~adding'
    BY <1>1, <2>1 DEF BuilderInv
  <2> QED
    BY <1>11, <2>2, <2>3 DEF BuilderInv
<1> QED
  BY <1>17, <1>18 DEF SingleInv

-----------------------------------------------------------------------------
(* The other steps. *)

\* Between two runs the schedule may grow; new systems have closed gates.
LEMMA AddSystemsKeeps ==
    ASSUME SingleInv, AddSystemsIdle
    PROVE  SingleInv'
<1>1. /\ BuilderInv /\ RunInv /\ VectorsInv /\ StepsTypeInv /\ StepsNext /\ ~running
      /\ UNCHANGED <<executor, queue, running, ran, runs>>
  BY DEF SingleInv, BuilderInv, AddSystemsIdle, runVars
<1>2. BuilderInv'
  BY <1>1, BuilderNextInv
<1>3. /\ Count \in Nat /\ Len(ran) \in Nat /\ Len(ran) <= Count
      /\ \A s \in 1..Count : Gate[s] \in 0..Cnt[s]
      /\ executor => \A s \in 1..Count : Gate[s] = 0
  BY <1>1, KeysFacts DEF RunInv
<1>4. /\ Count' \in Nat /\ Len(ran) <= Count'
      /\ \A s \in 1..Count' : Gate'[s] \in 0..Cnt'[s]
      /\ executor => \A s \in 1..Count' : Gate'[s] = 0
  <2>1. CASE ReadSystem
    <3>1. CallInv /\ ReadEdges
      <4>1. CallInv
        BY <1>1, <2>1 DEF BuilderInv, ReadSystem
      <4> QED
        BY <1>1, <2>1, <4>1, ReadFacts
    <3>2. last \in Seq(Nat) /\ Len(last) \in Nat
      BY <1>1 DEF StepsTypeInv
    <3>3. /\ Count' = Count + 1
          /\ \A s \in 1..Count : Cnt'[s] = Cnt[s] /\ Gate'[s] = Gate[s]
          /\ Cnt'[Count + 1] = Len(last) /\ Gate'[Count + 1] = 0
      BY <3>1 DEF ReadEdges, Gate
    <3>4. \A s \in 1..Count' : s \in 1..Count \/ s = Count + 1
      BY <1>3, <3>3
    <3>5. 0 \in 0..Len(last) /\ Count + 1 \in Nat /\ Len(ran) <= Count + 1
      BY <1>3, <3>2
    <3> QED
      BY <1>3, <3>3, <3>4, <3>5
  <2>2. CASE ~ReadSystem
    <3>1. schedule' = schedule
      BY <1>1, <2>2 DEF StepsNext, BeginCall, BeginSequence, NextItem, EndSequence, EndCall
    <3> QED
      BY <1>3, <3>1 DEF Count, Cnt, Gate
  <2> QED
    BY <2>1, <2>2
<1>5. RunInv'
  BY <1>1, <1>4 DEF RunInv
<1> QED
  BY <1>2, <1>5 DEF SingleInv

LEMMA RunKeeps ==
    ASSUME SingleInv, Run
    PROVE  SingleInv'
<1>1. /\ BuilderInv /\ RunInv /\ VectorsInv /\ GraphInv /\ EdgesInv
      /\ ~running /\ executor /\ ~adding
      /\ runs < MaxRuns /\ runs' = runs + 1 /\ executor' = FALSE /\ running' = TRUE /\ ran' = <<>>
      /\ queue' = (IF schedule.root = None THEN <<>> ELSE G!DispatchOrder(schedule.root))
      /\ UNCHANGED <<builderVars, stepVars>>
  BY DEF SingleInv, BuilderInv, GraphInv, Run
<1>2. /\ Count \in Nat /\ Keys = 1..Count /\ schedule.root = (IF Count = 0 THEN None ELSE 1)
      /\ \A s \in Keys : Cnt[s] \in Nat
  BY <1>1, KeysFacts
<1>3. BuilderInv'
  BY <1>1, BuilderNextInv
<1>4. /\ Count' = Count /\ Cnt' = Cnt /\ Gate' = Gate /\ Trigs' = Trigs /\ adding' = adding
      /\ \A t : Members(t)' = Members(t) /\ Opens(t)' = Opens(t)
  <2>1. schedule' = schedule /\ adding' = adding
    BY <1>1 DEF builderVars, stepVars
  <2> QED
    BY <2>1 DEF Count, Cnt, Dep, Asc, Gate, Trigs, Members, Opens
<1>5. /\ \A s \in 1..Count : Gate[s] = 0 /\ Gate[s] \in 0..Cnt[s]
      /\ runs \in 0..MaxRuns
  BY <1>1 DEF RunInv
<1>6. Len(ran') = 0 /\ ran' \in Seq(Nat)
  BY <1>1
<1>7. Trigs \subseteq 1..Count /\ \A t \in 1..Count : Members(t) \subseteq 1..Count
  BY <1>1, <1>2, GraphKeys
<1>8. \A s : s \in Ready' <=> s \in 1..Count /\ \E t \in Trigs : t <= 1 /\ s \in Members(t)
  BY <1>4, <1>6 DEF Ready
<1>9. queue' \in Seq(Nat) /\ Descends(queue') /\ Range(queue') = Ready'
  <2>1. CASE Count = 0
    <3>1. queue' = <<>>
      BY <1>1, <1>2, <2>1
    <3>2. Ready' = {}
      BY <1>8, <2>1
    <3> QED
      BY <3>1, <3>2 DEF Descends, Range
  <2>2. CASE Count # 0
    <3>1. PICK t \in 1..Count : t = 1
      BY <1>2, <2>2
    <3>2. t \in Trigs /\ queue' = G!DispatchOrder(t)
      BY <1>1, <1>2, <2>2, <3>1 DEF Trigs, None
    <3>3. /\ G!DispatchOrder(t) \in Seq(Nat) /\ Descends(G!DispatchOrder(t))
          /\ Range(G!DispatchOrder(t)) = Members(t)
      BY <1>1, DispatchFacts
    <3>4. \A u \in Trigs : u <= 1 <=> u = t
      BY <1>2, <1>7, <3>1
    <3>5. \A s : s \in Ready' <=> s \in Members(t)
      BY <1>7, <1>8, <3>2, <3>4
    <3> QED
      BY <3>2, <3>3, <3>5
  <2> QED
    BY <2>1, <2>2
<1>10. \A s \in 1..Count : Gate'[s] = Counted(s)'
  <2>1. \A s : Opens(s) \cap (1..0) = {}
    OBVIOUS
  <2>2. Cardinality({}) = 0
    BY FS_EmptySet
  <2>3. \A s : Counted(s)' = IF s \in Trigs /\ s > 1 THEN Cardinality(Opens(s) \cap (1..0)) ELSE 0
    BY <1>4, <1>6 DEF Counted
  <2> QED
    BY <1>4, <1>5, <2>1, <2>2, <2>3
<1>11. RunInv'
  <2>1. QueueInv'
    BY <1>9 DEF QueueInv
  <2>2. runs' \in 0..MaxRuns
    BY <1>1, <1>5, RunsAssumption
  <2>3. 0 <= Count /\ 1..0 = {}
    BY <1>2
  <2> QED
    BY <1>1, <1>4, <1>5, <1>6, <1>9, <1>10, <2>1, <2>2, <2>3 DEF RunInv
<1> QED
  BY <1>3, <1>11 DEF SingleInv

LEMMA RunEndsKeeps ==
    ASSUME SingleInv, SystemPanics \/ RunReturns
    PROVE  SingleInv'
<1>1. /\ BuilderInv /\ RunInv /\ VectorsInv /\ GraphInv /\ running
      /\ running' = FALSE /\ queue' = <<>> /\ ran' = ran /\ runs' = runs
      /\ UNCHANGED <<builderVars, stepVars>>
  BY DEF SingleInv, BuilderInv, SystemPanics, RunReturns
<1>2. BuilderInv'
  BY <1>1, BuilderNextInv
<1>3. Count' = Count /\ Cnt' = Cnt /\ Gate' = Gate
  BY <1>1 DEF builderVars, Count, Cnt, Gate
<1>4. /\ executor = FALSE /\ ran \in Seq(Nat) /\ runs \in 0..MaxRuns
      /\ Len(ran) <= Count /\ \A i \in 1..Len(ran) : ran[i] = i
      /\ \A s \in 1..Count : Gate[s] \in 0..Cnt[s] /\ Gate[s] = Counted(s)
  BY <1>1 DEF RunInv
<1>5. executor' \in BOOLEAN /\ (executor' => \A s \in 1..Count : Gate[s] = 0)
  <2>1. CASE SystemPanics
    BY <1>4, <2>1 DEF SystemPanics
  <2>2. CASE RunReturns
    <3>1. Count \in Nat
      BY <1>1, KeysFacts
    <3>2. PICK k : k = Len(ran) + 1
      OBVIOUS
    <3>3. Len(ran) = Count
      BY <1>1, <2>2, <3>2, StackTop DEF RunReturns
    <3>4. \A s \in 1..Count : ~(s > Count + 1)
      BY <3>1
    <3>5. \A s \in 1..Count : Counted(s) = 0
      BY <3>3, <3>4 DEF Counted
    <3> QED
      BY <1>4, <2>2, <3>5 DEF RunReturns
  <2> QED
    BY <2>1, <2>2
<1>6. <<>> \in Seq(Nat)
  OBVIOUS
<1>7. RunInv'
  BY <1>1, <1>3, <1>4, <1>5, <1>6 DEF RunInv
<1> QED
  BY <1>2, <1>7 DEF SingleInv

LEMMA SingleInvariant == SingleSpec => []SingleInv
<1>1. SingleInit => SingleInv
  <2> SUFFICES ASSUME SingleInit
               PROVE  SingleInv
    OBVIOUS
  <2>1. BuilderInv
    BY BuilderInitInv DEF SingleInit
  <2>2. /\ executor = TRUE /\ queue = <<>> /\ running = FALSE /\ ran = <<>> /\ runs = 0
        /\ Count = 0
    BY DEF SingleInit, StepsInit, BuilderInit, NewSchedule, Count
  <2>3. <<>> \in Seq(Nat) /\ 0 \in 0..MaxRuns /\ Len(<<>>) = 0 /\ 1..0 = {}
    BY RunsAssumption
  <2>4. executor \in BOOLEAN /\ running \in BOOLEAN
    BY <2>2
  <2>5. queue \in Seq(Nat) /\ ran \in Seq(Nat)
    BY <2>2, <2>3
  <2>6. runs \in 0..MaxRuns /\ Len(ran) <= Count /\ 1..Len(ran) = {} /\ 1..Count = {}
    BY <2>2, <2>3
  <2>7. RunInv
    BY <2>2, <2>4, <2>5, <2>6 DEF RunInv
  <2> QED
    BY <2>1, <2>7 DEF SingleInv
<1>2. SingleInv /\ [SingleNext]_singleVars => SingleInv'
  <2> SUFFICES ASSUME SingleInv, [SingleNext]_singleVars
               PROVE  SingleInv'
    OBVIOUS
  <2>1. CASE SingleNext
    BY <2>1, AddSystemsKeeps, RunKeeps, RunSystemKeeps, RunEndsKeeps DEF SingleNext
  <2>2. CASE UNCHANGED singleVars
    <3>1. UNCHANGED <<builderVars, stepVars>> /\ UNCHANGED <<executor, queue, running, ran, runs>>
          /\ UNCHANGED <<schedule, adding>>
      BY <2>2 DEF singleVars, runVars, builderVars, stepVars
    <3>2. BuilderInv'
      BY <3>1, BuilderNextInv DEF SingleInv
    <3>3. Count' = Count /\ Cnt' = Cnt /\ Gate' = Gate /\ Ready' = Ready
      BY <3>1 DEF Count, Cnt, Dep, Asc, Gate, Ready, Trigs, Members
    <3>4. \A s : Counted(s)' = Counted(s)
      BY <3>1 DEF Counted, Count, Dep, Trigs, Opens
    <3>5. QueueInv => QueueInv'
      BY <3>1, <3>3 DEF QueueInv
    <3>6. RunInv'
      BY <3>1, <3>3, <3>4, <3>5 DEF SingleInv, RunInv
    <3> QED
      BY <3>2, <3>6 DEF SingleInv
  <2> QED
    BY <2>1, <2>2
<1> QED
  BY <1>1, <1>2, PTL DEF SingleSpec

-----------------------------------------------------------------------------
(* For any plans and any runs. *)

\* The executor is out exactly while a run is on the stack or after one has
\* unwound, and no gate ever counts more than it waits for.
THEOREM SingleTypeCorrect == SingleSpec => []SingleTypeOK
<1>1. SingleInv => SingleTypeOK
  <2> SUFFICES ASSUME SingleInv
               PROVE  SingleTypeOK
    OBVIOUS
  <2>1. VectorsInv /\ GraphInv /\ DeclaredInv /\ StepsTypeInv /\ RunInv
    BY DEF SingleInv, BuilderInv
  <2>2. BuilderTypeOK
    BY <2>1, BuilderInvTypeOK
  <2>3. Count \in Nat /\ Keys = 1..Count
    BY <2>1, KeysFacts
  <2>4. ran \in Seq(Keys)
    <3>1. /\ ran \in Seq(Nat) /\ Len(ran) \in Nat /\ Len(ran) <= Count
          /\ \A i \in 1..Len(ran) : ran[i] = i
      BY <2>1 DEF RunInv
    <3>2. \A i \in 1..Len(ran) : i \in 1..Count
      BY <2>3, <3>1
    <3>3. PICK q \in Seq(Nat) : q = ran
      BY <3>1
    <3>4. q \in [1..Len(q) -> Nat] /\ \A i \in 1..Len(q) : q[i] \in Keys
      BY <2>3, <3>1, <3>2, <3>3
    <3>5. q \in [1..Len(q) -> Keys]
      BY <3>4
    <3>6. q \in Seq(Keys)
      BY <3>1, <3>3, <3>5, FunctionIsSeq
    <3> QED
      BY <3>3, <3>6
  <2>5. queue \in Seq(Keys)
    <3>1. queue \in Seq(Nat) /\ (running => Range(queue) = Ready) /\ (~running => queue = <<>>)
      BY <2>1 DEF RunInv, QueueInv
    <3>2. Len(ran) \in Nat
      BY <2>1 DEF RunInv
    <3>3. Ready \subseteq Keys
      BY <2>3, <3>2 DEF Ready
    <3>4. CASE running
      <4>1. PICK q \in Seq(Nat) : q = queue
        BY <3>1
      <4>2. Len(q) \in Nat /\ q \in [1..Len(q) -> Nat] /\ Range(q) = {q[i] : i \in 1..Len(q)}
        BY RangeFacts
      <4>3. q \in [1..Len(q) -> Keys]
        BY <3>1, <3>3, <3>4, <4>1, <4>2
      <4>4. q \in Seq(Keys)
        BY <4>2, <4>3, FunctionIsSeq
      <4> QED
        BY <4>1, <4>4
    <3>5. CASE ~running
      BY <3>1, <3>5
    <3> QED
      BY <3>4, <3>5
  <2> QED
    BY <2>1, <2>2, <2>3, <2>4, <2>5 DEF SingleTypeOK, RunInv, Gate, Cnt
<1> QED
  BY <1>1, SingleInvariant, PTL

\* Whatever was added, and however often runs unwound before, the systems run
\* in the order they were written.
THEOREM SystemsRunInKeyOrder == SingleSpec => []RunsInKeyOrder
<1>1. SingleInv => RunsInKeyOrder
  <2> SUFFICES ASSUME SingleInv
               PROVE  RunsInKeyOrder
    OBVIOUS
  <2>1. ran \in Seq(Nat) /\ \A i \in 1..Len(ran) : ran[i] = i
    BY DEF SingleInv, RunInv
  <2>2. PICK q \in Seq(Nat) : q = ran
    BY <2>1
  <2>3. q = [i \in 1..Len(q) |-> q[i]]
    OBVIOUS
  <2>4. ran = [i \in 1..Len(ran) |-> ran[i]]
    BY <2>2, <2>3
  <2> QED
    BY <2>1, <2>4 DEF RunsInKeyOrder
<1> QED
  BY <1>1, SingleInvariant, PTL

\* Whatever was added, no system runs twice in a run, or before one that is
\* declared to run before it.
THEOREM SystemsRunAsDeclared == SingleSpec => RunsDeclaredOrder
<1>1. SingleInv /\ SingleInv' =>
        [\A s \in Keys : ran' = Append(ran, s) =>
            /\ s \notin ToSet(ran)
            /\ \A a \in Keys : <<a, s>> \in declared => a \in ToSet(ran)]_singleVars
  <2> SUFFICES ASSUME SingleInv, SingleInv', NEW s \in Keys, ran' = Append(ran, s)
               PROVE  /\ s \notin ToSet(ran)
                      /\ \A a \in Keys : <<a, s>> \in declared => a \in ToSet(ran)
    OBVIOUS
  <2>1. VectorsInv /\ DeclaredInv /\ RunInv /\ RunInv'
    BY DEF SingleInv, BuilderInv
  <2>2. Count \in Nat /\ Keys = 1..Count
    BY <2>1, KeysFacts
  <2>3. PICK q \in Seq(Nat) : q = ran
    BY <2>1 DEF RunInv
  <2>4. Len(q) \in Nat /\ \A i \in 1..Len(q) : q[i] = i
    BY <2>1, <2>3 DEF RunInv
  <2>5. s = Len(q) + 1
    <3>1. Len(Append(q, s)) = Len(q) + 1 /\ Append(q, s)[Len(q) + 1] = s
      BY <2>2, AppendFacts
    <3>2. \A i \in 1..Len(Append(q, s)) : Append(q, s)[i] = i
      BY <2>1, <2>3 DEF RunInv
    <3>3. Len(q) + 1 \in 1..Len(Append(q, s))
      BY <2>4, <3>1
    <3> QED
      BY <3>1, <3>2, <3>3
  <2>6. ToSet(q) = 1..Len(q)
    BY <2>4 DEF ToSet
  <2>7. s \notin ToSet(q)
    BY <2>4, <2>5, <2>6
  <2>8. ASSUME NEW a \in Keys, <<a, s>> \in declared
        PROVE  a \in ToSet(q)
    <3>1. a \in 1..Count /\ a < s
      BY <2>1, <2>2, <2>8 DEF DeclaredInv
    <3> QED
      BY <2>2, <2>4, <2>5, <2>6, <3>1
  <2> QED
    BY <2>3, <2>7, <2>8
<1> QED
  BY <1>1, SingleInvariant, PTL DEF RunsDeclaredOrder

\* A run that has nothing left on its stack has run every system.
THEOREM RunsAreComplete == SingleSpec => []RunIsComplete
<1>1. SingleInv => RunIsComplete
  <2> SUFFICES ASSUME SingleInv, running, queue = <<>>
               PROVE  ToSet(ran) = Keys
    BY DEF RunIsComplete
  <2>1. VectorsInv /\ GraphInv /\ RunInv
    BY DEF SingleInv, BuilderInv
  <2>2. PICK k : k = Len(ran) + 1
    OBVIOUS
  <2>3. Len(ran) = Count
    BY <2>1, <2>2, StackTop
  <2>4. Keys = 1..Count
    BY <2>1, KeysFacts
  <2>5. ran \in Seq(Nat) /\ \A i \in 1..Len(ran) : ran[i] = i
    BY <2>1 DEF RunInv
  <2>6. DOMAIN ran = 1..Count
    BY <2>3, <2>5
  <2> QED
    BY <2>3, <2>4, <2>5, <2>6 DEF ToSet
<1> QED
  BY <1>1, SingleInvariant, PTL

\* As long as there is an executor for the next run, every gate is closed.
THEOREM GatesAreClosed == SingleSpec => []GatesClosedBetweenRuns
<1>1. SingleInv => GatesClosedBetweenRuns
  <2> SUFFICES ASSUME SingleInv
               PROVE  GatesClosedBetweenRuns
    OBVIOUS
  <2>1. VectorsInv /\ RunInv
    BY DEF SingleInv, BuilderInv
  <2>2. Keys = 1..Count
    BY <2>1, KeysFacts
  <2> QED
    BY <2>1, <2>2 DEF RunInv, GatesClosedBetweenRuns, Gate
<1> QED
  BY <1>1, SingleInvariant, PTL

\* Runs, whether they return or unwind, leave the graph as the plans made it.
THEOREM RunsKeepTheGraph == SingleSpec => [](WellFormed /\ OrderExact)
<1>1. SingleInv => WellFormed /\ OrderExact
  BY BuilderInvWellFormed, BuilderInvOrderExact DEF SingleInv, BuilderInv
<1> QED
  BY <1>1, SingleInvariant, PTL
=============================================================================
