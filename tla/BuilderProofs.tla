------------------------------ MODULE BuilderProofs ------------------------------
(***************************************************************************)
(* Proofs about BuilderSteps, for any number of systems, calls and levels, *)
(* and so for every plan: the graph is one the executors can run, and it   *)
(* orders exactly what the plans do.                                       *)
(***************************************************************************)
EXTENDS BuilderSteps, FiniteSetTheorems, WellFoundedInduction, TLAPS

-----------------------------------------------------------------------------
(* The graph.  Everything points from smaller keys to larger ones, and the *)
(* last system that opens the gate of a trigger is the one before it.      *)

Cnt == schedule.dependency_count
Dep == schedule.dependents
Asc == schedule.associates

\* The triggers, the batch of each, and what opens its gate.
Trigs == {t \in 1..Count : t = 1 \/ \E s \in 1..Count : t \in Range(Dep[s])}
Members(t) == {t} \cup Range(Asc[t])
Opens(t) == {p \in 1..Count : t \in Range(Dep[p])}

Schedules == [dependency_count : Seq(Nat), dependency_gate : Seq(Nat),
              dependents : Seq(Seq(Nat)), associates : Seq(Seq(Nat)), root : Nat]

\* The vectors grow together.
VectorsInv ==
    /\ schedule \in Schedules
    /\ Len(schedule.dependency_gate) = Count /\ Len(Dep) = Count /\ Len(Asc) = Count
    /\ schedule.root = (IF Count = 0 THEN None ELSE 1)

\* Edges point upwards, one dependent each; associates lie in key order.
EdgesInv ==
    /\ \A s \in 1..Count : Len(Dep[s]) <= 1 /\ Range(Dep[s]) \subseteq s + 1 .. Count
    /\ \A s \in 1..Count : Range(Asc[s]) \subseteq s + 1 .. Count
    /\ \A s \in 1..Count : \A i, j \in 1..Len(Asc[s]) : i < j => Asc[s][i] < Asc[s][j]

\* Batches partition the systems.
BatchInv ==
    /\ \A s \in 1..Count : \E t \in Trigs : s \in Members(t)
    /\ \A t, u \in Trigs : \A s \in Members(t) : s \in Members(u) => t = u

\* What opens a gate, and how the batches of triggers nest: a batch that goes
\* on after a later trigger does so after the whole batch of that trigger.
GateInv ==
    \A t \in Trigs \ {1} : t - 1 \in Opens(t) /\ Cnt[t] = Cardinality(Opens(t))

\* No batch with an earlier trigger goes on after t.
Outermost(t) == \A u \in Trigs : u < t => \A y \in Range(Asc[u]) : y < t

NestedInv ==
    \A u, t \in Trigs : u < t =>
       \A y \in Range(Asc[u]) : y > t => \A z \in Range(Asc[t]) : z < y

GraphInv == EdgesInv /\ BatchInv /\ GateInv /\ NestedInv

-----------------------------------------------------------------------------
(* The declared order. *)

DeclaredBefore(s) == {a \in 1..Count : <<a, s>> \in declared}

\* The systems of a rank and all that is declared before them.
Cover(rank) == rank \cup UNION {DeclaredBefore(p) : p \in rank}

\* All of a batch comes after the systems that open its gate, what comes
\* before those, and nothing else.
DeclaredInv ==
    /\ declared \subseteq {p \in (1..Count) \X (1..Count) : p[1] < p[2]}
    /\ \A t \in Trigs : \A s \in Members(t) : DeclaredBefore(s) = Cover(Opens(t))

-----------------------------------------------------------------------------
(* The call in progress.  A level is a frame, or, for the innermost, what  *)
(* BeginSequence would make a frame of now.                                *)

Frame == [last : Seq(Nat), current : Seq(Nat), old : Nat, earlier : SUBSET Nat,
          start : Nat, base : Nat]
Here == [last |-> last, current |-> current, old |-> trigger, earlier |-> earlier,
         start |-> start, base |-> Count]
Levels == Append(frames, Here)

StepsTypeInv ==
    /\ calls \in 0..MaxCalls
    /\ adding \in BOOLEAN
    /\ last \in Seq(Nat) /\ current \in Seq(Nat) /\ trigger \in Nat
    /\ earlier \in SUBSET Nat /\ start \in Nat
    /\ frames \in Seq(Frame)

\* A rank whose systems nothing waits for yet.
Open(rank) == \A i \in 1..Len(rank) : rank[i] \in 1..Count /\ Dep[rank[i]] = <<>>

\* What a level has read of its item, and what it orders that after.
LevelInv(f) ==
    /\ f.old \in Trigs \cup {None}
    /\ f.start <= f.base /\ f.base <= Count
    /\ f.start < f.base => f.old # None
    /\ f.old # None => DeclaredBefore(f.old) = f.earlier /\ Outermost(f.old)

\* Inside an .order(): the current rank is of this item, and it covers it.
RankInv(f) ==
    /\ Open(f.current) /\ IsInjective(f.current)
    /\ Range(f.current) \subseteq f.start + 1 .. f.base
    /\ f.start < f.base =>
          /\ f.base \in Range(f.current)
          /\ Cover(Range(f.current)) = f.earlier \cup (f.start + 1 .. f.base)

\* The level g is an item of the .order() that f was reading.
InsideInv(f, g) ==
    /\ g.earlier = f.earlier \cup (f.base + 1 .. g.start)
    /\ f.old = None => g.start = f.base

\* What the next trigger will wait for.
LastInv ==
    trigger = None =>
       /\ Open(last) /\ IsInjective(last)
       /\ IF Count = 0 THEN last = <<>> ELSE Count \in Range(last)
       /\ Cover(Range(last)) = earlier
       /\ \A i \in 2..Len(frames) : Range(frames[i].current) \cap Range(last) = {}

CallInv ==
    /\ \A i \in 1..Len(Levels) : LevelInv(Levels[i])
    /\ \A i \in 2..Len(Levels) : RankInv(Levels[i])
    /\ \A i \in 1..Len(frames) : InsideInv(Levels[i], Levels[i + 1])
    /\ \A i, j \in 1..Len(Levels) : i < j =>
          /\ Levels[i].base <= Levels[j].start
          /\ Levels[j].old # None => Levels[i].old <= Levels[j].old
    /\ LastInv

BuilderInv ==
    /\ VectorsInv /\ GraphInv /\ DeclaredInv /\ StepsTypeInv
    /\ IF adding THEN CallInv ELSE frames = <<>>

-----------------------------------------------------------------------------
(* Sequences. *)

LEMMA FunctionIsSeq ==
    ASSUME NEW S, NEW n \in Nat, NEW f \in [1..n -> S]
    PROVE  f \in Seq(S) /\ Len(f) = n
OBVIOUS

LEMMA AppendFacts ==
    ASSUME NEW S, NEW s \in Seq(S), NEW e \in S
    PROVE  /\ Append(s, e) \in Seq(S)
           /\ Len(Append(s, e)) = Len(s) + 1
           /\ \A i \in 1..Len(s) : Append(s, e)[i] = s[i]
           /\ Append(s, e)[Len(s) + 1] = e
OBVIOUS

LEMMA RangeFacts ==
    ASSUME NEW S, NEW s \in Seq(S)
    PROVE  /\ Range(s) \subseteq S
           /\ Range(s) = {s[i] : i \in 1..Len(s)}
           /\ s = <<>> <=> Range(s) = {}
<1>1. DOMAIN s = 1..Len(s) /\ Len(s) \in Nat /\ \A i \in 1..Len(s) : s[i] \in S
  OBVIOUS
<1>2. Range(s) = {s[i] : i \in 1..Len(s)}
  BY <1>1 DEF Range
<1>3. s = <<>> <=> Len(s) = 0
  OBVIOUS
<1>4. Len(s) # 0 => 1 \in 1..Len(s)
  BY <1>1
<1> QED
  BY <1>1, <1>2, <1>3, <1>4

LEMMA RangeAppend ==
    ASSUME NEW S, NEW s \in Seq(S), NEW e \in S
    PROVE  Range(Append(s, e)) = Range(s) \cup {e}
<1>1. Append(s, e) \in Seq(S) /\ Len(Append(s, e)) = Len(s) + 1
  OBVIOUS
<1>2. \A i \in 1..Len(s) : Append(s, e)[i] = s[i]
  OBVIOUS
<1>3. Append(s, e)[Len(s) + 1] = e
  OBVIOUS
<1>4. Range(Append(s, e)) = {Append(s, e)[i] : i \in 1..Len(Append(s, e))}
  BY <1>1 DEF Range
<1>5. Range(s) = {s[i] : i \in 1..Len(s)}
  BY RangeFacts
<1>6. 1..Len(s) + 1 = 1..Len(s) \cup {Len(s) + 1}
  OBVIOUS
<1> QED
  BY <1>1, <1>2, <1>3, <1>4, <1>5, <1>6

\* A new key is pushed into the edges of some nodes, and gets none itself.
Pushed(edges, nodes, key) ==
    Append([n \in DOMAIN edges |-> IF n \in nodes THEN Append(edges[n], key) ELSE edges[n]], <<>>)

LEMMA PushFacts ==
    ASSUME NEW edges \in Seq(Seq(Nat)), NEW nodes, NEW key \in Nat
    PROVE  /\ Pushed(edges, nodes, key) \in Seq(Seq(Nat))
           /\ Len(Pushed(edges, nodes, key)) = Len(edges) + 1
           /\ \A s \in 1..Len(edges) :
                 /\ s \in nodes => Pushed(edges, nodes, key)[s] = Append(edges[s], key)
                 /\ s \notin nodes => Pushed(edges, nodes, key)[s] = edges[s]
           /\ Pushed(edges, nodes, key)[Len(edges) + 1] = <<>>
<1> DEFINE push == [n \in DOMAIN edges |->
                      IF n \in nodes THEN Append(edges[n], key) ELSE edges[n]]
<1>1. \A n \in 1..Len(edges) : edges[n] \in Seq(Nat) /\ Append(edges[n], key) \in Seq(Nat)
  OBVIOUS
<1>a. DOMAIN edges = 1..Len(edges) /\ Len(edges) \in Nat
  OBVIOUS
<1>2. push \in [1..Len(edges) -> Seq(Nat)] /\ Len(push) = Len(edges)
  BY <1>1, <1>a
<1>3. \A n \in 1..Len(edges) :
         push[n] = IF n \in nodes THEN Append(edges[n], key) ELSE edges[n]
  OBVIOUS
<1>4. <<>> \in Seq(Nat)
  OBVIOUS
<1> HIDE DEF push
<1>5. Pushed(edges, nodes, key) = Append(push, <<>>)
  BY DEF push, Pushed
<1>6. push \in Seq(Seq(Nat))
  BY <1>2, <1>a, FunctionIsSeq
<1> QED
  BY <1>2, <1>6, <1>3, <1>4, <1>5, AppendFacts

-----------------------------------------------------------------------------
(* The levels of the call in progress. *)

LEMMA LevelsFacts ==
    ASSUME StepsTypeInv, VectorsInv
    PROVE  /\ Count \in Nat
           /\ Here \in Frame
           /\ Levels \in Seq(Frame) /\ frames \in Seq(Frame) /\ Len(frames) \in Nat
           /\ Len(Levels) = Len(frames) + 1
           /\ Levels[Len(frames) + 1] = Here
           /\ \A i \in 1..Len(frames) : Levels[i] = frames[i] /\ frames[i] \in Frame
<1>1. Count \in Nat
  BY DEF VectorsInv, Schedules, Count
<1>2. Here \in Frame
  BY <1>1 DEF StepsTypeInv, Here, Frame
<1>3. frames \in Seq(Frame) /\ Len(frames) \in Nat
  BY DEF StepsTypeInv
<1> HIDE DEF Here
<1>4. /\ Levels \in Seq(Frame)
      /\ Len(Levels) = Len(frames) + 1
      /\ Levels[Len(frames) + 1] = Here
      /\ \A i \in 1..Len(frames) : Levels[i] = frames[i]
  BY <1>2, <1>3, AppendFacts DEF Levels
<1>5. \A i \in 1..Len(frames) : frames[i] \in Frame
  BY <1>3
<1> QED
  BY <1>1, <1>2, <1>3, <1>4, <1>5

\* Everything before what is read now is there already.
LEMMA HereFacts ==
    ASSUME StepsTypeInv, VectorsInv, CallInv
    PROVE  /\ trigger \in Trigs \cup {None}
           /\ trigger # None => DeclaredBefore(trigger) = earlier /\ Outermost(trigger)
           /\ start <= Count
           /\ start < Count => trigger # None
           /\ Len(frames) > 0 => RankInv(Here)
           /\ earlier \subseteq 1..Count
           /\ trigger = None => Range(last) \subseteq 1..Count
           /\ trigger = None => (Count = 0 <=> Range(last) = {})
<1>1. LevelInv(Here) /\ (Len(frames) > 0 => RankInv(Here))
  BY LevelsFacts DEF CallInv
<1>2. /\ trigger \in Trigs \cup {None}
      /\ trigger # None => DeclaredBefore(trigger) = earlier /\ Outermost(trigger)
      /\ start <= Count
      /\ start < Count => trigger # None
  BY <1>1 DEF LevelInv, Here
<1>3. ASSUME trigger = None
      PROVE  /\ Range(last) \subseteq 1..Count /\ Cover(Range(last)) = earlier
             /\ Count = 0 <=> Range(last) = {}
  <2>1. last \in Seq(Nat) /\ LastInv
    BY DEF StepsTypeInv, CallInv
  <2>2. Range(last) = {last[i] : i \in 1..Len(last)} /\ (last = <<>> <=> Range(last) = {})
    BY <2>1, RangeFacts
  <2>3. Open(last) /\ Cover(Range(last)) = earlier
        /\ IF Count = 0 THEN last = <<>> ELSE Count \in Range(last)
    BY <1>3, <2>1 DEF LastInv
  <2> QED
    BY <2>2, <2>3 DEF Open
<1>4. \A s : DeclaredBefore(s) \subseteq 1..Count
  BY DEF DeclaredBefore
<1>5. earlier \subseteq 1..Count
  BY <1>2, <1>3, <1>4 DEF Cover
<1> QED
  BY <1>1, <1>2, <1>3, <1>5, Zenon

-----------------------------------------------------------------------------
(* What ReadSystem does to the graph. *)

\* The edges and the gate of each system afterwards.
ReadEdges ==
    /\ Count \in Nat /\ Count' = Count + 1
    /\ \A s \in 1..Count :
          /\ Cnt'[s] = Cnt[s]
          /\ schedule.dependency_gate'[s] = schedule.dependency_gate[s]
          /\ Range(Dep[s])' = IF trigger = None /\ s \in Range(last)
                              THEN Range(Dep[s]) \cup {Count + 1} ELSE Range(Dep[s])
          /\ Dep'[s] = IF trigger = None /\ s \in Range(last)
                       THEN Append(Dep[s], Count + 1) ELSE Dep[s]
          /\ Range(Asc[s])' = IF s = trigger THEN Range(Asc[s]) \cup {Count + 1} ELSE Range(Asc[s])
          /\ Asc'[s] = IF s = trigger THEN Append(Asc[s], Count + 1) ELSE Asc[s]
    /\ Cnt'[Count + 1] = Len(last)
    /\ schedule.dependency_gate'[Count + 1] = 0
    /\ Dep'[Count + 1] = <<>> /\ Asc'[Count + 1] = <<>>
    /\ current' = Append(current, Count + 1)
    /\ trigger' = IF trigger = None THEN Count + 1 ELSE trigger
    /\ declared' = declared \cup (earlier \X {Count + 1})

LEMMA ReadFacts ==
    ASSUME VectorsInv, StepsTypeInv, CallInv, ReadSystem
    PROVE  VectorsInv' /\ ReadEdges
<1> DEFINE key == Count + 1
<1> DEFINE Push(edges, nodes) == [n \in DOMAIN edges |->
                                    IF n \in nodes THEN Append(edges[n], key) ELSE edges[n]]
<1> DEFINE deps == Append(IF trigger = None THEN Push(Dep, Range(last)) ELSE Dep, <<>>)
<1> DEFINE ascs == Append(IF trigger = None THEN Asc ELSE Push(Asc, {trigger}), <<>>)
<1> DEFINE grown == [schedule EXCEPT
        !.dependency_count = Append(@, Len(last)),
        !.dependency_gate  = Append(@, 0),
        !.root       = IF trigger = None /\ @ = None THEN key ELSE @,
        !.associates = ascs,
        !.dependents = deps]
<1>1. /\ schedule' = grown
      /\ current' = Append(current, key)
      /\ trigger' = IF trigger = None THEN key ELSE trigger
      /\ declared' = declared \cup (earlier \X {key})
  BY DEF ReadSystem, RegisterSystem, Count, Cnt, Dep, Asc
<1>2. /\ schedule \in Schedules /\ Count = Len(Cnt)
      /\ Cnt \in Seq(Nat) /\ schedule.dependency_gate \in Seq(Nat)
      /\ Dep \in Seq(Seq(Nat)) /\ Asc \in Seq(Seq(Nat)) /\ schedule.root \in Nat
  BY DEF VectorsInv, Schedules, Cnt, Dep, Asc, Count
<1>3. /\ Len(schedule.dependency_gate) = Count /\ Len(Dep) = Count /\ Len(Asc) = Count
      /\ schedule.root = (IF Count = 0 THEN None ELSE 1)
  BY DEF VectorsInv
<1> HIDE DEF deps, ascs
<1>4. /\ grown.dependency_count = Append(Cnt, Len(last))
      /\ grown.dependency_gate = Append(schedule.dependency_gate, 0)
      /\ grown.root = (IF trigger = None /\ schedule.root = None THEN key ELSE schedule.root)
      /\ grown.associates = ascs
      /\ grown.dependents = deps
  BY <1>2 DEF Schedules, Cnt
<1> HIDE DEF grown
<1>5. /\ Cnt' = Append(Cnt, Len(last))
      /\ schedule.dependency_gate' = Append(schedule.dependency_gate, 0)
      /\ schedule.root' = (IF trigger = None /\ schedule.root = None THEN key ELSE schedule.root)
      /\ Asc' = ascs
      /\ Dep' = deps
  BY <1>1, <1>4 DEF Cnt, Dep, Asc
<1>6. Count \in Nat /\ key \in Nat /\ key = Count + 1 /\ last \in Seq(Nat) /\ Len(last) \in Nat
  BY <1>2 DEF StepsTypeInv
<1>7. /\ Cnt' \in Seq(Nat) /\ Len(Cnt') = Count + 1
      /\ \A s \in 1..Count : Cnt'[s] = Cnt[s]
      /\ Cnt'[Count + 1] = Len(last)
  BY <1>2, <1>5, <1>6, AppendFacts
<1>8. /\ schedule.dependency_gate' \in Seq(Nat) /\ Len(schedule.dependency_gate') = Count + 1
      /\ \A s \in 1..Count : schedule.dependency_gate'[s] = schedule.dependency_gate[s]
      /\ schedule.dependency_gate'[Count + 1] = 0
  BY <1>2, <1>3, <1>5, AppendFacts
<1>9. <<>> \in Seq(Nat)
  OBVIOUS
<1>10. /\ Dep' \in Seq(Seq(Nat)) /\ Len(Dep') = Count + 1
       /\ \A s \in 1..Count : Dep'[s] = IF trigger = None /\ s \in Range(last)
                                        THEN Append(Dep[s], key) ELSE Dep[s]
       /\ Dep'[Count + 1] = <<>>
  <2>1. CASE trigger = None
    <3>1. Dep' = Pushed(Dep, Range(last), key)
      BY <1>5, <2>1 DEF deps, Pushed
    <3> HIDE DEF key
    <3>2. Dep \in Seq(Seq(Nat)) /\ key \in Nat
      BY <1>2, <1>6
    <3> DEFINE new == Pushed(Dep, Range(last), key)
    <3>3. /\ new \in Seq(Seq(Nat))
          /\ Len(new) = Len(Dep) + 1
          /\ \A s \in 1..Len(Dep) :
                /\ s \in Range(last) => new[s] = Append(Dep[s], key)
                /\ s \notin Range(last) => new[s] = Dep[s]
          /\ new[Len(Dep) + 1] = <<>>
      BY <3>2, PushFacts
    <3> HIDE DEF new
    <3>4. Dep' = new
      BY <3>1 DEF new
    <3> QED
      BY <1>3, <2>1, <3>3, <3>4
  <2>2. CASE trigger # None
    <3>1. Dep' = Append(Dep, <<>>)
      BY <1>5, <2>2 DEF deps
    <3> HIDE DEF key
    <3> QED
      BY <1>2, <1>3, <1>9, <2>2, <3>1, AppendFacts
  <2> QED
    BY <2>1, <2>2
<1>11. /\ Asc' \in Seq(Seq(Nat)) /\ Len(Asc') = Count + 1
       /\ \A s \in 1..Count : Asc'[s] = IF s = trigger THEN Append(Asc[s], key) ELSE Asc[s]
       /\ Asc'[Count + 1] = <<>>
  <2>1. CASE trigger # None
    <3>1. Asc' = Pushed(Asc, {trigger}, key)
      BY <1>5, <2>1 DEF ascs, Pushed
    <3> HIDE DEF key
    <3>2. Asc \in Seq(Seq(Nat)) /\ key \in Nat
      BY <1>2, <1>6
    <3> DEFINE new == Pushed(Asc, {trigger}, key)
    <3>3. /\ new \in Seq(Seq(Nat))
          /\ Len(new) = Len(Asc) + 1
          /\ \A s \in 1..Len(Asc) :
                /\ s \in {trigger} => new[s] = Append(Asc[s], key)
                /\ s \notin {trigger} => new[s] = Asc[s]
          /\ new[Len(Asc) + 1] = <<>>
      BY <3>2, PushFacts
    <3> HIDE DEF new
    <3>4. Asc' = new
      BY <3>1 DEF new
    <3> QED
      BY <1>3, <2>1, <3>3, <3>4
  <2>2. CASE trigger = None
    <3>1. Asc' = Append(Asc, <<>>)
      BY <1>5, <2>2 DEF ascs
    <3>2. \A s \in 1..Count : s # trigger
      BY <1>6, <2>2 DEF None
    <3> HIDE DEF key
    <3> QED
      BY <1>2, <1>3, <1>9, <3>1, <3>2, AppendFacts
  <2> QED
    BY <2>1, <2>2
<1>12. Count' = Count + 1
  BY <1>7 DEF Count, Cnt
<1>13. \A s \in 1..Count : Dep[s] \in Seq(Nat) /\ Asc[s] \in Seq(Nat)
  BY <1>2, <1>3
<1>14. schedule.root' = (IF Count' = 0 THEN None ELSE 1) /\ schedule.root' \in Nat
  <2>1. Count = 0 => trigger = None
    <3>1. trigger \in Trigs \cup {None} /\ Trigs \subseteq 1..Count
      BY HereFacts DEF Trigs
    <3> QED
      BY <3>1
  <2> QED
    BY <1>3, <1>5, <1>6, <1>12, <2>1 DEF None
<1>15. schedule' \in Schedules
  <2>1. schedule' = [dependency_count |-> Cnt', dependency_gate |-> schedule.dependency_gate',
                     dependents |-> Dep', associates |-> Asc', root |-> schedule.root']
    BY <1>1, <1>2 DEF grown, Schedules, Cnt, Dep, Asc
  <2> QED
    BY <1>7, <1>8, <1>10, <1>11, <1>14, <2>1 DEF Schedules
<1>16. VectorsInv'
  BY <1>7, <1>8, <1>10, <1>11, <1>12, <1>14, <1>15 DEF VectorsInv
<1>17. \A s \in 1..Count :
          /\ Range(Dep[s])' = IF trigger = None /\ s \in Range(last)
                              THEN Range(Dep[s]) \cup {key} ELSE Range(Dep[s])
          /\ Range(Asc[s])' = IF s = trigger THEN Range(Asc[s]) \cup {key} ELSE Range(Asc[s])
  <2> HIDE DEF key
  <2>1. \A s \in 1..Count :
           /\ Range(Append(Dep[s], key)) = Range(Dep[s]) \cup {key}
           /\ Range(Append(Asc[s], key)) = Range(Asc[s]) \cup {key}
    <3> SUFFICES ASSUME NEW s \in 1..Count
                 PROVE  /\ Range(Append(Dep[s], key)) = Range(Dep[s]) \cup {key}
                        /\ Range(Append(Asc[s], key)) = Range(Asc[s]) \cup {key}
      OBVIOUS
    <3>1. Dep[s] \in Seq(Nat) /\ Asc[s] \in Seq(Nat) /\ key \in Nat
      BY <1>6, <1>13
    <3>2. Range(Append(Dep[s], key)) = Range(Dep[s]) \cup {key}
      BY <3>1, RangeAppend
    <3> QED
      BY <3>1, <3>2, RangeAppend
  <2> QED
    BY <1>10, <1>11, <2>1
<1> QED
  BY <1>1, <1>6, <1>7, <1>8, <1>10, <1>11, <1>12, <1>16, <1>17 DEF ReadEdges

-----------------------------------------------------------------------------
(* What a new system changes of the batches, gates and declarations. *)

ReadGraph(k) ==
    /\ k \in Nat /\ k = Count + 1 /\ Count \in Nat /\ Count' = k
    /\ Trigs' = IF trigger = None THEN Trigs \cup {k} ELSE Trigs
    /\ \A t \in 1..Count :
          /\ Opens(t)' = Opens(t)
          /\ Members(t)' = IF t = trigger THEN Members(t) \cup {k} ELSE Members(t)
          /\ DeclaredBefore(t)' = DeclaredBefore(t)
    /\ Opens(k)' = IF trigger = None THEN Range(last) ELSE {}
    /\ Members(k)' = {k}
    /\ DeclaredBefore(k)' = earlier

LEMMA ReadGraphFacts ==
    ASSUME BuilderInv, ReadSystem, NEW k, k = Count + 1
    PROVE  ReadGraph(k)
<1>1. VectorsInv /\ StepsTypeInv /\ CallInv /\ GraphInv /\ DeclaredInv
  BY DEF BuilderInv, ReadSystem
<1>2. ReadEdges
  BY <1>1, ReadFacts
<1>3. Count \in Nat /\ Count' = k /\ k \in Nat
  BY <1>2 DEF ReadEdges
<1>4. /\ trigger \in Trigs \cup {None} /\ earlier \subseteq 1..Count
      /\ trigger = None => Range(last) \subseteq 1..Count
      /\ trigger = None => (Count = 0 <=> Range(last) = {})
  BY <1>1, HereFacts
<1>5. \A s \in 1..Count : Range(Dep[s]) \subseteq 1..Count /\ Range(Asc[s]) \subseteq 1..Count
  <2>1. \A s \in 1..Count : Range(Dep[s]) \subseteq s + 1 .. Count /\ Range(Asc[s]) \subseteq s + 1 .. Count
    BY <1>1 DEF GraphInv, EdgesInv
  <2>2. \A s \in 1..Count : s + 1 .. Count \subseteq 1..Count
    BY <1>3
  <2> QED
    BY <2>1, <2>2
<1>6. /\ \A s \in 1..Count :
          /\ Range(Dep[s])' = IF trigger = None /\ s \in Range(last)
                              THEN Range(Dep[s]) \cup {k} ELSE Range(Dep[s])
          /\ Range(Asc[s])' = IF s = trigger THEN Range(Asc[s]) \cup {k} ELSE Range(Asc[s])
      /\ Range(Dep[k])' = {} /\ Range(Asc[k])' = {}
  <2>1. Range(<<>>) = {}
    BY DEF Range
  <2>2. Dep'[k] = <<>> /\ Asc'[k] = <<>>
    BY <1>2 DEF ReadEdges
  <2> QED
    BY <1>2, <2>1, <2>2 DEF ReadEdges
<1>7. 1..k = (1..Count) \cup {k} /\ k \notin 1..Count /\ k # None /\ 1 \in 1..k
  BY <1>3 DEF None
<1>8. \A t, p : p \in Opens(t)' <=> p \in 1..k /\ t \in Range(Dep[p])'
  BY <1>3 DEF Opens
<1>9. \A t, p : p \in Opens(t) <=> p \in 1..Count /\ t \in Range(Dep[p])
  BY DEF Opens
<1>10. ASSUME NEW t \in 1..Count
       PROVE  Opens(t)' = Opens(t)
  <2>1. t # k
    BY <1>7, <1>10
  <2>2. \A p \in 1..Count : t \in Range(Dep[p])' <=> t \in Range(Dep[p])
    BY <1>6, <2>1
  <2>3. t \notin Range(Dep[k])'
    BY <1>6
  <2>4. \A p : p \in Opens(t)' <=> p \in Opens(t)
    BY <1>7, <1>8, <1>9, <2>2, <2>3
  <2> QED
    BY <2>4
<1>11. Opens(k)' = IF trigger = None THEN Range(last) ELSE {}
  <2>1. \A p : p \in Opens(k)' <=> trigger = None /\ p \in Range(last)
    BY <1>4, <1>5, <1>6, <1>7, <1>8
  <2> QED
    BY <2>1
<1>12. \A t : t \in Trigs' <=> t \in 1..k /\ (t = 1 \/ Opens(t)' # {})
  <2>1. \A t : t \in Trigs' <=> t \in 1..k /\ (t = 1 \/ \E s \in 1..k : t \in Range(Dep[s])')
    BY <1>3 DEF Trigs
  <2> QED
    BY <2>1, <1>8
<1>13. \A t : t \in Trigs <=> t \in 1..Count /\ (t = 1 \/ Opens(t) # {})
  BY <1>9 DEF Trigs
<1>14. (k = 1 \/ (trigger = None /\ Range(last) # {})) <=> trigger = None
  BY <1>3, <1>4, <1>13 DEF None
<1>15. Trigs' = IF trigger = None THEN Trigs \cup {k} ELSE Trigs
  <2>1. \A t : t \in Trigs' <=> t \in Trigs \/ (trigger = None /\ t = k)
    BY <1>7, <1>10, <1>11, <1>12, <1>13, <1>14
  <2> QED
    BY <2>1
<1>16. \A t \in 1..Count : Members(t)' = IF t = trigger THEN Members(t) \cup {k} ELSE Members(t)
  BY <1>6 DEF Members
<1>17. Members(k)' = {k}
  BY <1>6 DEF Members
<1>18. /\ \A t \in 1..Count : DeclaredBefore(t)' = DeclaredBefore(t)
       /\ DeclaredBefore(k)' = earlier
  <2>1. declared' = declared \cup (earlier \X {k})
    BY <1>2 DEF ReadEdges
  <2>2. \A a, t : <<a, t>> \in declared' <=> <<a, t>> \in declared \/ (a \in earlier /\ t = k)
    BY <2>1
  <2>3. \A a, t : <<a, t>> \in declared => a \in 1..Count /\ t \in 1..Count
    BY <1>1 DEF DeclaredInv
  <2>4. \A a, t : a \in DeclaredBefore(t)' <=> a \in 1..k /\ <<a, t>> \in declared'
    BY <1>3 DEF DeclaredBefore
  <2>5. \A a, t : a \in DeclaredBefore(t) <=> a \in 1..Count /\ <<a, t>> \in declared
    BY DEF DeclaredBefore
  <2>6. \A a : a \in DeclaredBefore(k)' <=> a \in earlier
    BY <1>4, <1>7, <2>2, <2>3, <2>4
  <2>7. ASSUME NEW t \in 1..Count
        PROVE  \A a : a \in DeclaredBefore(t)' <=> a \in DeclaredBefore(t)
    BY <1>7, <2>2, <2>3, <2>4, <2>5, <2>7
  <2> QED
    BY <2>6, <2>7
<1> QED
  BY <1>3, <1>10, <1>11, <1>15, <1>16, <1>17, <1>18 DEF ReadGraph

\* The size of a rank in which no system is twice.
LEMMA RankSize ==
    ASSUME NEW s \in Seq(Nat), IsInjective(s)
    PROVE  IsFiniteSet(Range(s)) /\ Cardinality(Range(s)) = Len(s)
<1>1. s \in [1..Len(s) -> Nat] /\ Len(s) \in Nat
  OBVIOUS
<1>2. Range(s) = {s[i] : i \in 1..Len(s)}
  BY RangeFacts
<1>3. s \in [1..Len(s) -> Range(s)]
  BY <1>1, <1>2
<1>4. s \in Bijection(1..Len(s), Range(s))
  BY <1>1, <1>2, <1>3 DEF Bijection, Injection, Surjection
<1>5. ExistsBijection(1..Len(s), Range(s))
  BY <1>4 DEF ExistsBijection
<1> QED
  BY <1>1, <1>5, FS_CountingElements, FS_NatBijection

LEMMA ReadKeepsEdges ==
    ASSUME BuilderInv, ReadSystem, NEW k, k = Count + 1
    PROVE  EdgesInv'
<1>1. VectorsInv /\ StepsTypeInv /\ CallInv /\ EdgesInv
  BY DEF BuilderInv, ReadSystem, GraphInv
<1>2. ReadEdges /\ VectorsInv'
  BY <1>1, ReadFacts
<1>3. Count \in Nat /\ Count' = k /\ k \in Nat
  BY <1>2 DEF ReadEdges
<1>4. 1..k = (1..Count) \cup {k} /\ k \notin 1..Count
  BY <1>3
<1>5. ASSUME NEW s \in 1..Count
      PROVE  Dep[s] \in Seq(Nat) /\ Asc[s] \in Seq(Nat)
             /\ Len(Dep[s]) \in Nat /\ Len(Asc[s]) \in Nat
  <2>1. Dep \in Seq(Seq(Nat)) /\ Asc \in Seq(Seq(Nat)) /\ Len(Dep) = Count /\ Len(Asc) = Count
    BY <1>1 DEF VectorsInv, Schedules, Dep, Asc
  <2>2. Dep[s] \in Seq(Nat) /\ Asc[s] \in Seq(Nat)
    BY <2>1
  <2> QED
    BY <2>2
<1>6. \A s \in 1..Count :
          /\ Len(Dep[s]) <= 1 /\ Range(Dep[s]) \subseteq s + 1 .. Count
          /\ Range(Asc[s]) \subseteq s + 1 .. Count
          /\ \A i, j \in 1..Len(Asc[s]) : i < j => Asc[s][i] < Asc[s][j]
  BY <1>1 DEF EdgesInv
<1>a. \A s \in 1..Count : s + 1 .. Count \subseteq s + 1 .. k
  BY <1>3
<1>7. ASSUME NEW s \in 1..Count
      PROVE  Len(Dep'[s]) <= 1 /\ Range(Dep[s])' \subseteq s + 1 .. k
  <2>1. CASE trigger = None /\ s \in Range(last)
    <3>1. Open(last) /\ last \in Seq(Nat)
      BY <1>1, <2>1 DEF CallInv, LastInv, StepsTypeInv
    <3>2. Dep[s] = <<>>
      <4>1. Range(last) = {last[i] : i \in 1..Len(last)}
        BY <3>1, RangeFacts
      <4>2. PICK i \in 1..Len(last) : s = last[i]
        BY <2>1, <4>1
      <4> QED
        BY <3>1, <4>2 DEF Open
    <3>3. Dep'[s] = Append(<<>>, k)
      BY <1>2, <2>1, <3>2 DEF ReadEdges
    <3>4. Len(Dep'[s]) = 1 /\ Range(Dep[s])' = {k}
      BY <1>3, <3>2, <3>3, <1>2, <2>1, RangeFacts DEF ReadEdges, Range
    <3> QED
      BY <1>3, <3>4
  <2>2. CASE ~(trigger = None /\ s \in Range(last))
    <3>1. Dep'[s] = Dep[s] /\ Range(Dep[s])' = Range(Dep[s])
      BY <1>2, <2>2 DEF ReadEdges
    <3> QED
      BY <1>6, <1>a, <3>1
  <2> QED
    BY <2>1, <2>2
<1>8. ASSUME NEW s \in 1..Count
      PROVE  /\ Range(Asc[s])' \subseteq s + 1 .. k
             /\ \A i, j \in 1..Len(Asc'[s]) : i < j => Asc'[s][i] < Asc'[s][j]
  <2>1. CASE s = trigger
    <3>1. /\ Asc'[s] = Append(Asc[s], k)
          /\ Range(Asc[s])' = Range(Asc[s]) \cup {k}
      BY <1>2, <2>1 DEF ReadEdges
    <3>2. Range(Asc[s])' \subseteq s + 1 .. k
      BY <1>3, <1>6, <3>1
    <3> DEFINE m == Len(Asc[s])
    <3>3. /\ Len(Asc'[s]) = m + 1 /\ Asc'[s][m + 1] = k
          /\ \A i \in 1..m : Asc'[s][i] = Asc[s][i] /\ Asc[s][i] \in Nat
      BY <1>3, <1>5, <3>1
    <3>4. \A i \in 1..m : Asc[s][i] < k
      <4>1. Range(Asc[s]) = {Asc[s][i] : i \in 1..m}
        BY <1>5, RangeFacts
      <4>2. \A y \in Range(Asc[s]) : y \in s + 1 .. Count
        BY <1>6
      <4>3. \A y \in s + 1 .. Count : y < k
        BY <1>3
      <4> QED
        BY <4>1, <4>2, <4>3
    <3>5. m \in Nat /\ \A i, j \in 1..m : i < j => Asc[s][i] < Asc[s][j]
      BY <1>5, <1>6
    <3> HIDE DEF m
    <3>6. \A i \in 1..m + 1 : i \in 1..m \/ i = m + 1
      BY <3>5
    <3>7. \A i, j \in 1..m + 1 : i < j => Asc'[s][i] < Asc'[s][j]
      BY <3>3, <3>4, <3>5, <3>6
    <3> QED
      BY <3>2, <3>3, <3>7
  <2>2. CASE s # trigger
    <3>1. Asc'[s] = Asc[s] /\ Range(Asc[s])' = Range(Asc[s])
      BY <1>2, <2>2 DEF ReadEdges
    <3> QED
      BY <1>6, <1>a, <3>1
  <2> QED
    BY <2>1, <2>2
<1>9. /\ Len(Dep'[k]) <= 1 /\ Range(Dep[k])' \subseteq k + 1 .. k
      /\ Range(Asc[k])' \subseteq k + 1 .. k
      /\ \A i, j \in 1..Len(Asc'[k]) : i < j => Asc'[k][i] < Asc'[k][j]
  <2>1. Dep'[k] = <<>> /\ Asc'[k] = <<>>
    BY <1>2 DEF ReadEdges
  <2>2. Range(<<>>) = {} /\ Len(<<>>) = 0
    BY DEF Range
  <2> QED
    BY <2>1, <2>2
<1>10. \A s \in 1..k :
          /\ Len(Dep[s])' <= 1 /\ Range(Dep[s])' \subseteq s + 1 .. k
          /\ Range(Asc[s])' \subseteq s + 1 .. k
          /\ \A i, j \in 1..Len(Asc'[s]) : i < j => Asc'[s][i] < Asc'[s][j]
  BY <1>4, <1>7, <1>8, <1>9
<1> QED
  BY <1>3, <1>10 DEF EdgesInv

\* Keys in the graph are keys of systems.
LEMMA GraphKeys ==
    ASSUME Count \in Nat, EdgesInv
    PROVE  /\ Trigs \subseteq 1..Count
           /\ \A t \in 1..Count :
                 /\ Members(t) \subseteq 1..Count /\ t \in Members(t)
                 /\ Opens(t) \subseteq 1..Count
                 /\ \A p \in Opens(t) : p < t
                 /\ \A y \in Range(Asc[t]) : y \in 1..Count /\ t < y
<1>1. Trigs \subseteq 1..Count
  BY DEF Trigs
<1>2. ASSUME NEW t \in 1..Count, NEW y \in Range(Asc[t])
      PROVE  y \in 1..Count /\ t < y
  <2>1. y \in t + 1 .. Count
    BY <1>2 DEF EdgesInv
  <2> QED
    BY <2>1
<1>3. ASSUME NEW t \in 1..Count, NEW p \in Opens(t)
      PROVE  p \in 1..Count /\ p < t
  <2>1. p \in 1..Count /\ t \in Range(Dep[p])
    BY <1>3 DEF Opens
  <2>2. t \in p + 1 .. Count
    BY <2>1 DEF EdgesInv
  <2> QED
    BY <2>1, <2>2
<1>4. \A t \in 1..Count : Members(t) \subseteq 1..Count /\ t \in Members(t)
  BY <1>2 DEF Members
<1> QED
  BY <1>1, <1>2, <1>3, <1>4

LEMMA ReadKeepsBatches ==
    ASSUME BuilderInv, ReadSystem, NEW k, k = Count + 1
    PROVE  BatchInv'
<1>1. VectorsInv /\ StepsTypeInv /\ CallInv /\ EdgesInv /\ BatchInv
  BY DEF BuilderInv, ReadSystem, GraphInv
<1>2. ReadGraph(k)
  BY ReadGraphFacts
<1>3. Count \in Nat /\ Count' = k /\ 1..k = (1..Count) \cup {k} /\ k \notin 1..Count /\ k # None
  BY <1>2 DEF ReadGraph, None
<1>4. trigger \in Trigs \cup {None}
  BY <1>1, HereFacts
<1>5. Trigs \subseteq 1..Count /\ \A t \in 1..Count : Members(t) \subseteq 1..Count
  BY <1>1, <1>3, GraphKeys
<1>6. /\ Trigs' = IF trigger = None THEN Trigs \cup {k} ELSE Trigs
      /\ \A t \in 1..Count :
            Members(t)' = IF t = trigger THEN Members(t) \cup {k} ELSE Members(t)
      /\ Members(k)' = {k}
  BY <1>2 DEF ReadGraph
<1>7. \A s \in 1..Count : \E t \in Trigs : s \in Members(t)
  BY <1>1 DEF BatchInv
<1>8. \A t, u \in Trigs : \A s \in Members(t) : s \in Members(u) => t = u
  BY <1>1 DEF BatchInv
<1>9. \A s \in 1..k : \E t \in Trigs' : s \in Members(t)'
  <2>1. ASSUME NEW s \in 1..Count
        PROVE  \E t \in Trigs' : s \in Members(t)'
    <3>1. PICK t \in Trigs : s \in Members(t)
      BY <1>7
    <3>2. t \in Trigs' /\ s \in Members(t)'
      BY <1>5, <1>6, <3>1
    <3> QED
      BY <3>2
  <2>2. \E t \in Trigs' : k \in Members(t)'
    BY <1>3, <1>4, <1>5, <1>6
  <2> QED
    BY <1>3, <2>1, <2>2
<1>10. ASSUME NEW t \in Trigs', NEW u \in Trigs', NEW s \in Members(t)', s \in Members(u)'
       PROVE  t = u
  <2>1. CASE s = k
    <3>1. ASSUME NEW v \in Trigs', k \in Members(v)'
          PROVE  v = IF trigger = None THEN k ELSE trigger
      <4>1. v \in 1..Count \/ (v = k /\ trigger = None)
        BY <1>5, <1>6, <3>1
      <4>2. v \in 1..Count => v = trigger /\ v # None
        BY <1>3, <1>5, <1>6, <3>1 DEF None
      <4> QED
        BY <4>1, <4>2
    <3> QED
      BY <1>10, <2>1, <3>1
  <2>2. CASE s # k
    <3>1. ASSUME NEW v \in Trigs', s \in Members(v)'
          PROVE  v \in Trigs /\ s \in Members(v)
      BY <1>5, <1>6, <2>2, <3>1
    <3> QED
      BY <1>8, <1>10, <3>1
  <2> QED
    BY <2>1, <2>2
<1> QED
  BY <1>3, <1>9, <1>10 DEF BatchInv

LEMMA ReadKeepsGates ==
    ASSUME BuilderInv, ReadSystem, NEW k, k = Count + 1
    PROVE  GateInv'
<1>1. VectorsInv /\ StepsTypeInv /\ CallInv /\ EdgesInv /\ GateInv
  BY DEF BuilderInv, ReadSystem, GraphInv
<1>2. ReadGraph(k) /\ ReadEdges
  BY <1>1, ReadGraphFacts, ReadFacts
<1>3. Count \in Nat /\ Count' = k /\ k = Count + 1
  BY <1>2 DEF ReadGraph
<1>4. ASSUME NEW t \in Trigs', t # 1
      PROVE  t - 1 \in Opens(t)' /\ Cnt'[t] = Cardinality(Opens(t)')
  <2>1. CASE t \in Trigs
    <3>1. t \in 1..Count
      BY <2>1 DEF Trigs
    <3>2. Opens(t)' = Opens(t) /\ Cnt'[t] = Cnt[t]
      BY <1>2, <3>1 DEF ReadGraph, ReadEdges
    <3> QED
      BY <1>1, <1>4, <2>1, <3>2 DEF GateInv
  <2>2. CASE t \notin Trigs
    <3>1. t = k /\ trigger = None
      BY <1>2, <1>4, <2>2 DEF ReadGraph
    <3>2. Opens(t)' = Range(last)
      BY <1>2, <3>1 DEF ReadGraph
    <3>3. Cnt'[t] = Len(last)
      BY <1>2, <1>3, <3>1 DEF ReadEdges
    <3>4. last \in Seq(Nat) /\ IsInjective(last) /\ (Count # 0 => Count \in Range(last))
      BY <1>1, <3>1 DEF CallInv, LastInv, StepsTypeInv
    <3>5. Cardinality(Range(last)) = Len(last)
      BY <3>4, RankSize
    <3>6. t - 1 \in Range(last)
      BY <1>3, <1>4, <3>1, <3>4
    <3> QED
      BY <3>2, <3>3, <3>5, <3>6
  <2> QED
    BY <2>1, <2>2
<1> QED
  BY <1>4 DEF GateInv

LEMMA ReadKeepsNesting ==
    ASSUME BuilderInv, ReadSystem, NEW k, k = Count + 1
    PROVE  NestedInv'
<1>1. VectorsInv /\ StepsTypeInv /\ CallInv /\ EdgesInv /\ NestedInv
  BY DEF BuilderInv, ReadSystem, GraphInv
<1>2. ReadGraph(k) /\ ReadEdges
  BY <1>1, ReadGraphFacts, ReadFacts
<1>3. Count \in Nat /\ Count' = k /\ k = Count + 1
  BY <1>2 DEF ReadGraph
<1>4. trigger \in Trigs \cup {None} /\ (trigger # None => Outermost(trigger))
  BY <1>1, HereFacts
<1>5. /\ Trigs \subseteq 1..Count
      /\ \A t \in 1..Count : \A y \in Range(Asc[t]) : y \in 1..Count
  BY <1>1, <1>3, GraphKeys
<1>6. /\ Trigs' = IF trigger = None THEN Trigs \cup {k} ELSE Trigs
      /\ \A s \in 1..Count :
            Range(Asc[s])' = IF s = trigger THEN Range(Asc[s]) \cup {k} ELSE Range(Asc[s])
      /\ Range(Asc[k])' = {}
  <2>1. Asc'[k] = <<>> /\ Range(<<>>) = {}
    BY <1>2 DEF ReadEdges, Range
  <2> QED
    BY <1>2, <1>3, <2>1 DEF ReadGraph, ReadEdges
<1>7. ASSUME NEW u \in Trigs', NEW t \in Trigs', u < t,
             NEW y \in Range(Asc[u])', y > t, NEW z \in Range(Asc[t])'
      PROVE  z < y
  <2>1. t # k
    BY <1>6, <1>7
  <2>2. t \in Trigs /\ t \in 1..Count
    BY <1>5, <1>6, <1>7, <2>1
  <2>3. u \in Trigs /\ u \in 1..Count /\ u # t
    BY <1>3, <1>5, <1>6, <1>7, <2>2
  <2>4. CASE y = k
    <3>1. z \in Range(Asc[t])
      <4>1. y \notin Range(Asc[u])
        BY <1>3, <1>5, <2>3, <2>4
      <4>2. u = trigger
        BY <1>6, <1>7, <2>3, <4>1
      <4> QED
        BY <1>6, <1>7, <2>2, <2>3, <4>2
    <3> QED
      BY <1>3, <1>5, <2>2, <2>4, <3>1
  <2>5. CASE y # k
    <3>1. y \in Range(Asc[u])
      BY <1>6, <1>7, <2>3, <2>5
    <3>2. CASE z \in Range(Asc[t])
      BY <1>1, <1>7, <2>2, <2>3, <3>1, <3>2 DEF NestedInv
    <3>3. CASE z \notin Range(Asc[t])
      <4>0. Range(Asc[t])' = IF t = trigger THEN Range(Asc[t]) \cup {k} ELSE Range(Asc[t])
        BY <1>6, <2>2
      <4>1. t = trigger /\ t # None
        BY <1>3, <1>7, <2>2, <3>3, <4>0 DEF None
      <4>2. y < t
        BY <1>4, <1>7, <2>3, <3>1, <4>1 DEF Outermost
      <4> QED
        BY <1>5, <1>7, <2>2, <2>3, <3>1, <4>2
    <3> QED
      BY <3>2, <3>3
  <2> QED
    BY <2>4, <2>5
<1> QED
  BY <1>7 DEF NestedInv

\* What comes before a rank of systems there are does not change.
LEMMA ReadKeepsCover ==
    ASSUME NEW k, ReadGraph(k), NEW rank, rank \subseteq 1..Count
    PROVE  Cover(rank)' = Cover(rank)
<1>1. \A p \in rank : DeclaredBefore(p)' = DeclaredBefore(p)
  BY DEF ReadGraph
<1> QED
  BY <1>1 DEF Cover

LEMMA ReadKeepsDeclared ==
    ASSUME BuilderInv, ReadSystem, NEW k, k = Count + 1
    PROVE  DeclaredInv'
<1>1. VectorsInv /\ StepsTypeInv /\ CallInv /\ EdgesInv /\ DeclaredInv
  BY DEF BuilderInv, ReadSystem, GraphInv
<1>2. ReadGraph(k) /\ ReadEdges
  BY <1>1, ReadGraphFacts, ReadFacts
<1>3. Count \in Nat /\ Count' = k /\ k = Count + 1 /\ k # None /\ k \notin 1..Count
  BY <1>2 DEF ReadGraph, None
<1>4. /\ trigger \in Trigs \cup {None} /\ earlier \subseteq 1..Count
      /\ trigger # None => DeclaredBefore(trigger) = earlier
      /\ trigger = None => Range(last) \subseteq 1..Count
  BY <1>1, HereFacts
<1>5. declared' \subseteq {p \in (1..k) \X (1..k) : p[1] < p[2]}
  <2>1. declared' = declared \cup (earlier \X {k})
    BY <1>2, <1>3 DEF ReadEdges
  <2>2. declared \subseteq {p \in (1..Count) \X (1..Count) : p[1] < p[2]}
    BY <1>1 DEF DeclaredInv
  <2>3. 1..Count \subseteq 1..k /\ k \in 1..k /\ \A a \in 1..Count : a < k
    BY <1>3
  <2>4. (earlier \X {k}) \subseteq {p \in (1..k) \X (1..k) : p[1] < p[2]}
    BY <1>4, <2>3
  <2>5. declared \subseteq {p \in (1..k) \X (1..k) : p[1] < p[2]}
    BY <2>2, <2>3
  <2> QED
    BY <2>1, <2>4, <2>5
<1>6. /\ Trigs \subseteq 1..Count
      /\ \A t \in 1..Count : Members(t) \subseteq 1..Count /\ t \in Members(t) /\ Opens(t) \subseteq 1..Count
  BY <1>1, <1>3, GraphKeys
<1>7. /\ Trigs' = IF trigger = None THEN Trigs \cup {k} ELSE Trigs
      /\ \A t \in 1..Count :
            /\ Opens(t)' = Opens(t)
            /\ Members(t)' = IF t = trigger THEN Members(t) \cup {k} ELSE Members(t)
            /\ DeclaredBefore(t)' = DeclaredBefore(t)
      /\ Opens(k)' = IF trigger = None THEN Range(last) ELSE {}
      /\ Members(k)' = {k}
      /\ DeclaredBefore(k)' = earlier
  BY <1>2 DEF ReadGraph
<1>8. ASSUME NEW t \in Trigs', NEW s \in Members(t)'
      PROVE  DeclaredBefore(s)' = Cover(Opens(t))'
  <2>1. CASE t \in Trigs
    <3>1. t \in 1..Count /\ Opens(t)' = Opens(t) /\ Opens(t) \subseteq 1..Count
      BY <1>6, <1>7, <2>1
    <3>2. PICK rank : rank = Opens(t)
      OBVIOUS
    <3>3. Cover(rank)' = Cover(rank)
      BY <1>2, <3>1, <3>2, ReadKeepsCover
    <3>4. Cover(Opens(t))' = Cover(Opens(t))
      BY <3>1, <3>2, <3>3 DEF Cover
    <3>5. CASE s \in Members(t)
      <4>1. DeclaredBefore(s)' = DeclaredBefore(s)
        BY <1>6, <1>7, <3>1, <3>5
      <4> QED
        BY <1>1, <2>1, <3>4, <3>5, <4>1 DEF DeclaredInv
    <3>6. CASE s \notin Members(t)
      <4>1. t = trigger /\ s = k /\ t # None
        BY <1>7, <1>8, <3>1, <3>6 DEF None
      <4>2. DeclaredBefore(s)' = DeclaredBefore(t)
        BY <1>4, <1>7, <4>1
      <4>3. DeclaredBefore(t) = Cover(Opens(t))
        BY <1>1, <1>6, <2>1, <3>1 DEF DeclaredInv
      <4> QED
        BY <3>4, <4>2, <4>3
    <3> QED
      BY <3>5, <3>6
  <2>2. CASE t \notin Trigs
    <3>1. t = k /\ trigger = None
      BY <1>7, <1>8, <2>2
    <3>2. s = k /\ DeclaredBefore(s)' = earlier /\ Opens(t)' = Range(last)
      BY <1>7, <1>8, <3>1
    <3>3. Cover(Range(last)) = earlier /\ Range(last) \subseteq 1..Count
      BY <1>1, <1>4, <3>1 DEF CallInv, LastInv
    <3>4. PICK rank : rank = Range(last)
      OBVIOUS
    <3>5. Cover(rank)' = Cover(rank)
      BY <1>2, <3>3, <3>4, ReadKeepsCover
    <3>6. Cover(Opens(t))' = Cover(Range(last))
      BY <3>2, <3>4, <3>5 DEF Cover
    <3> QED
      BY <3>2, <3>3, <3>6
  <2> QED
    BY <2>1, <2>2
<1> QED
  BY <1>3, <1>5, <1>8 DEF DeclaredInv

-----------------------------------------------------------------------------
(* ReadSystem and the levels of the call. *)

LEMMA ReadKeepsFrame ==
    ASSUME BuilderInv, ReadSystem, NEW k, k = Count + 1,
           NEW f \in Frame, LevelInv(f), f.old # None /\ trigger # None => f.old <= trigger
    PROVE  LevelInv(f)'
<1>1. VectorsInv /\ StepsTypeInv /\ CallInv /\ EdgesInv
  BY DEF BuilderInv, ReadSystem, GraphInv
<1>2. ReadGraph(k) /\ ReadEdges
  BY <1>1, ReadGraphFacts, ReadFacts
<1>3. Count \in Nat /\ Count' = k /\ k = Count + 1 /\ k \notin 1..Count /\ Trigs \subseteq 1..Count
  BY <1>1, <1>2, GraphKeys DEF ReadGraph
<1>4. f.old \in Nat /\ f.start \in Nat /\ f.base \in Nat
  BY DEF Frame
<1>5. /\ f.old \in Trigs' \cup {None}
      /\ f.start <= f.base /\ f.base <= k
      /\ f.start < f.base => f.old # None
  BY <1>2, <1>3, <1>4 DEF LevelInv, ReadGraph
<1>6. ASSUME f.old # None
      PROVE  DeclaredBefore(f.old)' = f.earlier /\ Outermost(f.old)'
  <2>1. f.old \in Trigs /\ DeclaredBefore(f.old) = f.earlier /\ Outermost(f.old)
    BY <1>6 DEF LevelInv
  <2>2. DeclaredBefore(f.old)' = f.earlier
    BY <1>2, <1>3, <2>1 DEF ReadGraph
  <2>3. ASSUME NEW u \in Trigs', u < f.old, NEW y \in Range(Asc[u])'
        PROVE  y < f.old
    <3>a. f.old \in 1..Count
      BY <1>3, <2>1
    <3>b. u # k
      BY <1>3, <2>3, <3>a
    <3>1. u \in Trigs /\ u \in 1..Count
      BY <1>2, <1>3, <2>3, <3>b DEF ReadGraph
    <3>2. Range(Asc[u])' = IF u = trigger THEN Range(Asc[u]) \cup {k} ELSE Range(Asc[u])
      BY <1>2, <1>3, <3>1 DEF ReadEdges
    <3>3. u # trigger
      BY <1>3, <1>4, <1>6, <2>3, <3>1 DEF None
    <3> QED
      BY <2>1, <2>3, <3>1, <3>2, <3>3 DEF Outermost
  <2>4. Outermost(f.old)'
    BY <2>3 DEF Outermost
  <2> QED
    BY <2>2, <2>4
<1> QED
  BY <1>3, <1>5, <1>6 DEF LevelInv

LEMMA ReadKeepsRank ==
    ASSUME BuilderInv, ReadSystem, NEW k, k = Count + 1,
           NEW f \in Frame, RankInv(f), trigger = None => Range(f.current) \cap Range(last) = {}
    PROVE  RankInv(f)'
<1>1. VectorsInv /\ StepsTypeInv /\ CallInv /\ EdgesInv
  BY DEF BuilderInv, ReadSystem, GraphInv
<1>2. ReadGraph(k) /\ ReadEdges
  BY <1>1, ReadGraphFacts, ReadFacts
<1>3. Count \in Nat /\ Count' = k /\ k = Count + 1
  BY <1>2 DEF ReadGraph
<1>4. f.current \in Seq(Nat)
  BY DEF Frame
<1>5. Range(f.current) = {f.current[i] : i \in 1..Len(f.current)}
  BY <1>4, RangeFacts
<1>6. ASSUME NEW i \in 1..Len(f.current)
      PROVE  f.current[i] \in 1..k /\ f.current[i] \in 1..Count /\ Dep'[f.current[i]] = <<>>
  <2>1. f.current[i] \in 1..Count /\ Dep[f.current[i]] = <<>>
    BY DEF RankInv, Open
  <2>2. ~(trigger = None /\ f.current[i] \in Range(last))
    BY <1>5
  <2>3. Dep'[f.current[i]] = Dep[f.current[i]]
    BY <1>2, <2>1, <2>2 DEF ReadEdges
  <2> QED
    BY <1>3, <2>1, <2>3
<1>7. Open(f.current)'
  BY <1>3, <1>6 DEF Open
<1>8. Range(f.current) \subseteq 1..Count
  BY <1>5, <1>6
<1>9. Cover(Range(f.current))' = Cover(Range(f.current))
  BY <1>2, <1>8, ReadKeepsCover
<1> QED
  BY <1>7, <1>9 DEF RankInv

\* The level that reads the system.
LEMMA ReadKeepsHere ==
    ASSUME BuilderInv, ReadSystem, NEW k, k = Count + 1
    PROVE  LevelInv(Here)' /\ (Len(frames) > 0 => RankInv(Here)')
<1>1. VectorsInv /\ StepsTypeInv /\ CallInv /\ EdgesInv
  BY DEF BuilderInv, ReadSystem, GraphInv
<1>2. ReadGraph(k) /\ ReadEdges
  BY <1>1, ReadGraphFacts, ReadFacts
<1>3. Count \in Nat /\ Count' = k /\ k = Count + 1 /\ k \notin 1..Count /\ Trigs \subseteq 1..Count
      /\ k # None /\ k \in Nat
  BY <1>1, <1>2, GraphKeys DEF ReadGraph, None
<1>4. /\ trigger \in Trigs \cup {None}
      /\ trigger # None => DeclaredBefore(trigger) = earlier /\ Outermost(trigger)
      /\ start <= Count
      /\ start < Count => trigger # None
      /\ Len(frames) > 0 => RankInv(Here)
      /\ earlier \subseteq 1..Count
      /\ trigger = None => Range(last) \subseteq 1..Count
  BY <1>1, HereFacts
<1>5. /\ trigger' = IF trigger = None THEN k ELSE trigger
      /\ current' = Append(current, k) /\ start' = start /\ earlier' = earlier /\ last' = last
      /\ Trigs' = IF trigger = None THEN Trigs \cup {k} ELSE Trigs
  BY <1>2, <1>3 DEF ReadGraph, ReadEdges, ReadSystem
<1>6. start \in Nat /\ current \in Seq(Nat)
  BY <1>1 DEF StepsTypeInv
<1>7. DeclaredBefore(trigger)' = earlier
  <2>1. CASE trigger = None
    <3>1. DeclaredBefore(k)' = earlier
      BY <1>2 DEF ReadGraph
    <3> QED
      BY <1>5, <2>1, <3>1 DEF DeclaredBefore
  <2>2. CASE trigger # None
    <3>1. PICK t \in 1..Count : t = trigger
      BY <1>3, <1>4, <2>2
    <3>2. DeclaredBefore(t)' = earlier
      BY <1>2, <1>4, <2>2, <3>1 DEF ReadGraph
    <3> QED
      BY <1>5, <2>2, <3>1, <3>2 DEF DeclaredBefore
  <2> QED
    BY <2>1, <2>2
<1>8. ASSUME NEW u \in Trigs', u < trigger', NEW y \in Range(Asc[u])'
      PROVE  y < trigger'
  <2>1. u \in Trigs /\ u \in 1..Count /\ u # trigger
    BY <1>3, <1>4, <1>5, <1>8 DEF None
  <2>2. Range(Asc[u])' = Range(Asc[u])
    BY <1>2, <1>3, <2>1 DEF ReadEdges
  <2>3. y \in 1..Count
    BY <1>1, <1>3, <1>8, <2>1, <2>2, GraphKeys
  <2> QED
    BY <1>3, <1>4, <1>5, <1>8, <2>1, <2>2, <2>3 DEF Outermost
<1>9. Outermost(trigger)'
  BY <1>8 DEF Outermost
<1>10. /\ Here.old' = trigger' /\ Here.start' = start' /\ Here.base' = k
       /\ Here.earlier' = earlier' /\ Here.current' = current'
  BY <1>3 DEF Here
<1>11. LevelInv(Here)'
  <2>1. trigger' \in Trigs' \cup {None}
    BY <1>4, <1>5
  <2>2. start' <= k /\ k <= Count' /\ (start' < k => trigger' # None)
    BY <1>3, <1>4, <1>5, <1>6
  <2> QED
    BY <1>5, <1>7, <1>9, <1>10, <2>1, <2>2 DEF LevelInv, DeclaredBefore, Outermost
<1>12. ASSUME Len(frames) > 0
       PROVE  RankInv(Here)'
  <2>1. /\ Open(current) /\ IsInjective(current) /\ Range(current) \subseteq start + 1 .. Count
        /\ start < Count => Cover(Range(current)) = earlier \cup (start + 1 .. Count)
    BY <1>4, <1>12 DEF RankInv, Here
  <2>2. Range(current) = {current[i] : i \in 1..Len(current)} /\ Len(current) \in Nat
    BY <1>6, RangeFacts
  <2>3. Range(current) \subseteq 1..Count /\ k \notin Range(current)
    BY <1>3, <2>1, <2>2 DEF Open
  <2>4. Range(current)' = Range(current) \cup {k}
    BY <1>3, <1>5, <1>6, RangeAppend
  <2>5. /\ Len(current') = Len(current) + 1 /\ current'[Len(current) + 1] = k
        /\ \A i \in 1..Len(current) : current'[i] = current[i]
        /\ DOMAIN current' = 1..Len(current) + 1
    BY <1>3, <1>5, <1>6
  <2>6. \A i \in 1..Len(current) + 1 : i \in 1..Len(current) \/ i = Len(current) + 1
    BY <2>2
  <2>7. \A x \in Range(current) : trigger # None
    <3>1. start = Count => start + 1 .. Count = {}
      BY <1>3
    <3> QED
      BY <1>3, <1>4, <1>6, <2>1, <3>1
  <2>8. Open(current)'
    <3>1. ASSUME NEW i \in 1..Len(current)
          PROVE  current[i] \in 1..k /\ Dep'[current[i]] = <<>>
      <4>1. current[i] \in 1..Count /\ Dep[current[i]] = <<>> /\ trigger # None
        BY <2>1, <2>2, <2>7 DEF Open
      <4>2. Dep'[current[i]] = Dep[current[i]]
        BY <1>2, <4>1 DEF ReadEdges
      <4>3. 1..Count \subseteq 1..k
        BY <1>3
      <4> QED
        BY <4>1, <4>2, <4>3
    <3>2. k \in 1..k /\ Dep'[k] = <<>>
      BY <1>2, <1>3 DEF ReadEdges
    <3>3. \A i \in 1..Len(current') : current'[i] \in 1..k /\ Dep'[current'[i]] = <<>>
      BY <2>5, <2>6, <3>1, <3>2
    <3> QED
      BY <1>3, <3>3 DEF Open
  <2>9. IsInjective(current)'
    <3>1. DOMAIN current = 1..Len(current)
      BY <1>6
    <3>2. \A i, j \in 1..Len(current) : current[i] = current[j] => i = j
      BY <2>1, <3>1 DEF IsInjective
    <3>3. \A i \in 1..Len(current) : current[i] # k
      BY <2>2, <2>3
    <3> QED
      BY <2>5, <2>6, <3>2, <3>3 DEF IsInjective
  <2>10. Range(current)' \subseteq start + 1 .. k /\ k \in Range(current)'
    <3>1. start + 1 .. Count \subseteq start + 1 .. k /\ k \in start + 1 .. k
      BY <1>3, <1>4, <1>6
    <3> QED
      BY <2>1, <2>4, <3>1
  <2>12. Cover(Range(current))' = earlier \cup (start + 1 .. k)
    <3>3. \A p \in Range(current) : DeclaredBefore(p)' = DeclaredBefore(p)
      BY <1>2, <2>3 DEF ReadGraph
    <3>4. DeclaredBefore(k)' = earlier
      BY <1>2 DEF ReadGraph
    <3>5. Cover(Range(current))' = Cover(Range(current)) \cup {k} \cup earlier
      BY <2>4, <3>3, <3>4 DEF Cover
    <3>6. CASE start < Count
      <4>1. start + 1 .. k = (start + 1 .. Count) \cup {k}
        BY <1>3, <1>6, <3>6
      <4> QED
        BY <2>1, <3>5, <3>6, <4>1
    <3>7. CASE ~(start < Count)
      <4>1. start = Count /\ start + 1 .. k = {k} /\ start + 1 .. Count = {}
        BY <1>3, <1>4, <1>6, <3>7
      <4>2. Cover(Range(current)) = {}
        BY <2>1, <4>1 DEF Cover
      <4> QED
        BY <3>5, <4>1, <4>2
    <3> QED
      BY <3>6, <3>7
  <2> QED
    BY <1>3, <1>5, <1>10, <2>8, <2>9, <2>10, <2>12 DEF RankInv, Open, Cover, DeclaredBefore
<1> QED
  BY <1>11, <1>12

\* LevelsFacts of the next state.
LEMMA LevelsNext ==
    ASSUME StepsTypeInv', VectorsInv'
    PROVE  /\ Count' \in Nat
           /\ Here' \in Frame
           /\ Levels' \in Seq(Frame) /\ frames' \in Seq(Frame) /\ Len(frames') \in Nat
           /\ Len(Levels') = Len(frames') + 1
           /\ Levels'[Len(frames') + 1] = Here'
           /\ \A i \in 1..Len(frames') : Levels'[i] = frames'[i] /\ frames'[i] \in Frame
<1>1. Count' \in Nat
  BY DEF VectorsInv, Schedules, Count
<1>2. Here' \in Frame
  BY <1>1 DEF StepsTypeInv, Here, Frame
<1>3. frames' \in Seq(Frame) /\ Len(frames') \in Nat
  BY DEF StepsTypeInv
<1> HIDE DEF Here
<1>4. /\ Levels' \in Seq(Frame)
      /\ Len(Levels') = Len(frames') + 1
      /\ Levels'[Len(frames') + 1] = Here'
      /\ \A i \in 1..Len(frames') : Levels'[i] = frames'[i]
  BY <1>2, <1>3, AppendFacts DEF Levels
<1>5. \A i \in 1..Len(frames') : frames'[i] \in Frame
  BY <1>3
<1> QED
  BY <1>1, <1>2, <1>3, <1>4, <1>5

LEMMA ReadKeepsTypes ==
    ASSUME BuilderInv, ReadSystem
    PROVE  StepsTypeInv' /\ VectorsInv'
<1>0. VectorsInv /\ StepsTypeInv /\ CallInv
  BY DEF BuilderInv, ReadSystem
<1>1. ReadEdges /\ VectorsInv'
  BY <1>0, ReadFacts
<1>2. PICK k \in Nat : k = Count + 1
  BY <1>1 DEF ReadEdges
<1>3. current' = Append(current, k) /\ trigger' = (IF trigger = None THEN k ELSE trigger)
  BY <1>1, <1>2 DEF ReadEdges
<1>4. current' \in Seq(Nat) /\ trigger' \in Nat
  BY <1>0, <1>2, <1>3 DEF StepsTypeInv
<1>5. UNCHANGED <<calls, adding, last, frames, earlier, start>>
  BY DEF ReadSystem
<1> QED
  BY <1>0, <1>1, <1>4, <1>5 DEF StepsTypeInv

LEMMA ReadKeepsCall ==
    ASSUME BuilderInv, ReadSystem
    PROVE  CallInv'
<1>0. PICK k : k = Count + 1
  OBVIOUS
<1>1. VectorsInv /\ StepsTypeInv /\ CallInv /\ EdgesInv /\ StepsTypeInv' /\ VectorsInv'
  BY ReadKeepsTypes DEF BuilderInv, ReadSystem, GraphInv
<1>2. ReadGraph(k) /\ ReadEdges
  BY <1>0, <1>1, ReadGraphFacts, ReadFacts
<1>3. Count \in Nat /\ Count' = k /\ k = Count + 1 /\ k # None /\ k \notin 1..Count /\ Trigs \subseteq 1..Count
  BY <1>1, <1>2, GraphKeys DEF ReadGraph, None
<1> DEFINE d == Len(frames)
<1>4. /\ Len(Levels) = d + 1 /\ Levels[d + 1] = Here /\ d \in Nat
      /\ \A i \in 1..d : Levels[i] = frames[i] /\ frames[i] \in Frame
  BY <1>1, LevelsFacts
<1>5. frames' = frames
  BY DEF ReadSystem
<1>6. /\ Len(Levels') = d + 1 /\ Levels'[d + 1] = Here'
      /\ \A i \in 1..d : Levels'[i] = frames[i]
  BY <1>1, <1>5, LevelsNext
<1> HIDE DEF d
<1>7. /\ trigger' = (IF trigger = None THEN k ELSE trigger) /\ trigger' # None
      /\ start' = start /\ earlier' = earlier
  BY <1>2, <1>3 DEF ReadEdges, ReadSystem
<1>8. /\ Here.old = trigger /\ Here.start = start /\ Here.base = Count /\ Here.earlier = earlier
      /\ Here'.old = trigger' /\ Here'.start = start /\ Here'.base = k /\ Here'.earlier = earlier
  BY <1>3, <1>7 DEF Here
<1>9. \A i \in 1..d : frames[i].old # None /\ trigger # None => frames[i].old <= trigger
  <2>1. \A i \in 1..d : i \in 1..d + 1 /\ d + 1 \in 1..d + 1 /\ i < d + 1
    BY <1>4
  <2> QED
    BY <1>1, <1>4, <1>8, <2>1 DEF CallInv
<1>10. \A i \in 1..d + 1 : i \in 1..d \/ i = d + 1
  BY <1>4
<1>11. ASSUME NEW i \in 1..d + 1
       PROVE  LevelInv(Levels[i])'
  <2>1. CASE i \in 1..d
    <3>1. PICK f \in Frame : f = frames[i]
      BY <1>4, <2>1
    <3>2. LevelInv(f) /\ (f.old # None /\ trigger # None => f.old <= trigger)
      BY <1>1, <1>4, <1>9, <2>1, <3>1 DEF CallInv
    <3>3. LevelInv(f)'
      BY <1>3, <3>2, ReadKeepsFrame
    <3>4. Levels'[i] = f
      BY <1>6, <2>1, <3>1
    <3> QED
      BY <3>3, <3>4 DEF LevelInv, Outermost, DeclaredBefore
  <2>2. CASE i = d + 1
    <3>1. LevelInv(Here)' /\ Levels'[i] = Here'
      BY <1>3, <1>6, <2>2, ReadKeepsHere
    <3> QED
      BY <3>1 DEF LevelInv, Outermost, DeclaredBefore
  <2> QED
    BY <1>10, <2>1, <2>2
<1>12. ASSUME NEW i \in 2..d + 1
       PROVE  RankInv(Levels[i])'
  <2>1. CASE i \in 1..d
    <3>1. PICK f \in Frame : f = frames[i]
      BY <1>4, <2>1
    <3>2. RankInv(f) /\ (trigger = None => Range(f.current) \cap Range(last) = {})
      <4>1. i \in 2..d
        BY <2>1
      <4> QED
        BY <1>1, <1>4, <2>1, <3>1, <4>1 DEF CallInv, LastInv, d
    <3>3. RankInv(f)'
      BY <1>3, <3>2, ReadKeepsRank
    <3>4. Levels'[i] = f
      BY <1>6, <2>1, <3>1
    <3> QED
      BY <3>3, <3>4 DEF RankInv, Open, Cover, DeclaredBefore
  <2>2. CASE i = d + 1
    <3>1. RankInv(Here)' /\ Levels'[i] = Here'
      BY <1>3, <1>4, <1>6, <2>2, ReadKeepsHere DEF d
    <3> QED
      BY <3>1 DEF RankInv, Open, Cover, DeclaredBefore
  <2>3. i \in 1..d + 1
    BY <1>4
  <2> QED
    BY <1>10, <2>1, <2>2, <2>3
<1>13. ASSUME NEW i \in 1..d
       PROVE  InsideInv(Levels'[i], Levels'[i + 1])
  <2>1. InsideInv(Levels[i], Levels[i + 1])
    BY <1>1 DEF CallInv, d
  <2>2. Levels'[i] = Levels[i]
    BY <1>4, <1>6
  <2>3. Levels'[i + 1].earlier = Levels[i + 1].earlier /\ Levels'[i + 1].start = Levels[i + 1].start
    <3>1. i + 1 \in 1..d \/ i + 1 = d + 1
      BY <1>4
    <3> QED
      BY <1>4, <1>6, <1>8, <3>1
  <2> QED
    BY <2>1, <2>2, <2>3 DEF InsideInv
<1>14. ASSUME NEW i \in 1..d + 1, NEW j \in 1..d + 1, i < j
       PROVE  /\ Levels'[i].base <= Levels'[j].start
              /\ Levels'[j].old # None => Levels'[i].old <= Levels'[j].old
  <2>1. i \in 1..d /\ Levels'[i] = Levels[i] /\ Levels[i] = frames[i] /\ frames[i] \in Frame
    BY <1>4, <1>6, <1>14
  <2>2. /\ Levels[i].base <= Levels[j].start
        /\ Levels[j].old # None => Levels[i].old <= Levels[j].old
    BY <1>1, <1>4, <1>14 DEF CallInv
  <2>3. CASE j \in 1..d
    BY <1>4, <1>6, <2>1, <2>2, <2>3
  <2>4. CASE j = d + 1
    <3>1. frames[i].old \in Trigs \cup {None}
      BY <1>1, <1>4, <2>1 DEF CallInv, LevelInv
    <3>2. frames[i].old <= Count /\ frames[i].old \in Nat
      <4>1. frames[i].old \in 1..Count \/ frames[i].old = None
        BY <1>3, <3>1
      <4> QED
        BY <1>3, <4>1 DEF None
    <3>3. Levels'[j] = Here' /\ Levels[j] = Here
      BY <1>4, <1>6, <2>4
    <3>4. Levels'[i].base <= Levels'[j].start
      BY <1>8, <2>1, <2>2, <3>3
    <3>5. frames[i].old <= trigger'
      <4>1. CASE trigger = None
        BY <1>3, <1>7, <3>2, <4>1
      <4>2. CASE trigger # None
        BY <1>7, <2>1, <2>2, <3>3, <1>8, <4>2
      <4> QED
        BY <4>1, <4>2
    <3> QED
      BY <1>8, <2>1, <3>3, <3>4, <3>5
  <2> QED
    BY <1>10, <2>3, <2>4
<1>15. LastInv'
  BY <1>7 DEF LastInv
<1>16. Len(frames') = d
  BY <1>5 DEF d
<1> QED
  BY <1>6, <1>11, <1>12, <1>13, <1>14, <1>15, <1>16 DEF CallInv, InsideInv

-----------------------------------------------------------------------------
(* The steps that read no system leave the graph alone. *)

LEMMA SameGraph ==
    ASSUME VectorsInv, GraphInv, DeclaredInv, UNCHANGED <<schedule, declared>>
    PROVE  VectorsInv' /\ GraphInv' /\ DeclaredInv' /\ Count' = Count
<1>1. VectorsInv' /\ Count' = Count
  BY DEF VectorsInv, Schedules, Count, Dep, Asc
<1>2. Trigs' = Trigs
  BY DEF Trigs, Count, Dep
<1>3. EdgesInv'
  BY DEF GraphInv, EdgesInv, Count, Dep, Asc
<1>4. BatchInv' /\ NestedInv'
  BY <1>2 DEF GraphInv, BatchInv, NestedInv, Members, Count, Asc
<1>5. GateInv'
  BY <1>2 DEF GraphInv, GateInv, Opens, Count, Cnt, Dep
<1>6. DeclaredInv'
  <2>1. \A s : /\ DeclaredBefore(s)' = DeclaredBefore(s)
               /\ Members(s)' = Members(s) /\ Opens(s)' = Opens(s)
    BY DEF DeclaredBefore, Opens, Members, Count, Dep, Asc
  <2>2. \A t : Cover(Opens(t))' = Cover(Opens(t))
    BY <2>1 DEF Cover
  <2> QED
    BY <1>1, <1>2, <2>1, <2>2 DEF DeclaredInv
<1> QED
  BY <1>1, <1>3, <1>4, <1>5, <1>6 DEF GraphInv

\* It is enough to look at the new levels against the graph there is.
LEMMA SameCall ==
    ASSUME UNCHANGED <<schedule, declared>>, NEW L, L = Levels', NEW d, d = Len(frames'),
           Len(L) = d + 1, LastInv',
           \A i \in 1..d + 1 : LevelInv(L[i]),
           \A i \in 2..d + 1 : RankInv(L[i]),
           \A i \in 1..d : InsideInv(L[i], L[i + 1]),
           \A i, j \in 1..d + 1 : i < j =>
              L[i].base <= L[j].start /\ (L[j].old # None => L[i].old <= L[j].old)
    PROVE  CallInv'
<1>1. ASSUME NEW f, LevelInv(f)
      PROVE  LevelInv(f)'
  BY <1>1 DEF LevelInv, Trigs, Count, Dep, Asc, DeclaredBefore, Outermost
<1>2. ASSUME NEW f, RankInv(f)
      PROVE  RankInv(f)'
  <2>1. Open(f.current)'
    BY <1>2 DEF RankInv, Open, Count, Dep
  <2>2. \A s : DeclaredBefore(s)' = DeclaredBefore(s)
    BY DEF DeclaredBefore, Count
  <2>3. Cover(Range(f.current))' = Cover(Range(f.current))
    BY <2>2 DEF Cover
  <2> QED
    BY <1>2, <2>1, <2>3 DEF RankInv
<1>3. \A i \in 1..d + 1 : LevelInv(L[i])'
  BY <1>1
<1>4. \A i \in 2..d + 1 : RankInv(L[i])'
  BY <1>2
<1>5. \A i \in 1..Len(Levels') : LevelInv(Levels[i])'
  BY <1>3 DEF LevelInv, Outermost, DeclaredBefore
<1>6. \A i \in 2..Len(Levels') : RankInv(Levels[i])'
  BY <1>4 DEF RankInv, Open, Cover, DeclaredBefore
<1>7. \A i \in 1..Len(frames') : InsideInv(Levels'[i], Levels'[i + 1])
  OBVIOUS
<1> QED
  BY <1>5, <1>6, <1>7 DEF CallInv, InsideInv

LEMMA BeginCallKeeps ==
    ASSUME BuilderInv, BeginCall
    PROVE  BuilderInv'
<1>1. VectorsInv /\ GraphInv /\ DeclaredInv /\ StepsTypeInv /\ frames = <<>> /\ frames' = <<>>
      /\ UNCHANGED <<schedule, declared>>
  BY DEF BuilderInv, BeginCall
<1>2. VectorsInv' /\ GraphInv' /\ DeclaredInv' /\ Count' = Count
  BY <1>1, SameGraph
<1>3. /\ Count \in Nat /\ schedule.root = (IF Count = 0 THEN None ELSE 1)
  BY <1>1 DEF VectorsInv, Schedules, Count
<1>4. /\ adding' = TRUE /\ calls' \in 0..MaxCalls /\ trigger' = schedule.root
      /\ current' = (IF schedule.root = None THEN <<>> ELSE <<schedule.root>>)
      /\ last' = <<>> /\ earlier' = {} /\ start' = Count
  BY <1>1, BoundsAssumption DEF BeginCall, StepsTypeInv
<1>5. StepsTypeInv'
  <2>1. trigger' \in Nat /\ current' \in Seq(Nat) /\ last' \in Seq(Nat) /\ earlier' \in SUBSET Nat
    BY <1>3, <1>4 DEF None
  <2>2. frames' \in Seq(Frame)
    BY <1>1 DEF StepsTypeInv
  <2> QED
    BY <1>3, <1>4, <2>1, <2>2 DEF StepsTypeInv
<1>6. Count # 0 => DeclaredBefore(1) = {} /\ Outermost(1) /\ 1 \in Trigs
  <2>1. \A a \in 1..Count : <<a, 1>> \notin declared
    <3>1. \A a \in 1..Count : ~(a < 1)
      BY <1>3
    <3>2. \A a \in 1..Count : <<a, 1>> \in declared => a < 1
      BY <1>1 DEF DeclaredInv
    <3> QED
      BY <3>1, <3>2
  <2>2. \A u \in Trigs : ~(u < 1)
    BY <1>3 DEF Trigs
  <2>3. Count # 0 => 1 \in 1..Count
    BY <1>3
  <2> QED
    BY <2>1, <2>2, <2>3 DEF DeclaredBefore, Outermost, Trigs
<1>7. PICK L : L = Levels'
  OBVIOUS
<1>8. Len(L) = 1 /\ L[1] = Here' /\ Len(frames') = 0
  <2>1. Len(frames') = 0
    BY <1>1
  <2> QED
    BY <1>2, <1>5, <1>7, <2>1, LevelsNext
<1>9. L[1].old = schedule.root /\ L[1].start = Count /\ L[1].base = Count /\ L[1].earlier = {}
  BY <1>2, <1>4, <1>8 DEF Here
<1>10. LevelInv(L[1])
  <2>1. CASE Count = 0
    BY <1>3, <1>9, <2>1 DEF LevelInv
  <2>2. CASE Count # 0
    <3>1. L[1].old = 1
      BY <1>3, <1>9, <2>2
    <3> QED
      BY <1>3, <1>6, <1>9, <2>2, <3>1 DEF LevelInv, None
  <2> QED
    BY <2>1, <2>2
<1>11. LastInv'
  <2>1. CASE Count = 0
    <3>1. Open(<<>>)' /\ IsInjective(<<>>) /\ Range(<<>>) = {} /\ Cover({})' = {}
      BY DEF Open, IsInjective, Range, Cover
    <3>2. 2..Len(frames') = {}
      BY <1>8
    <3> QED
      BY <1>2, <1>4, <2>1, <3>1, <3>2 DEF LastInv, Open, Cover
  <2>2. CASE Count # 0
    BY <1>3, <1>4, <2>2 DEF LastInv, None
  <2> QED
    BY <2>1, <2>2
<1>12. CallInv'
  <2>0. PICK d : d = 0
    OBVIOUS
  <2>1. \A i \in 1..d + 1 : i = 1
    BY <2>0
  <2>2. \A i \in 2..d + 1 : RankInv(L[i])
    BY <2>0
  <2>3. \A i \in 1..d : InsideInv(L[i], L[i + 1])
    BY <2>0
  <2>4. d = Len(frames') /\ Len(L) = d + 1
    BY <1>8, <2>0
  <2>5. \A i, j \in 1..d + 1 : i < j =>
           L[i].base <= L[j].start /\ (L[j].old # None => L[i].old <= L[j].old)
    BY <2>1
  <2>6. \A i \in 1..d + 1 : LevelInv(L[i])
    BY <1>10, <2>1
  <2> QED
    BY <1>1, <1>7, <1>11, <2>2, <2>3, <2>4, <2>5, <2>6, SameCall
<1> QED
  BY <1>2, <1>4, <1>5, <1>12 DEF BuilderInv

\* The levels of the call, one by one.
LEMMA CallFacts ==
    ASSUME VectorsInv, StepsTypeInv, CallInv, NEW d, d = Len(frames)
    PROVE  /\ d \in Nat /\ Count \in Nat /\ frames \in Seq(Frame)
           /\ Len(Levels) = d + 1 /\ Levels[d + 1] = Here /\ Here \in Frame
           /\ \A i \in 1..d : Levels[i] = frames[i] /\ frames[i] \in Frame
           /\ \A i \in 1..d + 1 :
                 /\ Levels[i] \in Frame
                 /\ Levels[i].old \in Nat /\ Levels[i].start \in Nat /\ Levels[i].base \in Nat
                 /\ LevelInv(Levels[i])
           /\ \A i \in 2..d + 1 : RankInv(Levels[i])
           /\ \A i \in 1..d : InsideInv(Levels[i], Levels[i + 1])
           /\ \A i, j \in 1..d + 1 : i < j =>
                 /\ Levels[i].base <= Levels[j].start
                 /\ Levels[j].old # None => Levels[i].old <= Levels[j].old
<1>1. /\ d \in Nat /\ Count \in Nat /\ frames \in Seq(Frame)
      /\ Len(Levels) = d + 1 /\ Levels[d + 1] = Here /\ Here \in Frame
      /\ \A i \in 1..d : Levels[i] = frames[i] /\ frames[i] \in Frame
  BY LevelsFacts
<1>2. \A i \in 1..d + 1 : Levels[i] \in Frame
  <2>1. \A i \in 1..d + 1 : i \in 1..d \/ i = d + 1
    BY <1>1
  <2> QED
    BY <1>1, <2>1
<1>3. \A i \in 1..d + 1 :
         Levels[i].old \in Nat /\ Levels[i].start \in Nat /\ Levels[i].base \in Nat
  BY <1>2 DEF Frame
<1>4. /\ \A i \in 1..d + 1 : LevelInv(Levels[i])
      /\ \A i \in 2..d + 1 : RankInv(Levels[i])
      /\ \A i \in 1..d : InsideInv(Levels[i], Levels[i + 1])
      /\ \A i, j \in 1..d + 1 : i < j =>
            /\ Levels[i].base <= Levels[j].start
            /\ Levels[j].old # None => Levels[i].old <= Levels[j].old
  BY <1>1 DEF CallInv
<1> QED
  BY <1>1, <1>2, <1>3, <1>4

\* An item that has read nothing yet fits anywhere.
LEMMA FreshRank ==
    ASSUME Count \in Nat, NEW f, f.current = <<>>, f.start = f.base, f.base = Count
    PROVE  RankInv(f)
<1>1. Open(<<>>) /\ IsInjective(<<>>) /\ Range(<<>>) = {}
  BY DEF Open, IsInjective, Range
<1> QED
  BY <1>1 DEF RankInv

LEMMA BeginSequenceKeeps ==
    ASSUME BuilderInv, BeginSequence
    PROVE  BuilderInv'
<1>1. VectorsInv /\ GraphInv /\ DeclaredInv /\ StepsTypeInv /\ CallInv
      /\ UNCHANGED <<schedule, calls, declared, adding, last, trigger, earlier>>
  BY DEF BuilderInv, BeginSequence
<1>2. VectorsInv' /\ GraphInv' /\ DeclaredInv' /\ Count' = Count
  BY <1>1, SameGraph
<1>3. PICK d : d = Len(frames)
  OBVIOUS
<1>4. /\ d \in Nat /\ Count \in Nat /\ frames \in Seq(Frame)
      /\ Levels[d + 1] = Here /\ Here \in Frame
      /\ \A i \in 1..d : Levels[i] = frames[i] /\ frames[i] \in Frame
      /\ \A i \in 1..d + 1 :
            /\ Levels[i].old \in Nat /\ Levels[i].start \in Nat /\ Levels[i].base \in Nat
            /\ LevelInv(Levels[i])
      /\ \A i \in 2..d + 1 : RankInv(Levels[i])
      /\ \A i \in 1..d : InsideInv(Levels[i], Levels[i + 1])
      /\ \A i, j \in 1..d + 1 : i < j =>
            /\ Levels[i].base <= Levels[j].start
            /\ Levels[j].old # None => Levels[i].old <= Levels[j].old
  BY <1>1, <1>3, CallFacts
<1>5. frames' = Append(frames, Here) /\ current' = <<>> /\ start' = Count
  BY DEF BeginSequence, Here
<1>6. StepsTypeInv'
  <2>1. frames' \in Seq(Frame)
    BY <1>4, <1>5, AppendFacts
  <2>2. current' \in Seq(Nat)
    BY <1>5
  <2> QED
    BY <1>1, <1>4, <1>5, <2>1, <2>2 DEF StepsTypeInv
<1>7. Len(frames') = d + 1 /\ \A i \in 1..d + 1 : frames'[i] = Levels[i]
  <2>1. Len(frames') = d + 1 /\ frames'[d + 1] = Here /\ \A i \in 1..d : frames'[i] = frames[i]
    BY <1>3, <1>4, <1>5, AppendFacts
  <2>2. \A i \in 1..d + 1 : i \in 1..d \/ i = d + 1
    BY <1>4
  <2> QED
    BY <1>4, <2>1, <2>2
<1>8. PICK L : L = Levels'
  OBVIOUS
<1>9. PICK e : e = d + 1
  OBVIOUS
<1>10. Len(L) = e + 1 /\ L[e + 1] = Here' /\ \A i \in 1..e : L[i] = Levels[i]
  BY <1>2, <1>6, <1>7, <1>8, <1>9, LevelsNext
<1>11. /\ Here'.old = trigger /\ Here'.start = Count /\ Here'.base = Count
       /\ Here'.earlier = earlier /\ Here'.current = <<>>
       /\ Here.old = trigger /\ Here.base = Count /\ Here.earlier = earlier
  BY <1>1, <1>2, <1>5 DEF Here
<1>12. \A i \in 1..e + 1 : i \in 1..e \/ i = e + 1
  BY <1>4, <1>9
<1>13. \A i \in 1..e + 1 : LevelInv(L[i])
  <2>1. LevelInv(Here)
    BY <1>4
  <2>2. LevelInv(Here')
    BY <1>4, <1>11, <2>1 DEF LevelInv
  <2> QED
    BY <1>4, <1>9, <1>10, <1>12, <2>2
<1>14. \A i \in 2..e + 1 : RankInv(L[i])
  <2>1. RankInv(Here')
    BY <1>4, <1>11, FreshRank
  <2>2. \A i \in 2..e + 1 : (i \in 2..e /\ i \in 1..e) \/ i = e + 1
    BY <1>4, <1>9
  <2> QED
    BY <1>4, <1>9, <1>10, <2>1, <2>2
<1>15. \A i \in 1..e : InsideInv(L[i], L[i + 1])
  <2>1. Count + 1 .. Count = {}
    BY <1>4
  <2>2. InsideInv(Here, Here')
    BY <1>11, <2>1 DEF InsideInv
  <2>3. \A i \in 1..e : (i \in 1..d /\ i + 1 \in 1..e) \/ i = e
    BY <1>4, <1>9
  <2> QED
    BY <1>4, <1>9, <1>10, <2>2, <2>3
<1>16. \A i, j \in 1..e + 1 : i < j =>
          L[i].base <= L[j].start /\ (L[j].old # None => L[i].old <= L[j].old)
  <2> SUFFICES ASSUME NEW i \in 1..e + 1, NEW j \in 1..e + 1, i < j
               PROVE  L[i].base <= L[j].start /\ (L[j].old # None => L[i].old <= L[j].old)
    OBVIOUS
  <2>1. i \in 1..e /\ L[i] = Levels[i]
    BY <1>4, <1>9, <1>10
  <2>2. CASE j \in 1..e
    BY <1>4, <1>9, <1>10, <2>1, <2>2
  <2>3. CASE j = e + 1
    <3>1. L[j].start = Count /\ L[j].old = trigger
      BY <1>10, <1>11, <2>3
    <3>2. Levels[i].base <= Count
      BY <1>4, <1>9, <2>1 DEF LevelInv
    <3>3. CASE i = e
      BY <1>4, <1>9, <1>11, <2>1, <3>1, <3>2, <3>3
    <3>4. CASE i # e
      <4>1. i < d + 1 /\ d + 1 \in 1..d + 1
        BY <1>4, <1>9, <2>1, <3>4
      <4>2. Levels[d + 1].old # None => Levels[i].old <= Levels[d + 1].old
        BY <1>4, <1>9, <2>1, <4>1
      <4> QED
        BY <1>4, <1>11, <2>1, <3>1, <3>2, <4>2
    <3> QED
      BY <3>3, <3>4
  <2> QED
    BY <1>12, <2>2, <2>3
<1>17. LastInv'
  <2> SUFFICES ASSUME trigger = None
               PROVE  LastInv'
    BY <1>1 DEF LastInv
  <2>1. /\ Open(last) /\ IsInjective(last)
        /\ IF Count = 0 THEN last = <<>> ELSE Count \in Range(last)
        /\ Cover(Range(last)) = earlier
        /\ \A i \in 2..d : Range(frames[i].current) \cap Range(last) = {}
    BY <1>1, <1>3 DEF CallInv, LastInv
  <2>2. Open(last)'
    BY <1>1, <1>2, <2>1 DEF Open, Dep
  <2>3. Cover(Range(last))' = earlier
    <3>1. \A s : DeclaredBefore(s)' = DeclaredBefore(s)
      BY <1>1, <1>2 DEF DeclaredBefore
    <3> QED
      BY <1>1, <2>1, <3>1 DEF Cover
  <2>4. ASSUME NEW i \in 2..e
        PROVE  Range(frames'[i].current) \cap Range(last) = {}
    <3>1. i \in 1..d + 1 /\ frames'[i] = Levels[i]
      BY <1>4, <1>7, <1>9, <2>4
    <3>2. CASE i \in 1..d
      <4>1. i \in 2..d
        BY <2>4, <3>2
      <4> QED
        BY <1>4, <2>1, <3>1, <3>2, <4>1
    <3>3. CASE i = d + 1
      <4>1. RankInv(Here) /\ LevelInv(Here)
        BY <1>4, <1>9, <2>4, <3>3
      <4>2. start = Count
        BY <1>11, <4>1, <1>4 DEF LevelInv, Here
      <4>3. Range(current) \subseteq start + 1 .. Count
        BY <4>1 DEF RankInv, Here
      <4>4. Range(current) = {}
        BY <1>4, <4>2, <4>3
      <4>5. frames'[i].current = current
        BY <1>4, <3>1, <3>3 DEF Here
      <4> QED
        BY <4>4, <4>5
    <3> QED
      BY <1>4, <3>1, <3>2, <3>3
  <2> QED
    BY <1>1, <1>2, <1>7, <1>9, <2>1, <2>2, <2>3, <2>4 DEF LastInv
<1>18. CallInv'
  BY <1>1, <1>7, <1>8, <1>9, <1>10, <1>13, <1>14, <1>15, <1>16, <1>17, SameCall
<1> QED
  BY <1>1, <1>2, <1>6, <1>18 DEF BuilderInv, BeginSequence

\* The first trigger of a block, when the item read now has a trigger: all that
\* the block orders comes before its first trigger too.
FirstTrigger(f) == IF f.old = None THEN trigger ELSE f.old

LEMMA FirstTriggerFacts ==
    ASSUME VectorsInv, StepsTypeInv, CallInv, start < Count,
           NEW d, d = Len(frames), d > 0, NEW f, f = frames[d]
    PROVE  /\ FirstTrigger(f) \in Trigs /\ FirstTrigger(f) # None /\ FirstTrigger(f) \in Nat
           /\ DeclaredBefore(FirstTrigger(f)) = f.earlier /\ Outermost(FirstTrigger(f))
           /\ \A i \in 1..d - 1 : Levels[i].old <= FirstTrigger(f)
<1>1. /\ d \in Nat /\ Count \in Nat
      /\ Levels[d + 1] = Here
      /\ \A i \in 1..d : Levels[i] = frames[i]
      /\ \A i \in 1..d + 1 : Levels[i].old \in Nat /\ LevelInv(Levels[i])
      /\ \A i \in 1..d : InsideInv(Levels[i], Levels[i + 1])
      /\ \A i, j \in 1..d + 1 : i < j => (Levels[j].old # None => Levels[i].old <= Levels[j].old)
  BY CallFacts
<1>2. Levels[d] = f /\ d \in 1..d + 1 /\ d + 1 \in 1..d + 1 /\ d \in 1..d
  BY <1>1
<1>3. LevelInv(f) /\ LevelInv(Here) /\ InsideInv(f, Here)
  BY <1>1, <1>2
<1>4. /\ trigger \in Trigs /\ trigger # None
      /\ DeclaredBefore(trigger) = earlier /\ Outermost(trigger)
  BY <1>3 DEF LevelInv, Here
<1>5. CASE f.old # None
  <2>1. FirstTrigger(f) = f.old
    BY <1>5 DEF FirstTrigger
  <2>2. \A i \in 1..d - 1 : i \in 1..d + 1 /\ i < d
    BY <1>1
  <2>3. \A i \in 1..d - 1 : Levels[i].old <= Levels[d].old
    BY <1>1, <1>2, <1>5, <2>2
  <2> QED
    BY <1>1, <1>2, <1>3, <1>5, <2>1, <2>3 DEF LevelInv
<1>6. CASE f.old = None
  <2>1. FirstTrigger(f) = trigger
    BY <1>6 DEF FirstTrigger
  <2>2. start = f.base /\ earlier = f.earlier \cup (f.base + 1 .. start)
    BY <1>3, <1>6 DEF InsideInv, Here
  <2>3. start \in Nat /\ start + 1 .. start = {}
    BY DEF StepsTypeInv
  <2>4. earlier = f.earlier
    BY <2>2, <2>3
  <2>5. \A i \in 1..d - 1 : i \in 1..d + 1 /\ i < d + 1
    BY <1>1
  <2>6. Levels[d + 1].old = trigger
    BY <1>1 DEF Here
  <2>7. \A i \in 1..d - 1 : Levels[i].old <= Levels[d + 1].old
    BY <1>1, <1>2, <1>4, <2>5, <2>6
  <2>8. trigger \in Nat
    BY DEF StepsTypeInv
  <2> QED
    BY <1>4, <2>1, <2>4, <2>6, <2>7, <2>8
<1> QED
  BY <1>5, <1>6

\* What an item has read, and what it comes after, is what the item before it
\* had read, and what that came after, and more.
LEMMA NestedIntervals ==
    ASSUME NEW a \in Nat, NEW b \in Nat, NEW c \in Nat, a <= b, b <= c
    PROVE  (a + 1 .. b) \cup (b + 1 .. c) = a + 1 .. c
OBVIOUS

LEMMA NextItemKeeps ==
    ASSUME BuilderInv, NextItem
    PROVE  BuilderInv'
<1>1. VectorsInv /\ GraphInv /\ DeclaredInv /\ StepsTypeInv /\ CallInv
      /\ UNCHANGED <<schedule, calls, declared, adding>>
  BY DEF BuilderInv, NextItem
<1>2. VectorsInv' /\ GraphInv' /\ DeclaredInv' /\ Count' = Count
  BY <1>1, SameGraph
<1>3. PICK d : d = Len(frames)
  OBVIOUS
<1>4. /\ d \in Nat /\ Count \in Nat /\ frames \in Seq(Frame)
      /\ Levels[d + 1] = Here /\ Here \in Frame
      /\ \A i \in 1..d : Levels[i] = frames[i] /\ frames[i] \in Frame
      /\ \A i \in 1..d + 1 :
            /\ Levels[i].old \in Nat /\ Levels[i].start \in Nat /\ Levels[i].base \in Nat
            /\ LevelInv(Levels[i])
      /\ \A i \in 2..d + 1 : RankInv(Levels[i])
      /\ \A i \in 1..d : InsideInv(Levels[i], Levels[i + 1])
      /\ \A i, j \in 1..d + 1 : i < j =>
            /\ Levels[i].base <= Levels[j].start
            /\ Levels[j].old # None => Levels[i].old <= Levels[j].old
  BY <1>1, <1>3, CallFacts
<1>5. d > 0 /\ start \in Nat /\ start < Count
  BY <1>1, <1>3, <1>4 DEF NextItem, StepsTypeInv
<1>6. PICK f \in Frame : f = frames[d]
  BY <1>4, <1>5
<1>7. /\ f = Levels[d] /\ RankInv(Here) /\ LevelInv(f) /\ InsideInv(f, Here)
      /\ f.base <= start /\ f.base <= Count /\ f.base \in Nat
  <2>1. d \in 1..d + 1 /\ d + 1 \in 2..d + 1 /\ d \in 1..d /\ d + 1 \in 1..d + 1 /\ d < d + 1
    BY <1>4, <1>5
  <2>2. Here.start = start
    BY DEF Here
  <2>3. f = Levels[d] /\ RankInv(Here) /\ LevelInv(f) /\ InsideInv(f, Here) /\ f.base <= start
    BY <1>4, <1>6, <2>1, <2>2
  <2> QED
    BY <1>6, <2>3 DEF LevelInv, Frame
<1>8. /\ FirstTrigger(f) \in Trigs /\ FirstTrigger(f) # None /\ FirstTrigger(f) \in Nat
      /\ DeclaredBefore(FirstTrigger(f)) = f.earlier /\ Outermost(FirstTrigger(f))
      /\ \A i \in 1..d - 1 : Levels[i].old <= FirstTrigger(f)
  BY <1>1, <1>3, <1>5, <1>6, FirstTriggerFacts
<1>9. PICK g \in Frame : g = [f EXCEPT !.old = FirstTrigger(f)]
  BY <1>8 DEF Frame
<1>10. /\ g.old = FirstTrigger(f) /\ g.last = f.last /\ g.current = f.current
       /\ g.earlier = f.earlier /\ g.start = f.start /\ g.base = f.base
  BY <1>9 DEF Frame
<1>11. /\ frames' = [frames EXCEPT ![d] = g]
       /\ last' = current /\ current' = <<>> /\ trigger' = None
       /\ earlier' = earlier \cup (start + 1 .. Count) /\ start' = Count
  <2>1. frames' = [frames EXCEPT ![d].old = IF @ = None THEN trigger ELSE @]
    BY <1>3 DEF NextItem
  <2>2. frames' = [frames EXCEPT ![d] = [frames[d] EXCEPT !.old = IF @ = None THEN trigger ELSE @]]
    BY <2>1
  <2>3. [frames[d] EXCEPT !.old = IF @ = None THEN trigger ELSE @] = g
    BY <1>6, <1>9 DEF FirstTrigger, Frame
  <2> QED
    BY <2>2, <2>3 DEF NextItem
<1>12. /\ frames' \in Seq(Frame) /\ Len(frames') = d /\ frames'[d] = g
       /\ \A i \in 1..d - 1 : frames'[i] = frames[i]
  BY <1>3, <1>4, <1>5, <1>11
<1>13. StepsTypeInv'
  <2>1. earlier' \in SUBSET Nat
    <3>1. start + 1 .. Count \subseteq Nat
      BY <1>4, <1>5
    <3> QED
      BY <1>1, <1>11, <3>1 DEF StepsTypeInv
  <2>2. current' \in Seq(Nat)
    BY <1>11
  <2> QED
    BY <1>1, <1>4, <1>11, <1>12, <2>1, <2>2 DEF StepsTypeInv, None
<1>14. PICK L : L = Levels'
  OBVIOUS
<1>15. /\ Len(L) = d + 1 /\ L[d + 1] = Here' /\ L[d] = g
       /\ \A i \in 1..d - 1 : L[i] = Levels[i]
  <2>1. Len(L) = d + 1 /\ L[d + 1] = Here' /\ \A i \in 1..d : L[i] = frames'[i]
    BY <1>2, <1>12, <1>13, <1>14, LevelsNext
  <2>2. d \in 1..d /\ \A i \in 1..d - 1 : i \in 1..d
    BY <1>4, <1>5
  <2> QED
    BY <1>4, <1>12, <2>1, <2>2
<1>16. /\ Here'.old = None /\ Here'.start = Count /\ Here'.base = Count
       /\ Here'.earlier = earlier \cup (start + 1 .. Count) /\ Here'.current = <<>>
  BY <1>2, <1>11 DEF Here
<1>17. \A i \in 1..d + 1 : i \in 1..d - 1 \/ i = d \/ i = d + 1
  BY <1>4
<1>18. \A i \in 1..d + 1 : LevelInv(L[i])
  <2>1. LevelInv(g)
    BY <1>7, <1>8, <1>10 DEF LevelInv
  <2>2. LevelInv(Here')
    BY <1>4, <1>16 DEF LevelInv
  <2>3. \A i \in 1..d - 1 : i \in 1..d + 1
    BY <1>4
  <2> QED
    BY <1>4, <1>15, <1>17, <2>1, <2>2, <2>3
<1>19. \A i \in 2..d + 1 : RankInv(L[i])
  <2>1. RankInv(Here')
    BY <1>4, <1>16, FreshRank
  <2>2. 2 <= d => RankInv(g)
    <3>1. 2 <= d => d \in 2..d + 1
      BY <1>4
    <3>2. 2 <= d => RankInv(f)
      BY <1>4, <1>7, <3>1
    <3> QED
      BY <1>10, <3>2 DEF RankInv
  <2>3. \A i \in 2..d + 1 : i \in 1..d - 1 \/ (i = d /\ 2 <= d) \/ i = d + 1
    BY <1>4
  <2> QED
    BY <1>4, <1>15, <2>1, <2>2, <2>3
<1>20. \A i \in 1..d : InsideInv(L[i], L[i + 1])
  <2>1. InsideInv(g, Here')
    <3>1. (f.base + 1 .. start) \cup (start + 1 .. Count) = f.base + 1 .. Count
      BY <1>4, <1>5, <1>7, NestedIntervals
    <3>2. earlier = f.earlier \cup (f.base + 1 .. start)
      BY <1>7 DEF InsideInv, Here
    <3> QED
      BY <1>8, <1>10, <1>16, <3>1, <3>2 DEF InsideInv
  <2>2. ASSUME NEW i \in 1..d - 1
        PROVE  InsideInv(L[i], L[i + 1])
    <3>1. i \in 1..d /\ InsideInv(Levels[i], Levels[i + 1]) /\ L[i] = Levels[i]
      BY <1>4, <1>15
    <3>2. L[i + 1].earlier = Levels[i + 1].earlier /\ L[i + 1].start = Levels[i + 1].start
      <4>1. i + 1 \in 1..d - 1 \/ i + 1 = d
        BY <1>4
      <4> QED
        BY <1>7, <1>10, <1>15, <4>1
    <3> QED
      BY <3>1, <3>2 DEF InsideInv
  <2>3. \A i \in 1..d : i \in 1..d - 1 \/ i = d
    BY <1>4
  <2> QED
    BY <1>15, <2>1, <2>2, <2>3
<1>21. \A i, j \in 1..d + 1 : i < j =>
          L[i].base <= L[j].start /\ (L[j].old # None => L[i].old <= L[j].old)
  <2> SUFFICES ASSUME NEW i \in 1..d + 1, NEW j \in 1..d + 1, i < j
               PROVE  L[i].base <= L[j].start /\ (L[j].old # None => L[i].old <= L[j].old)
    OBVIOUS
  <2>1. CASE j = d + 1
    <3>1. L[j].start = Count /\ L[j].old = None
      BY <1>15, <1>16, <2>1
    <3>2. L[i].base <= Count
      <4>1. i \in 1..d - 1 \/ i = d
        BY <1>4, <2>1
      <4> QED
        BY <1>4, <1>7, <1>10, <1>15, <4>1 DEF LevelInv
    <3> QED
      BY <3>1, <3>2
  <2>2. CASE j = d
    <3>1. i \in 1..d - 1 /\ d \in 1..d + 1 /\ L[i] = Levels[i] /\ Levels[i].base <= Levels[d].start
      BY <1>4, <1>15, <2>2
    <3>2. L[j].start = Levels[d].start /\ L[j].old = FirstTrigger(f)
      BY <1>7, <1>10, <1>15, <2>2
    <3> QED
      BY <1>8, <3>1, <3>2
  <2>3. CASE j \in 1..d - 1
    <3>1. i \in 1..d - 1
      BY <1>4, <2>3
    <3> QED
      BY <1>4, <1>15, <2>3, <3>1
  <2> QED
    BY <1>17, <2>1, <2>2, <2>3
<1>22. LastInv'
  <2>1. /\ Open(current) /\ IsInjective(current) /\ Range(current) \subseteq start + 1 .. Count
        /\ Count \in Range(current)
        /\ Cover(Range(current)) = earlier \cup (start + 1 .. Count)
    BY <1>5, <1>7 DEF RankInv, Here
  <2>2. Open(last)'
    BY <1>1, <1>2, <1>11, <2>1 DEF Open, Dep
  <2>3. Cover(Range(last))' = earlier'
    <3>1. \A s : DeclaredBefore(s)' = DeclaredBefore(s)
      BY <1>1, <1>2 DEF DeclaredBefore
    <3> QED
      BY <1>11, <2>1, <3>1 DEF Cover
  <2>4. ASSUME NEW i \in 2..d
        PROVE  Range(frames'[i].current) \cap Range(current) = {}
    <3>1. i \in 2..d + 1 /\ i \in 1..d + 1 /\ i < d + 1 /\ d + 1 \in 1..d + 1 /\ Levels[i] = frames[i]
      BY <1>4
    <3>2. Levels[i].base <= start /\ Levels[i].base \in Nat /\ Levels[i].start \in Nat
      <4>1. Levels[i].base <= Levels[d + 1].start /\ Levels[d + 1].start = start
        BY <1>4, <3>1 DEF Here
      <4> QED
        BY <1>4, <3>1, <4>1
    <3>3. Range(frames[i].current) \subseteq Levels[i].start + 1 .. Levels[i].base
      BY <1>4, <3>1 DEF RankInv
    <3>4. frames'[i].current = frames[i].current
      <4>1. i \in 1..d - 1 \/ i = d
        BY <1>4
      <4> QED
        BY <1>6, <1>10, <1>12, <4>1
    <3>5. \A x \in Levels[i].start + 1 .. Levels[i].base : x \notin start + 1 .. Count
      BY <1>4, <1>5, <3>2
    <3> QED
      BY <2>1, <3>3, <3>4, <3>5
  <2>5. Count # 0
    BY <1>4, <1>5
  <2> QED
    BY <1>2, <1>11, <1>12, <2>1, <2>2, <2>3, <2>4, <2>5 DEF LastInv
<1>23. CallInv'
  BY <1>1, <1>12, <1>14, <1>15, <1>18, <1>19, <1>20, <1>21, <1>22, SameCall
<1> QED
  BY <1>1, <1>2, <1>13, <1>23 DEF BuilderInv, NextItem

\* Two ranks become one.
LEMMA ConcatFacts ==
    ASSUME NEW s \in Seq(Nat), NEW t \in Seq(Nat)
    PROVE  /\ s \o t \in Seq(Nat)
           /\ Range(s \o t) = Range(s) \cup Range(t)
           /\ (IsInjective(s) /\ IsInjective(t) /\ Range(s) \cap Range(t) = {}) => IsInjective(s \o t)
<1>1. /\ s \o t \in Seq(Nat) /\ Len(s \o t) = Len(s) + Len(t)
      /\ Len(s) \in Nat /\ Len(t) \in Nat
      /\ \A i \in 1..Len(s) : (s \o t)[i] = s[i]
      /\ \A i \in 1..Len(t) : (s \o t)[Len(s) + i] = t[i]
  OBVIOUS
<1>2. /\ Range(s) = {s[i] : i \in 1..Len(s)}
      /\ Range(t) = {t[i] : i \in 1..Len(t)}
      /\ Range(s \o t) = {(s \o t)[i] : i \in 1..Len(s \o t)}
  BY <1>1, RangeFacts
<1>3. \A i \in 1..Len(s) + Len(t) : i \in 1..Len(s) \/ \E j \in 1..Len(t) : i = Len(s) + j
  <2> SUFFICES ASSUME NEW i \in 1..Len(s) + Len(t), i \notin 1..Len(s)
               PROVE  \E j \in 1..Len(t) : i = Len(s) + j
    OBVIOUS
  <2>1. i - Len(s) \in 1..Len(t) /\ i = Len(s) + (i - Len(s))
    BY <1>1
  <2> QED
    BY <2>1
<1>4. \A x : x \in Range(s \o t) <=> x \in Range(s) \/ x \in Range(t)
  <2>1. ASSUME NEW x \in Range(s \o t)
        PROVE  x \in Range(s) \/ x \in Range(t)
    <3>1. PICK i \in 1..Len(s) + Len(t) : x = (s \o t)[i]
      BY <1>1, <1>2
    <3> QED
      BY <1>1, <1>2, <1>3, <3>1
  <2>2. \A i \in 1..Len(s) : i \in 1..Len(s \o t)
    BY <1>1
  <2>3. \A i \in 1..Len(t) : Len(s) + i \in 1..Len(s \o t)
    BY <1>1
  <2> QED
    BY <1>1, <1>2, <2>1, <2>2, <2>3
<1>5. ASSUME IsInjective(s), IsInjective(t), Range(s) \cap Range(t) = {},
             NEW i \in 1..Len(s) + Len(t), NEW j \in 1..Len(s) + Len(t),
             (s \o t)[i] = (s \o t)[j]
      PROVE  i = j
  <2>1. /\ \A a, b \in 1..Len(s) : s[a] = s[b] => a = b
        /\ \A a, b \in 1..Len(t) : t[a] = t[b] => a = b
    BY <1>5, SMTT(30) DEF IsInjective
  <2>2. \A a \in 1..Len(s), b \in 1..Len(t) : s[a] # t[b]
    BY <1>2, <1>5
  <2>3. CASE i \in 1..Len(s)
    <3>1. j \in 1..Len(s)
      BY <1>1, <1>3, <1>5, <2>2, <2>3
    <3> QED
      BY <1>1, <1>5, <2>1, <2>3, <3>1
  <2>4. CASE \E a \in 1..Len(t) : i = Len(s) + a
    <3>1. PICK a \in 1..Len(t) : i = Len(s) + a
      BY <2>4
    <3>2. PICK b \in 1..Len(t) : j = Len(s) + b
      BY <1>1, <1>3, <1>5, <2>2, <3>1
    <3>3. t[a] = t[b]
      BY <1>1, <1>5, <3>1, <3>2
    <3> QED
      BY <2>1, <3>1, <3>2, <3>3
  <2> QED
    BY <1>3, <2>3, <2>4
<1>6. DOMAIN (s \o t) = 1..Len(s) + Len(t)
  BY <1>1
<1>7. (IsInjective(s) /\ IsInjective(t) /\ Range(s) \cap Range(t) = {}) => IsInjective(s \o t)
  BY <1>5, <1>6 DEF IsInjective
<1> QED
  BY <1>1, <1>4, <1>7

\* The level that is left when an .order() ends has read its items too.
LEMMA MergedRank ==
    ASSUME Count \in Nat, NEW f \in Frame, NEW g \in Frame, NEW h \in Frame,
           RankInv(f), RankInv(g), InsideInv(f, g), g.base = Count, g.start < Count,
           f.start <= f.base, f.base <= g.start,
           h.current = f.current \o g.current, h.start = f.start, h.base = Count,
           h.earlier = f.earlier
    PROVE  RankInv(h)
<1>1. /\ f.current \in Seq(Nat) /\ g.current \in Seq(Nat)
      /\ f.start \in Nat /\ f.base \in Nat /\ g.start \in Nat
  BY DEF Frame
<1>2. /\ Open(f.current) /\ IsInjective(f.current)
      /\ Range(f.current) \subseteq f.start + 1 .. f.base
      /\ f.start < f.base =>
            Cover(Range(f.current)) = f.earlier \cup (f.start + 1 .. f.base)
  BY DEF RankInv
<1>3. /\ Open(g.current) /\ IsInjective(g.current)
      /\ Range(g.current) \subseteq g.start + 1 .. Count
      /\ Count \in Range(g.current)
      /\ Cover(Range(g.current)) = g.earlier \cup (g.start + 1 .. Count)
  BY DEF RankInv
<1>4. \A x \in f.start + 1 .. f.base : x \notin g.start + 1 .. Count
  BY <1>1
<1>5. /\ h.current \in Seq(Nat)
      /\ Range(h.current) = Range(f.current) \cup Range(g.current)
      /\ IsInjective(h.current)
  <2>1. Range(f.current) \cap Range(g.current) = {}
    BY <1>2, <1>3, <1>4
  <2> QED
    BY <1>1, <1>2, <1>3, <2>1, ConcatFacts
<1>6. Open(h.current)
  <2>1. \A x \in Range(f.current) \cup Range(g.current) : x \in 1..Count /\ Dep[x] = <<>>
    <3>1. Range(f.current) = {f.current[i] : i \in 1..Len(f.current)}
      BY <1>1, RangeFacts
    <3>2. Range(g.current) = {g.current[i] : i \in 1..Len(g.current)}
      BY <1>1, RangeFacts
    <3> QED
      BY <1>2, <1>3, <3>1, <3>2 DEF Open
  <2>2. \A i \in 1..Len(h.current) : h.current[i] \in Range(h.current)
    <3>1. Range(h.current) = {h.current[i] : i \in 1..Len(h.current)}
      BY <1>5, RangeFacts
    <3> QED
      BY <3>1
  <2> QED
    BY <1>5, <2>1, <2>2 DEF Open
<1>7. Range(h.current) \subseteq h.start + 1 .. h.base
  <2>1. f.start + 1 .. f.base \subseteq f.start + 1 .. Count
    BY <1>1
  <2>2. g.start + 1 .. Count \subseteq f.start + 1 .. Count
    BY <1>1
  <2> QED
    BY <1>2, <1>3, <1>5, <2>1, <2>2
<1>8. Cover(Range(h.current)) = h.earlier \cup (h.start + 1 .. h.base)
  <2>1. Cover(Range(h.current)) = Cover(Range(f.current)) \cup Cover(Range(g.current))
    BY <1>5 DEF Cover
  <2>2. g.earlier = f.earlier \cup (f.base + 1 .. g.start)
    BY DEF InsideInv
  <2>3. (f.base + 1 .. g.start) \cup (g.start + 1 .. Count) = f.base + 1 .. Count
    BY <1>1
  <2>4. (f.start + 1 .. f.base) \cup (f.base + 1 .. Count) = f.start + 1 .. Count
    BY <1>1
  <2>5. CASE f.start < f.base
    BY <1>2, <1>3, <2>1, <2>2, <2>3, <2>4, <2>5
  <2>6. CASE f.start = f.base
    <3>1. f.start + 1 .. f.base = {}
      BY <1>1, <2>6
    <3>2. Cover(Range(f.current)) = {}
      BY <1>2, <3>1 DEF Cover
    <3> QED
      BY <1>3, <2>1, <2>2, <2>3, <2>4, <3>1, <3>2
  <2> QED
    BY <1>1, <2>5, <2>6
<1> QED
  BY <1>3, <1>5, <1>6, <1>7, <1>8 DEF RankInv

LEMMA EndSequenceKeeps ==
    ASSUME BuilderInv, EndSequence
    PROVE  BuilderInv'
<1>1. VectorsInv /\ GraphInv /\ DeclaredInv /\ StepsTypeInv /\ CallInv
      /\ UNCHANGED <<schedule, calls, declared, adding>>
  BY DEF BuilderInv, EndSequence
<1>2. VectorsInv' /\ GraphInv' /\ DeclaredInv' /\ Count' = Count
  BY <1>1, SameGraph
<1>3. PICK d : d = Len(frames)
  OBVIOUS
<1>4. /\ d \in Nat /\ Count \in Nat /\ frames \in Seq(Frame)
      /\ Levels[d + 1] = Here /\ Here \in Frame
      /\ \A i \in 1..d : Levels[i] = frames[i] /\ frames[i] \in Frame
      /\ \A i \in 1..d + 1 :
            /\ Levels[i].old \in Nat /\ Levels[i].start \in Nat /\ Levels[i].base \in Nat
            /\ LevelInv(Levels[i])
      /\ \A i \in 2..d + 1 : RankInv(Levels[i])
      /\ \A i \in 1..d : InsideInv(Levels[i], Levels[i + 1])
      /\ \A i, j \in 1..d + 1 : i < j =>
            /\ Levels[i].base <= Levels[j].start
            /\ Levels[j].old # None => Levels[i].old <= Levels[j].old
  BY <1>1, <1>3, CallFacts
<1>5. d > 0 /\ start \in Nat /\ start < Count
  BY <1>1, <1>3, <1>4 DEF EndSequence, StepsTypeInv
<1>6. PICK f \in Frame : f = frames[d]
  BY <1>4, <1>5
<1>7. /\ f = Levels[d] /\ RankInv(Here) /\ LevelInv(f) /\ InsideInv(f, Here)
      /\ f.base <= start /\ f.start <= f.base
      /\ f.base \in Nat /\ f.start \in Nat /\ f.last \in Seq(Nat) /\ f.current \in Seq(Nat)
      /\ f.earlier \in SUBSET Nat
  <2>1. d \in 1..d + 1 /\ d + 1 \in 2..d + 1 /\ d \in 1..d /\ d + 1 \in 1..d + 1 /\ d < d + 1
    BY <1>4, <1>5
  <2>2. Here.start = start
    BY DEF Here
  <2>3. f = Levels[d] /\ RankInv(Here) /\ LevelInv(f) /\ InsideInv(f, Here) /\ f.base <= start
    BY <1>4, <1>6, <2>1, <2>2
  <2> QED
    BY <1>6, <2>3 DEF LevelInv, Frame
<1>8. /\ FirstTrigger(f) \in Trigs /\ FirstTrigger(f) # None /\ FirstTrigger(f) \in Nat
      /\ DeclaredBefore(FirstTrigger(f)) = f.earlier /\ Outermost(FirstTrigger(f))
      /\ \A i \in 1..d - 1 : Levels[i].old <= FirstTrigger(f)
  BY <1>1, <1>3, <1>5, <1>6, FirstTriggerFacts
<1>9. /\ trigger' = FirstTrigger(f) /\ current' = f.current \o current
      /\ last' = f.last /\ earlier' = f.earlier /\ start' = f.start
      /\ frames' = Front(frames)
  <2>1. Last(frames) = f
    BY <1>3, <1>6 DEF Last
  <2> QED
    BY <2>1 DEF EndSequence, FirstTrigger
<1>10. /\ frames' \in Seq(Frame) /\ Len(frames') = d - 1
       /\ \A i \in 1..d - 1 : frames'[i] = frames[i]
  BY <1>3, <1>4, <1>5, <1>9 DEF Front
<1>11. StepsTypeInv'
  <2>1. current' \in Seq(Nat)
    <3>1. current \in Seq(Nat)
      BY <1>1 DEF StepsTypeInv
    <3> QED
      BY <1>7, <1>9, <3>1, ConcatFacts
  <2> QED
    BY <1>1, <1>7, <1>8, <1>9, <1>10, <2>1 DEF StepsTypeInv
<1>12. PICK L : L = Levels'
  OBVIOUS
<1>13. PICK e : e = d - 1
  OBVIOUS
<1>14. e \in Nat /\ e + 1 = d
  BY <1>4, <1>5, <1>13
<1>15. Len(L) = e + 1 /\ L[e + 1] = Here' /\ \A i \in 1..e : L[i] = Levels[i]
  <2>1. Len(L) = e + 1 /\ L[e + 1] = Here' /\ \A i \in 1..e : L[i] = frames'[i]
    BY <1>2, <1>10, <1>11, <1>12, <1>13, LevelsNext
  <2>2. \A i \in 1..e : i \in 1..d
    BY <1>14
  <2> QED
    BY <1>4, <1>10, <1>13, <2>1, <2>2
<1>16. /\ Here'.old = FirstTrigger(f) /\ Here'.start = f.start /\ Here'.base = Count
       /\ Here'.earlier = f.earlier /\ Here'.current = f.current \o Here.current
       /\ Here.base = Count /\ Here.start = start /\ Here' \in Frame
  <2>1. Here' \in Frame
    BY <1>2, <1>11, LevelsNext
  <2> QED
    BY <1>2, <1>9, <2>1 DEF Here
<1>17. \A i \in 1..e + 1 : i \in 1..e \/ i = e + 1
  BY <1>14
<1>18. \A i \in 1..e + 1 : LevelInv(L[i])
  <2>1. LevelInv(Here')
    BY <1>4, <1>5, <1>7, <1>8, <1>16 DEF LevelInv
  <2>2. \A i \in 1..e : i \in 1..d + 1
    BY <1>14
  <2> QED
    BY <1>4, <1>15, <1>17, <2>1, <2>2
<1>19. \A i \in 2..e + 1 : RankInv(L[i])
  <2>1. ASSUME 2 <= d
        PROVE  RankInv(Here')
    <3>1. RankInv(f)
      <4>1. d \in 2..d + 1
        BY <1>4, <2>1
      <4> QED
        BY <1>4, <1>7, <4>1
    <3> HIDE DEF Here
    <3> QED
      BY <1>4, <1>5, <1>6, <1>7, <1>16, <3>1, MergedRank
  <2>2. \A i \in 2..e + 1 : (i \in 1..e /\ i \in 2..d + 1) \/ (i = e + 1 /\ 2 <= d)
    BY <1>14
  <2> QED
    BY <1>4, <1>15, <2>1, <2>2
<1>20. \A i \in 1..e : InsideInv(L[i], L[i + 1])
  <2> SUFFICES ASSUME NEW i \in 1..e
               PROVE  InsideInv(L[i], L[i + 1])
    OBVIOUS
  <2>1. i \in 1..d /\ InsideInv(Levels[i], Levels[i + 1]) /\ L[i] = Levels[i]
    BY <1>4, <1>14, <1>15
  <2>2. L[i + 1].earlier = Levels[i + 1].earlier /\ L[i + 1].start = Levels[i + 1].start
    <3>1. i + 1 \in 1..e \/ i + 1 = e + 1
      BY <1>14
    <3> QED
      BY <1>7, <1>14, <1>15, <1>16, <3>1
  <2> QED
    BY <2>1, <2>2 DEF InsideInv
<1>21. \A i, j \in 1..e + 1 : i < j =>
          L[i].base <= L[j].start /\ (L[j].old # None => L[i].old <= L[j].old)
  <2> SUFFICES ASSUME NEW i \in 1..e + 1, NEW j \in 1..e + 1, i < j
               PROVE  L[i].base <= L[j].start /\ (L[j].old # None => L[i].old <= L[j].old)
    OBVIOUS
  <2>0. i \in 1..e /\ i \in 1..d + 1 /\ j \in 1..d + 1
    BY <1>14
  <2>1. L[i] = Levels[i] /\ Levels[i].base <= Levels[j].start
        /\ (Levels[j].old # None => Levels[i].old <= Levels[j].old)
    BY <1>4, <1>15, <2>0
  <2>2. CASE j \in 1..e
    BY <1>15, <2>1, <2>2
  <2>3. CASE j = e + 1
    <3>1. L[j].start = f.start /\ L[j].old = FirstTrigger(f) /\ Levels[j] = f
      BY <1>7, <1>14, <1>15, <1>16, <2>3
    <3> QED
      BY <1>8, <1>13, <2>0, <2>1, <3>1
  <2> QED
    BY <1>17, <2>2, <2>3
<1>22. LastInv'
  BY <1>8, <1>9 DEF LastInv
<1>23. CallInv'
  BY <1>1, <1>10, <1>12, <1>13, <1>15, <1>18, <1>19, <1>20, <1>21, <1>22, SameCall
<1> QED
  BY <1>1, <1>2, <1>11, <1>23 DEF BuilderInv, EndSequence

LEMMA EndCallKeeps ==
    ASSUME BuilderInv, EndCall
    PROVE  BuilderInv'
<1>1. VectorsInv /\ GraphInv /\ DeclaredInv /\ StepsTypeInv
      /\ UNCHANGED <<schedule, calls, declared, frames>> /\ frames = <<>> /\ adding' = FALSE
  BY DEF BuilderInv, EndCall
<1>2. VectorsInv' /\ GraphInv' /\ DeclaredInv'
  BY <1>1, SameGraph
<1>3. StepsTypeInv'
  <2>1. /\ calls' = calls /\ adding' = FALSE /\ last' = <<>> /\ current' = <<>> /\ trigger' = 0
        /\ earlier' = {} /\ start' = 0 /\ frames' = frames
    BY <1>1 DEF EndCall, None
  <2>2. <<>> \in Seq(Nat)
    OBVIOUS
  <2> QED
    BY <1>1, <2>1, <2>2 DEF StepsTypeInv
<1> QED
  BY <1>1, <1>2, <1>3 DEF BuilderInv

LEMMA ReadSystemKeeps ==
    ASSUME BuilderInv, ReadSystem
    PROVE  BuilderInv'
<1>1. PICK k : k = Count + 1
  OBVIOUS
<1>2. EdgesInv' /\ BatchInv' /\ GateInv' /\ NestedInv' /\ DeclaredInv'
  BY <1>1, ReadKeepsEdges, ReadKeepsBatches, ReadKeepsGates, ReadKeepsNesting, ReadKeepsDeclared
<1>3. StepsTypeInv' /\ VectorsInv' /\ CallInv'
  BY ReadKeepsTypes, ReadKeepsCall
<1>4. adding' = TRUE
  BY DEF ReadSystem, BuilderInv, StepsTypeInv
<1> QED
  BY <1>2, <1>3, <1>4 DEF BuilderInv, GraphInv

LEMMA BuilderInitInv ==
    ASSUME StepsInit
    PROVE  BuilderInv
<1>1. /\ schedule = NewSchedule /\ declared = {} /\ calls = 0 /\ adding = FALSE
      /\ last = <<>> /\ current = <<>> /\ trigger = None /\ frames = <<>>
      /\ earlier = {} /\ start = 0
  BY DEF StepsInit, BuilderInit
<1>2. Count = 0 /\ 1..Count = {} /\ Trigs = {}
  BY <1>1 DEF Count, NewSchedule, Trigs
<1>3. VectorsInv
  BY <1>1, <1>2 DEF VectorsInv, Schedules, NewSchedule, Dep, Asc, None
<1>4. GraphInv
  BY <1>2 DEF GraphInv, EdgesInv, BatchInv, GateInv, NestedInv
<1>5. DeclaredInv
  BY <1>1, <1>2 DEF DeclaredInv
<1>6. StepsTypeInv
  <2>1. <<>> \in Seq(Nat) /\ <<>> \in Seq(Frame)
    OBVIOUS
  <2>2. trigger = 0 /\ 0 \in 0..MaxCalls
    BY <1>1, BoundsAssumption DEF None
  <2> QED
    <3>1. calls \in 0..MaxCalls /\ trigger \in Nat /\ start \in Nat
      BY <1>1, <2>2
    <3>4. adding \in BOOLEAN
      BY <1>1, Zenon
    <3>2. last \in Seq(Nat) /\ current \in Seq(Nat) /\ frames \in Seq(Frame)
      BY <1>1, <2>1, Zenon
    <3>3. earlier \in SUBSET Nat
      BY <1>1
    <3> QED
      BY <3>1, <3>2, <3>3, <3>4 DEF StepsTypeInv
<1> QED
  BY <1>1, <1>3, <1>4, <1>5, <1>6 DEF BuilderInv

LEMMA BuilderNextInv ==
    ASSUME BuilderInv, [StepsNext]_<<builderVars, stepVars>>
    PROVE  BuilderInv'
<1>1. CASE StepsNext
  BY <1>1, BeginCallKeeps, ReadSystemKeeps, BeginSequenceKeeps, NextItemKeeps, EndSequenceKeeps,
     EndCallKeeps DEF StepsNext
<1>2. CASE UNCHANGED <<builderVars, stepVars>>
  <2>1. UNCHANGED <<schedule, calls, declared, adding, last, current, trigger, frames, earlier, start>>
    BY <1>2 DEF builderVars, stepVars
  <2>2. VectorsInv' /\ GraphInv' /\ DeclaredInv' /\ Count' = Count
    BY <2>1, SameGraph DEF BuilderInv
  <2>3. StepsTypeInv'
    BY <2>1 DEF BuilderInv, StepsTypeInv
  <2>4. ASSUME CallInv
        PROVE  CallInv'
    <3>1. LastInv'
      <4>1. \A s : DeclaredBefore(s)' = DeclaredBefore(s)
        BY <2>1 DEF DeclaredBefore, Count
      <4>2. Cover(Range(last))' = Cover(Range(last))
        BY <2>1, <4>1 DEF Cover
      <4>3. Open(last) => Open(last)'
        BY <2>1 DEF Open, Count, Dep
      <4> QED
        BY <2>1, <2>2, <2>4, <4>2, <4>3 DEF CallInv, LastInv
    <3>2. PICK L : L = Levels'
      OBVIOUS
    <3>3. Levels = L
      BY <2>1, <2>2, <3>2 DEF Levels, Here
    <3>4. PICK d : d = Len(frames')
      OBVIOUS
    <3>5. Len(frames) = d /\ Len(L) = d + 1
      BY <2>1, <3>3, <3>4, LevelsFacts DEF BuilderInv
    <3> QED
      BY <2>1, <2>4, <3>1, <3>2, <3>3, <3>4, <3>5, SameCall DEF CallInv
  <2> QED
    BY <2>1, <2>2, <2>3, <2>4 DEF BuilderInv
<1> QED
  BY <1>1, <1>2

LEMMA BuilderInvariant == StepsSpec => []BuilderInv
<1>1. StepsInit => BuilderInv
  BY BuilderInitInv
<1>2. BuilderInv /\ [StepsNext]_<<builderVars, stepVars>> => BuilderInv'
  BY BuilderNextInv
<1> QED
  BY <1>1, <1>2, PTL DEF StepsSpec

-----------------------------------------------------------------------------
(* What the invariant says of the graph in DepGraph's words. *)

LEMMA KeysFacts ==
    ASSUME VectorsInv
    PROVE  /\ Count \in Nat /\ Keys = 1..Count
           /\ Cnt \in Seq(Nat) /\ schedule.dependency_gate \in Seq(Nat)
           /\ DOMAIN Cnt = Keys /\ DOMAIN schedule.dependency_gate = Keys
           /\ DOMAIN Dep = Keys /\ DOMAIN Asc = Keys
           /\ \A s \in Keys : Dep[s] \in Seq(Nat) /\ Asc[s] \in Seq(Nat)
           /\ \A s \in Keys : Cnt[s] \in Nat /\ schedule.dependency_gate[s] \in Nat
           /\ schedule.root = IF Count = 0 THEN None ELSE 1
<1>1. /\ Cnt \in Seq(Nat) /\ schedule.dependency_gate \in Seq(Nat)
      /\ Dep \in Seq(Seq(Nat)) /\ Asc \in Seq(Seq(Nat))
      /\ Len(Cnt) = Count /\ Len(schedule.dependency_gate) = Count
      /\ Len(Dep) = Count /\ Len(Asc) = Count
      /\ schedule.root = IF Count = 0 THEN None ELSE 1
  BY DEF VectorsInv, Schedules, Cnt, Dep, Asc, Count
<1>2. Keys = DOMAIN Cnt
  BY DEF Keys, Cnt
<1>3. Count \in Nat /\ Keys = 1..Count
  BY <1>1, <1>2
<1>4. DOMAIN Dep = 1..Count /\ DOMAIN Asc = 1..Count
      /\ DOMAIN schedule.dependency_gate = 1..Count
  BY <1>1
<1>5. \A s \in 1..Count : Dep[s] \in Seq(Nat) /\ Asc[s] \in Seq(Nat)
  BY <1>1
<1>6. \A s \in 1..Count : Cnt[s] \in Nat /\ schedule.dependency_gate[s] \in Nat
  <2>1. \A q \in Seq(Nat) : Len(q) = Count => \A s \in 1..Count : q[s] \in Nat
    OBVIOUS
  <2> QED
    BY <1>1, <2>1
<1> QED
  BY <1>1, <1>2, <1>3, <1>4, <1>5, <1>6

\* DepGraph's names for what the invariant speaks of.
LEMMA GraphNames ==
    ASSUME VectorsInv, EdgesInv, Count # 0
    PROVE  /\ schedule.root = 1
           /\ G!Triggers = Trigs
           /\ \A t : G!Preds(t) = Opens(t) /\ G!Batch(t) = Members(t)
<1>1. Count \in Nat /\ Keys = 1..Count /\ schedule.root = 1
  BY KeysFacts
<1>2. \A t : G!Preds(t) = Opens(t) /\ G!Batch(t) = Members(t)
  BY <1>1 DEF G!Preds, G!Batch, Opens, Members, Dep, Asc, G!Range, Range
<1>3. \A s \in 1..Count : Range(Dep[s]) \subseteq 1..Count
  <2>1. \A s \in 1..Count : Range(Dep[s]) \subseteq s + 1 .. Count
    BY DEF EdgesInv
  <2>2. \A s \in 1..Count : s + 1 .. Count \subseteq 1..Count
    BY <1>1
  <2> QED
    BY <2>1, <2>2
<1>4. \A t : t \in G!Triggers <=> t = 1 \/ \E s \in 1..Count : t \in Range(Dep[s])
  BY <1>1 DEF G!Triggers, Dep, G!Range, Range
<1>5. \A t : t \in G!Triggers <=> t \in Trigs
  BY <1>1, <1>3, <1>4 DEF Trigs
<1> QED
  BY <1>1, <1>2, <1>5

LEMMA BuilderInvWellFormed ==
    ASSUME VectorsInv, GraphInv
    PROVE  WellFormed
<1> SUFFICES ASSUME Keys # {}
             PROVE  G!GraphOK
  BY DEF WellFormed
<1>1. /\ Count \in Nat /\ Keys = 1..Count /\ Count # 0
      /\ Cnt \in Seq(Nat) /\ DOMAIN Cnt = Keys /\ DOMAIN Dep = Keys /\ DOMAIN Asc = Keys
      /\ \A s \in Keys : Dep[s] \in Seq(Nat) /\ Asc[s] \in Seq(Nat)
  BY KeysFacts
<1>2. EdgesInv /\ BatchInv /\ GateInv
  BY DEF GraphInv
<1>3. /\ schedule.root = 1 /\ G!Triggers = Trigs
      /\ \A t : G!Preds(t) = Opens(t) /\ G!Batch(t) = Members(t)
  BY <1>1, <1>2, GraphNames
<1>4. /\ Trigs \subseteq 1..Count
      /\ \A t \in 1..Count :
            /\ Members(t) \subseteq 1..Count /\ t \in Members(t)
            /\ Opens(t) \subseteq 1..Count
            /\ \A p \in Opens(t) : p < t
            /\ \A y \in Range(Asc[t]) : y \in 1..Count /\ t < y
  BY <1>1, <1>2, GraphKeys
<1>5. IsFiniteSet(Keys)
  BY <1>1, FS_Interval
<1>6. Cnt \in [Keys -> Nat]
  <2>1. Cnt \in [DOMAIN Cnt -> Nat]
    BY <1>1
  <2> QED
    BY <1>1, <2>1
<1>7. ASSUME NEW s \in Keys
      PROVE  /\ Dep[s] \in Seq(Keys) /\ IsInjective(Dep[s]) /\ Len(Dep[s]) <= 1
             /\ Asc[s] \in Seq(Keys) /\ IsInjective(Asc[s])
  <2>1. Dep[s] \in Seq(Nat) /\ Asc[s] \in Seq(Nat)
    BY <1>1
  <2>2. /\ Len(Dep[s]) <= 1
        /\ \A i, j \in 1..Len(Asc[s]) : i < j => Asc[s][i] < Asc[s][j]
    BY <1>1, <1>2 DEF EdgesInv
  <2>3. Range(Dep[s]) \subseteq Keys
    <3>1. Range(Dep[s]) \subseteq s + 1 .. Count /\ s + 1 .. Count \subseteq 1..Count
      BY <1>1, <1>2 DEF EdgesInv
    <3> QED
      BY <1>1, <3>1
  <2>4. Range(Asc[s]) \subseteq Keys
    BY <1>1, <1>4
  <2>5. \A q \in Seq(Nat) : Range(q) \subseteq Keys => q \in Seq(Keys)
    <3> SUFFICES ASSUME NEW q \in Seq(Nat), Range(q) \subseteq Keys
                 PROVE  q \in Seq(Keys)
      OBVIOUS
    <3>1. Len(q) \in Nat /\ q \in [1..Len(q) -> Nat] /\ Range(q) = {q[i] : i \in 1..Len(q)}
      BY RangeFacts
    <3>2. q \in [1..Len(q) -> Keys]
      BY <3>1
    <3> QED
      BY <3>1, <3>2, FunctionIsSeq
  <2>6. IsInjective(Dep[s])
    <3>1. DOMAIN Dep[s] = 1..Len(Dep[s]) /\ Len(Dep[s]) \in Nat
      BY <2>1
    <3>2. \A i, j \in 1..Len(Dep[s]) : i = j
      BY <2>2, <3>1
    <3> QED
      BY <3>1, <3>2 DEF IsInjective
  <2>7. IsInjective(Asc[s])
    <3>1. DOMAIN Asc[s] = 1..Len(Asc[s]) /\ Len(Asc[s]) \in Nat
          /\ \A i \in 1..Len(Asc[s]) : Asc[s][i] \in Nat
      BY <2>1
    <3>2. \A i, j \in 1..Len(Asc[s]) : Asc[s][i] = Asc[s][j] => i = j
      BY <2>2, <3>1
    <3> QED
      BY <3>1, <3>2 DEF IsInjective
  <2> QED
    BY <2>1, <2>2, <2>3, <2>4, <2>5, <2>6, <2>7
<1>8. G!EdgesOK
  <2>1. Dep \in [Keys -> Seq(Keys)] /\ Asc \in [Keys -> Seq(Keys)]
    <3>1. Dep \in Seq(Seq(Nat)) /\ Asc \in Seq(Seq(Nat))
      BY DEF VectorsInv, Schedules, Dep, Asc
    <3> QED
      BY <1>1, <1>7, <3>1
  <2>2. \A f : G!IsInjective(f) <=> IsInjective(f)
    BY DEF G!IsInjective, IsInjective
  <2>3. schedule.root \in Keys
    BY <1>1, <1>3
  <2>4. \A s \in Keys : G!IsInjective(Dep[s]) /\ G!IsInjective(Asc[s])
    BY <1>7, <2>2
  <2> QED
    BY <2>1, <2>3, <2>4 DEF G!EdgesOK, Dep, Asc
<1>9. G!BatchesOK
  <2>1. \A s \in Keys : \E t \in Trigs : s \in Members(t)
    BY <1>1, <1>2 DEF BatchInv
  <2>2. \A t, u \in Trigs : t # u => Members(t) \cap Members(u) = {}
    BY <1>2 DEF BatchInv
  <2>3. \A t \in Trigs : t \notin Range(Asc[t])
    BY <1>1, <1>4
  <2> QED
    BY <1>3, <2>1, <2>2, <2>3 DEF G!BatchesOK, Asc, G!Range, Range
<1>10. G!CountsOK
  <2>1. Opens(1) = {}
    <3>1. \A p \in Opens(1) : p < 1 /\ p \in 1..Count
      BY <1>1, <1>4
    <3> QED
      BY <1>1, <3>1
  <2>2. ASSUME NEW t \in Trigs \ {1}
        PROVE  Cnt[t] = Cardinality(Opens(t)) /\ Cnt[t] > 0
    <3>1. t - 1 \in Opens(t) /\ Cnt[t] = Cardinality(Opens(t))
      BY <1>2 DEF GateInv
    <3>2. IsFiniteSet(Opens(t))
      <4>1. Opens(t) \subseteq Keys
        BY <1>1, <1>4
      <4> QED
        BY <1>5, <4>1, FS_Subset
    <3>3. Cardinality(Opens(t)) \in Nat /\ Cardinality(Opens(t)) # 0
      BY <3>1, <3>2, FS_CardinalityType, FS_EmptySet
    <3> QED
      BY <3>1, <3>3
  <2> QED
    <3>1. \A S : G!Cardinality(S) = Cardinality(S)
      BY DEF G!Cardinality, Cardinality
    <3> QED
      BY <1>3, <2>1, <2>2, <3>1 DEF G!CountsOK, Cnt
<1>11. G!OneDependent
  BY <1>7 DEF G!OneDependent, Dep
<1> QED
  BY <1>5, <1>6, <1>8, <1>9, <1>10, <1>11 DEF G!GraphOK, Cnt, G!IsFiniteSet, IsFiniteSet

\* A set of numbers has a least one.
Less == {p \in Nat \X Nat : p[1] < p[2]}

LEMMA LeastNumber ==
    ASSUME NEW S, S \subseteq Nat, S # {}
    PROVE  \E x \in S : \A y \in S : x <= y
<1>1. IsWellFoundedOn(Less, Nat)
  BY NatLessThanWellFounded DEF OpToRel, Less
<1>2. PICK x \in S : \A y \in S : ~(<<y, x>> \in Less)
  BY <1>1, WFMin
<1>3. \A m, n \in Nat : ~(<<n, m>> \in Less) => m <= n
  BY DEF Less
<1> QED
  BY <1>2, <1>3

\* What the graph makes wait, directly or not, is what the plans say.
LEMMA AncestorsDeclared ==
    ASSUME VectorsInv, GraphInv, DeclaredInv, Count # 0
    PROVE  \A s \in Keys : Ancestors[s] = DeclaredBefore(s)
<1>1. Count \in Nat /\ Keys = 1..Count
  BY KeysFacts
<1>2. EdgesInv /\ BatchInv
  BY DEF GraphInv
<1>3. /\ G!Triggers = Trigs
      /\ \A t : G!Preds(t) = Opens(t) /\ G!Batch(t) = Members(t)
  BY <1>2, GraphNames
<1>4. /\ Trigs \subseteq 1..Count
      /\ \A t \in 1..Count :
            /\ Members(t) \subseteq 1..Count
            /\ Opens(t) \subseteq 1..Count
            /\ \A p \in Opens(t) : p < t
            /\ \A y \in Range(Asc[t]) : y \in 1..Count /\ t < y
  BY <1>1, <1>2, GraphKeys
<1>5. ASSUME NEW s \in Keys
      PROVE  /\ G!Before[s] \subseteq Keys
             /\ \A p \in G!Before[s] : p < s
             /\ DeclaredBefore(s) = G!Before[s] \cup UNION {DeclaredBefore(p) : p \in G!Before[s]}
  <2>1. PICK t \in Trigs : s \in Members(t)
    BY <1>1, <1>2 DEF BatchInv
  <2>2. {u \in Trigs : s \in Members(u)} = {t}
    BY <1>2, <2>1 DEF BatchInv
  <2>3. G!Before[s] = UNION {G!Preds(u) : u \in {v \in G!Triggers : s \in G!Batch(v)}}
    BY DEF G!Before
  <2>4. {v \in G!Triggers : s \in G!Batch(v)} = {t}
    BY <1>3, <2>2
  <2>5. G!Before[s] = Opens(t)
    BY <1>3, <2>3, <2>4
  <2>6. t \in 1..Count /\ t <= s
    <3>1. t \in 1..Count /\ (s = t \/ s \in Range(Asc[t]))
      BY <1>4, <2>1 DEF Members
    <3> QED
      BY <1>1, <1>4, <3>1
  <2>7. Opens(t) \subseteq 1..Count /\ \A p \in Opens(t) : p < s
    BY <1>1, <1>4, <2>6
  <2>8. DeclaredBefore(s) = Cover(Opens(t))
    BY <2>1 DEF DeclaredInv
  <2> QED
    BY <1>1, <2>5, <2>7, <2>8 DEF Cover
<1> DEFINE Fix(f) == f = [s \in Keys |-> G!Before[s] \cup UNION {f[p] : p \in G!Before[s]}]
<1> DEFINE D == [s \in Keys |-> DeclaredBefore(s)]
<1>6. Fix(D)
  <2>1. \A s \in Keys : D[s] = DeclaredBefore(s)
    OBVIOUS
  <2>2. \A s \in Keys : {D[p] : p \in G!Before[s]} = {DeclaredBefore(p) : p \in G!Before[s]}
    BY <1>5, <2>1
  <2>3. \A s \in Keys : DeclaredBefore(s) = G!Before[s] \cup UNION {D[p] : p \in G!Before[s]}
    BY <1>5, <2>2
  <2> QED
    BY <2>3, Zenon
<1>7. Ancestors = CHOOSE f : Fix(f)
  BY DEF Ancestors
<1> HIDE DEF D, Fix
<1>8. Fix(Ancestors)
  BY <1>6, <1>7
<1>9. \A s \in Keys : Ancestors[s] = G!Before[s] \cup UNION {Ancestors[p] : p \in G!Before[s]}
  BY <1>8 DEF Fix
<1> DEFINE Wrong == {s \in Keys : Ancestors[s] # DeclaredBefore(s)}
<1>10. Wrong = {}
  <2> SUFFICES ASSUME Wrong # {}
               PROVE  FALSE
    OBVIOUS
  <2>1. Wrong \subseteq Nat
    BY <1>1
  <2> HIDE DEF Wrong
  <2>2. PICK s \in Wrong : \A y \in Wrong : s <= y
    BY <2>1, LeastNumber
  <2>3. s \in Keys /\ Ancestors[s] # DeclaredBefore(s)
    BY <2>2 DEF Wrong
  <2>4. ASSUME NEW p \in G!Before[s]
        PROVE  Ancestors[p] = DeclaredBefore(p)
    <3>1. p \in Keys /\ p < s
      BY <1>5, <2>3, <2>4
    <3>2. p \notin Wrong
      BY <1>1, <2>2, <2>3, <3>1
    <3> QED
      BY <3>1, <3>2 DEF Wrong
  <2>5. Ancestors[s] = G!Before[s] \cup UNION {DeclaredBefore(p) : p \in G!Before[s]}
    BY <1>9, <2>3, <2>4
  <2> QED
    BY <1>5, <2>3, <2>5
<1> QED
  BY <1>10

LEMMA BuilderInvOrderExact ==
    ASSUME VectorsInv, GraphInv, DeclaredInv
    PROVE  OrderExact
<1>1. Count \in Nat /\ Keys = 1..Count
  BY KeysFacts
<1>2. declared \subseteq Keys \X Keys
  BY <1>1 DEF DeclaredInv
<1>3. CASE Count = 0
  <2>1. Keys = {}
    BY <1>1, <1>3
  <2> QED
    BY <1>2, <2>1 DEF OrderExact, Precedes
<1>4. CASE Count # 0
  <2>1. \A s \in Keys : Ancestors[s] = DeclaredBefore(s)
    BY <1>4, AncestorsDeclared
  <2>2. Precedes = UNION {DeclaredBefore(s) \X {s} : s \in Keys}
    BY <2>1 DEF Precedes
  <2>3. ASSUME NEW p
        PROVE  p \in Precedes <=> p \in declared
    <3>1. ASSUME p \in Precedes
          PROVE  p \in declared
      <4>1. PICK s \in Keys : p \in DeclaredBefore(s) \X {s}
        BY <2>2, <3>1
      <4>2. p = <<p[1], s>> /\ p[1] \in DeclaredBefore(s)
        BY <4>1
      <4> QED
        BY <4>2 DEF DeclaredBefore
    <3>2. ASSUME p \in declared
          PROVE  p \in Precedes
      <4>1. p \in Keys \X Keys
        BY <1>2, <3>2
      <4>2. PICK a \in Keys, s \in Keys : p = <<a, s>>
        BY <4>1
      <4>3. a \in DeclaredBefore(s)
        BY <1>1, <3>2, <4>2 DEF DeclaredBefore
      <4>4. p \in DeclaredBefore(s) \X {s}
        BY <4>2, <4>3
      <4> QED
        BY <2>2, <4>4
    <3> QED
      BY <3>1, <3>2
  <2> QED
    BY <2>3 DEF OrderExact
<1> QED
  BY <1>3, <1>4

LEMMA BuilderInvTypeOK ==
    ASSUME VectorsInv, DeclaredInv, StepsTypeInv
    PROVE  BuilderTypeOK
<1>1. /\ Count \in Nat /\ Keys = 1..Count
      /\ Cnt \in Seq(Nat) /\ DOMAIN schedule.dependency_gate = Keys
      /\ DOMAIN Dep = Keys /\ DOMAIN Asc = Keys
      /\ schedule.root = IF Count = 0 THEN None ELSE 1
  BY KeysFacts
<1>2. schedule.root \in Keys \cup {None}
  BY <1>1
<1>3. declared \subseteq Keys \X Keys
  BY <1>1 DEF DeclaredInv
<1> QED
  BY <1>1, <1>2, <1>3 DEF BuilderTypeOK, StepsTypeInv, Cnt, Dep, Asc

-----------------------------------------------------------------------------
(* For any plans. *)

\* The vectors of a schedule grow together, its root is the first system, and
\* the history only names systems there are.
THEOREM BuilderTypeCorrect == StepsSpec => []BuilderTypeOK
<1>1. BuilderInv => BuilderTypeOK
  BY BuilderInvTypeOK DEF BuilderInv
<1> QED
  BY <1>1, BuilderInvariant, PTL

\* Whatever is added, in the middle of a call too, the graph is one that both
\* executors can run: DepGraph!GraphOK, which MultiExecutor assumes.
THEOREM BuilderWellFormed == StepsSpec => []WellFormed
<1>1. BuilderInv => WellFormed
  BY BuilderInvWellFormed DEF BuilderInv
<1> QED
  BY <1>1, BuilderInvariant, PTL

\* Whatever is added, a system waits, directly or not, for exactly the systems
\* the .order()s of the plans put before it.
THEOREM BuilderOrderExact == StepsSpec => []OrderExact
<1>1. BuilderInv => OrderExact
  BY BuilderInvOrderExact DEF BuilderInv
<1> QED
  BY <1>1, BuilderInvariant, PTL
=============================================================================
