----------------------- MODULE MultiExecutorMemoryProofs -----------------------
(***************************************************************************)
(* What the threads of MultiExecutor are sure to see of each other's       *)
(* systems, for every schedule and number of threads: all of the runs      *)
(* before, and one of the systems ordered before their own.                *)
(***************************************************************************)
EXTENDS MultiExecutorMemory, MultiExecutorSafety

MemoryTypeOK ==
    /\ sees \in [Threads -> SUBSET Tasks]
    /\ carries \in [Systems -> SUBSET Tasks] /\ gate_view \in [Systems -> SUBSET Tasks]
    /\ main_sees \subseteq Tasks /\ tasks_view \subseteq Tasks

\* A worker sees what it has done until the counter has it.
OwnSeen == \A w \in Threads :
    /\ tasks_done[w] \subseteq sees[w]
    /\ Finishing(w) => running[w] \subseteq sees[w]

\* The counter's releases are what full_sync acquires.
SettledSeen ==
    /\ settled \subseteq tasks_view
    /\ synced => settled \subseteq main_sees

\* The main thread pushes the root batch having seen the runs before, and a
\* batch is pushed by a thread that has seen them and the last to count.
CarriedOn ==
    /\ RunTasks(runs - 1) \subseteq main_sees
    /\ \A s \in Systems : Released(s) =>
          /\ RunTasks(runs - 1) \subseteq carries[s]
          /\ Before[s] # {} => \E p \in Before[s] : Current(p) \in carries[s]

\* full_shutdown joins those who have seen it all.
JoinedSeen ==
    /\ completed \subseteq UNION {sees[w] : w \in Threads}
    /\ shutdown => \A w \in Threads : w < next => sees[w] \subseteq main_sees

MInv ==
    /\ MemoryTypeOK /\ OwnSeen /\ SettledSeen /\ CarriedOn /\ JoinedSeen
    /\ RunsVisible /\ LastVisible

-----------------------------------------------------------------------------
(* The steps of MultiExecutor are those of its memory. *)

LEMMA MemoryNextIsNext == [MemoryNext]_memoryVars => [Next]_vars
<1> SUFFICES ASSUME [MemoryNext]_memoryVars PROVE [Next]_vars
  OBVIOUS
<1>1. CASE \E w \in Threads : WorkerOrders(w)
  <2>1. PICK w \in Threads : WorkerOrders(w) BY <1>1
  <2>2. Worker(w)
    BY <2>1 DEF WorkerOrders, Takes, Ran, Counts, Pushes, Resets, Settles, Quiet, Worker, WorkerStep
  <2> QED BY <2>2 DEF Next
<1>2. CASE MainPushes \/ MainLoads \/ MainJoins \/ MainQuiet
  <2>1. Main \/ Client BY <1>2 DEF MainPushes, MainLoads, MainJoins, MainQuiet, Main
  <2> QED BY <2>1 DEF Next
<1>3. CASE Environment /\ UNCHANGED views BY <1>3 DEF Next
<1>4. CASE UNCHANGED memoryVars BY <1>4 DEF memoryVars
<1> QED BY <1>1, <1>2, <1>3, <1>4 DEF MemoryNext

LEMMA MemoryIsSafe == MemorySpec => Safety
<1>1. MemoryInit => Init BY DEF MemoryInit
<1> QED BY <1>1, MemoryNextIsNext, PTL DEF MemorySpec, Safety

-----------------------------------------------------------------------------
(* The steps that push nothing and start no system. *)

\* Views only grow, and what leaves a worker has been seen where it goes.
LEMMA SteadyStep ==
    ASSUME MInv, MemoryTypeOK', UNCHANGED <<dispatched, runs, carries>>,
           \A w \in Threads : sees[w] \subseteq sees'[w] /\ running'[w] \subseteq running[w],
           OwnSeen', SettledSeen', JoinedSeen', main_sees \subseteq main_sees'
    PROVE  MInv'
<1>1. CarriedOn'
  <2>1. RunTasks(runs - 1)' \subseteq main_sees' BY DEF MInv, CarriedOn, RunTasks
  <2>2. \A s \in Systems : Released(s)' <=> Released(s) BY DEF Released
  <2> QED BY <2>1, <2>2 DEF MInv, CarriedOn, RunTasks, Current
<1>2. RunsVisible' BY DEF MInv, RunsVisible, RunTasks
<1>3. LastVisible'
  <2> SUFFICES ASSUME NEW w \in Threads, NEW t \in running'[w], Before[t[1]] # {}
               PROVE  \E p \in Before[t[1]] : <<p, t[2]>> \in sees'[w]
    BY DEF LastVisible
  <2>1. \E p \in Before[t[1]] : <<p, t[2]>> \in sees[w] BY DEF MInv, LastVisible
  <2> QED BY <2>1
<1> QED BY <1>1, <1>2, <1>3 DEF MInv

\* The same of the union of what the threads see, when one of them learns.
LEMMA LearnsGrows ==
    ASSUME MemoryTypeOK, NEW w \in Threads, NEW view \in SUBSET Tasks, Learns(w, view)
    PROVE  /\ sees' \in [Threads -> SUBSET Tasks]
           /\ sees'[w] = sees[w] \cup view
           /\ \A v \in Threads \ {w} : sees'[v] = sees[v]
           /\ \A v \in Threads : sees[v] \subseteq sees'[v]
           /\ UNION {sees[v] : v \in Threads} \subseteq UNION {sees'[v] : v \in Threads}
<1>1. sees' = [sees EXCEPT ![w] = @ \cup view] /\ sees \in [Threads -> SUBSET Tasks]
  BY DEF Learns, MemoryTypeOK
<1>2. /\ sees' \in [Threads -> SUBSET Tasks] /\ sees'[w] = sees[w] \cup view
      /\ \A v \in Threads \ {w} : sees'[v] = sees[v]
  BY <1>1
<1>3. \A v \in Threads : sees[v] \subseteq sees'[v] BY <1>2
<1> QED BY <1>2, <1>3

\* Workers that learn do not disturb what full_shutdown has joined.
LEMMA JoinedStays ==
    ASSUME ShutInv, MInv, NEW w \in Threads, pc[w] # "exited",
           UNCHANGED <<shutdown, next, main_sees>>,
           \A v \in Threads \ {w} : sees'[v] = sees[v],
           completed' \subseteq UNION {sees'[v] : v \in Threads}
    PROVE  JoinedSeen'
<1>1. shutdown => \A v \in Threads : v < next => v # w BY DEF ShutInv, JoinedInv
<1> QED BY <1>1 DEF MInv, JoinedSeen

LEMMA CountsStep ==
    ASSUME ShutInv, ShutInv', MInv, NEW w \in Threads, Counts(w)
    PROVE  MInv'
<1>1. IInv BY DEF ShutInv
<1>2. /\ pc[w] = "gate" /\ \E to \in {"push", "gate", "returning"} : pc' = [pc EXCEPT ![w] = to]
      /\ UNCHANGED <<queueVars, sharedVars, next, dispatched, completed, runs, synced>>
  BY DEF Counts, GateStaysShut, GateOpens, CountAtNext, Goto
<1>3. Head(deps[w]) \in Systems
  <2>1. PICK s \in Systems, t \in Gated : Head(deps[w]) = t BY <1>1, <1>2, AtGate
  <2> QED BY <2>1, BatchFacts
<1>4. gate_view[Head(deps[w])] \in SUBSET Tasks BY <1>3 DEF MInv, MemoryTypeOK
<1>5. /\ sees' \in [Threads -> SUBSET Tasks]
      /\ \A v \in Threads \ {w} : sees'[v] = sees[v]
      /\ \A v \in Threads : sees[v] \subseteq sees'[v]
      /\ UNION {sees[v] : v \in Threads} \subseteq UNION {sees'[v] : v \in Threads}
  BY <1>4, LearnsGrows DEF MInv, Counts
<1>6. UNCHANGED <<main_sees, carries, gate_view, tasks_view>> BY DEF Counts
<1>7. UNCHANGED <<running, tasks_done, settled, shutdown>> BY <1>2 DEF queueVars, sharedVars
<1>8. MemoryTypeOK' BY <1>5, <1>6 DEF MInv, MemoryTypeOK
<1>9. OwnSeen'
  <2>1. pc \in [Threads -> WorkerPCs] BY <1>1 DEF IInv, TypeInv, TypeOK
  <2>2. \A v \in Threads : Finishing(v)' => Finishing(v) BY <1>2, <2>1 DEF Finishing
  <2> QED BY <1>5, <1>7, <2>2 DEF MInv, OwnSeen
<1>10. SettledSeen' BY <1>2, <1>6, <1>7 DEF MInv, SettledSeen
<1>11. JoinedSeen'
  <2>1. completed' \subseteq UNION {sees'[v] : v \in Threads} BY <1>2, <1>5 DEF MInv, JoinedSeen
  <2> QED BY <1>2, <1>5, <1>6, <1>7, <2>1, JoinedStays
<1> QED BY <1>2, <1>5, <1>6, <1>7, <1>8, <1>9, <1>10, <1>11, SteadyStep

LEMMA RanStep ==
    ASSUME ShutInv, ShutInv', MInv, NEW w \in Threads, Ran(w)
    PROVE  MInv'
<1>1. IInv BY DEF ShutInv
<1>2. /\ pc[w] = "system" /\ \A v \in Threads \ {w} : pc'[v] = pc[v]
      /\ \E t \in running[w] : completed' = completed \cup {t}
      /\ UNCHANGED <<queueVars, sharedVars, next, dispatched, runs, synced>>
  <2>1. pc \in [Threads -> WorkerPCs] BY <1>1 DEF IInv, TypeInv, TypeOK
  <2> QED BY <2>1 DEF Ran, SystemReturns, CountAtNext
<1>3. running[w] \in SUBSET Tasks BY <1>1 DEF IInv, TypeInv, TypeOK
<1>4. /\ sees' \in [Threads -> SUBSET Tasks]
      /\ sees'[w] = sees[w] \cup running[w]
      /\ \A v \in Threads \ {w} : sees'[v] = sees[v]
      /\ \A v \in Threads : sees[v] \subseteq sees'[v]
      /\ UNION {sees[v] : v \in Threads} \subseteq UNION {sees'[v] : v \in Threads}
  BY <1>3, LearnsGrows DEF MInv, Ran
<1>5. UNCHANGED <<main_sees, carries, gate_view, tasks_view>> BY DEF Ran
<1>6. UNCHANGED <<running, tasks_done, settled, shutdown>> BY <1>2 DEF queueVars, sharedVars
<1>7. MemoryTypeOK' BY <1>4, <1>5 DEF MInv, MemoryTypeOK
<1>8. OwnSeen'
  <2>1. \A v \in Threads \ {w} : Finishing(v)' => Finishing(v) BY <1>2 DEF Finishing
  <2> QED BY <1>4, <1>6, <2>1 DEF MInv, OwnSeen
<1>9. SettledSeen' BY <1>2, <1>5, <1>6 DEF MInv, SettledSeen
<1>10. JoinedSeen'
  <2>1. completed' \subseteq UNION {sees'[v] : v \in Threads} BY <1>2, <1>4 DEF MInv, JoinedSeen
  <2> QED BY <1>2, <1>4, <1>5, <1>6, <2>1, JoinedStays
<1> QED BY <1>2, <1>4, <1>5, <1>6, <1>7, <1>8, <1>9, <1>10, SteadyStep

LEMMA ResetsStep ==
    ASSUME ShutInv, ShutInv', MInv, NEW w \in Threads, Resets(w)
    PROVE  MInv'
<1>1. IInv BY DEF ShutInv
<1>2. /\ pc[w] = "push" /\ \E to \in {"gate", "returning"} : pc' = [pc EXCEPT ![w] = to]
      /\ UNCHANGED <<queueVars, sharedVars, next, dispatched, completed, runs, synced>>
  BY DEF Resets, ResetGate, CountAtNext
<1>3. UNCHANGED <<sees, main_sees, carries, tasks_view>> BY DEF Resets
<1>4. UNCHANGED <<running, tasks_done, settled, shutdown>> BY <1>2 DEF queueVars, sharedVars
<1>5. MemoryTypeOK'
  <2>1. sees[w] \subseteq Tasks /\ gate_view \in [Systems -> SUBSET Tasks] BY DEF MInv, MemoryTypeOK
  <2>2. gate_view' \in [Systems -> SUBSET Tasks] BY <2>1 DEF Resets
  <2> QED BY <1>3, <2>2 DEF MInv, MemoryTypeOK
<1>6. OwnSeen'
  <2>1. pc \in [Threads -> WorkerPCs] BY <1>1 DEF IInv, TypeInv, TypeOK
  <2>2. \A v \in Threads : Finishing(v)' => Finishing(v) BY <1>2, <2>1 DEF Finishing
  <2> QED BY <1>3, <1>4, <2>2 DEF MInv, OwnSeen
<1>7. SettledSeen' BY <1>2, <1>3, <1>4 DEF MInv, SettledSeen
<1>8. JoinedSeen' BY <1>2, <1>3, <1>4 DEF MInv, JoinedSeen
<1> QED BY <1>2, <1>3, <1>4, <1>5, <1>6, <1>7, <1>8, SteadyStep

\* The counter takes over what the worker has seen.
LEMMA SettlesStep ==
    ASSUME ShutInv, ShutInv', MInv, NEW w \in Threads, Settles(w)
    PROVE  MInv'
<1>1. IInv /\ IInv' BY DEF ShutInv
<1>2. /\ pc[w] = "settle" /\ \E to \in {"dead", "drained", "start"} : pc' = [pc EXCEPT ![w] = to]
      /\ settled' = settled \cup tasks_done[w]
      /\ tasks_done' = [tasks_done EXCEPT ![w] = {}]
      /\ UNCHANGED <<running, shutdown, next, multiVars>>
  BY DEF Settles, Settle
<1>3. tasks_view \in SUBSET Tasks BY DEF MInv, MemoryTypeOK
<1>4. /\ sees' \in [Threads -> SUBSET Tasks]
      /\ \A v \in Threads \ {w} : sees'[v] = sees[v]
      /\ \A v \in Threads : sees[v] \subseteq sees'[v]
      /\ UNION {sees[v] : v \in Threads} \subseteq UNION {sees'[v] : v \in Threads}
  BY <1>3, LearnsGrows DEF MInv, Settles
<1>5. /\ UNCHANGED <<main_sees, carries, gate_view>> /\ tasks_view' = tasks_view \cup sees[w]
  BY DEF Settles
<1>6. UNCHANGED <<dispatched, completed, runs, synced>> BY <1>2 DEF multiVars
<1>7. MemoryTypeOK' BY <1>4, <1>5 DEF MInv, MemoryTypeOK
<1>8. OwnSeen'
  <2>1. /\ pc \in [Threads -> WorkerPCs] /\ tasks_done \in [Threads -> SUBSET Tasks]
    BY <1>1 DEF IInv, TypeInv, TypeOK
  <2>2. \A v \in Threads : Finishing(v)' => Finishing(v) BY <1>2, <2>1 DEF Finishing
  <2>3. \A v \in Threads : tasks_done'[v] \subseteq tasks_done[v] BY <1>2, <2>1
  <2> QED BY <1>2, <1>4, <2>2, <2>3 DEF MInv, OwnSeen
<1>9. SettledSeen'
  <2>1. tasks_done[w] \subseteq sees[w] BY DEF MInv, OwnSeen
  <2>2. synced => settled' = settled BY <1>1, <1>6 DEF IInv, RunsInv, RunTasks
  <2> QED BY <1>2, <1>5, <1>6, <2>1, <2>2 DEF MInv, SettledSeen
<1>10. JoinedSeen'
  <2>1. completed' \subseteq UNION {sees'[v] : v \in Threads} BY <1>4, <1>6 DEF MInv, JoinedSeen
  <2> QED BY <1>2, <1>4, <1>5, <2>1, JoinedStays
<1> QED BY <1>2, <1>4, <1>5, <1>6, <1>7, <1>8, <1>9, <1>10, SteadyStep

\* The steps of a worker that order nothing.
LEMMA QuietMemoryStep ==
    ASSUME ShutInv, ShutInv', MInv, NEW w \in Threads,
           Quiet(w) \/ (WorkerWakesSpuriously(w) /\ UNCHANGED <<multiVars, views>>)
                    \/ (SystemPanics(w) /\ UNCHANGED views)
    PROVE  MInv'
<1> USE DEF Goto, queueVars, sharedVars
<1>1. IInv BY DEF ShutInv
<1>2. /\ pc \in [Threads -> WorkerPCs] /\ tasks_done \in [Threads -> SUBSET Tasks]
      /\ running \in [Threads -> SUBSET Tasks]
  BY <1>1 DEF IInv, TypeInv, TypeOK
<1>3. UNCHANGED multiVars /\ UNCHANGED views BY DEF Quiet, SystemPanics
<1>4. UNCHANGED <<dispatched, completed, runs, synced, sees, main_sees, carries, gate_view, tasks_view>>
  BY <1>3 DEF multiVars, views
<1>5. UNCHANGED <<settled, shutdown, next>>
  BY DEF Quiet, WorkerStarts, PopNothing, InjectorEmpty, LoadTasks, VictimEmpty, TaskReturns,
         WorkerExits, WorkerStays, WorkerReady, WorkerWakesMain, WorkerUnparked,
         WorkerWakesSpuriously, SystemPanics, WorkerDies
<1>6. OwnSeen' /\ \A v \in Threads : running'[v] \subseteq running[v]
  <2>1. CASE WorkerStarts(w)
    <3>1. /\ \A v \in Threads : tasks_done'[v] \subseteq tasks_done[v] /\ running' = running
          /\ \A v \in Threads : Finishing(v)' => Finishing(v)
      BY <1>2, <2>1 DEF WorkerStarts, Finishing
    <3> QED BY <1>4, <3>1 DEF MInv, OwnSeen
  <2>2. CASE TaskReturns(w)
    <3>1. /\ tasks_done'[w] = tasks_done[w] \cup running[w] /\ running'[w] = {}
          /\ \A v \in Threads \ {w} : tasks_done'[v] = tasks_done[v] /\ running'[v] = running[v]
          /\ pc[w] = "returning" /\ pc'[w] = "pop" /\ \A v \in Threads \ {w} : pc'[v] = pc[v]
      BY <1>2, <2>2 DEF TaskReturns
    <3>2. Finishing(w) /\ ~Finishing(w)' /\ \A v \in Threads \ {w} : Finishing(v)' => Finishing(v)
      BY <3>1 DEF Finishing
    <3> QED BY <1>4, <3>1, <3>2 DEF MInv, OwnSeen
  <2>3. CASE ~WorkerStarts(w) /\ ~TaskReturns(w)
    <3>1. UNCHANGED <<tasks_done, running>>
      BY <2>3 DEF Quiet, PopNothing, InjectorEmpty, LoadTasks, VictimEmpty,
             WorkerExits, WorkerStays, WorkerReady, WorkerWakesMain, WorkerUnparked,
             WorkerWakesSpuriously, SystemPanics, WorkerDies
    <3>2. \A v \in Threads : Finishing(v)' => Finishing(v)
      <4>1. CASE PopNothing(w) \/ InjectorEmpty(w) \/ LoadTasks(w) \/ VictimEmpty(w)
        BY <1>2, <4>1 DEF PopNothing, InjectorEmpty, LoadTasks, VictimEmpty, Finishing
      <4>2. CASE WorkerExits(w) \/ WorkerStays(w) \/ WorkerReady(w)
        BY <1>2, <4>2 DEF WorkerExits, WorkerStays, WorkerReady, Finishing
      <4>3. CASE WorkerWakesMain(w) \/ WorkerUnparked(w) \/ WorkerWakesSpuriously(w) \/ SystemPanics(w)
        BY <1>2, <4>3 DEF WorkerWakesMain, WorkerUnparked, WorkerWakesSpuriously, SystemPanics,
                          WorkerDies, Finishing
      <4> QED BY <2>3, <4>1, <4>2, <4>3 DEF Quiet
    <3> QED BY <1>4, <3>1, <3>2 DEF MInv, OwnSeen
  <2> QED BY <2>1, <2>2, <2>3
<1>7. MemoryTypeOK' BY <1>4 DEF MInv, MemoryTypeOK
<1>8. SettledSeen' BY <1>4, <1>5 DEF MInv, SettledSeen
<1>9. JoinedSeen' BY <1>4, <1>5 DEF MInv, JoinedSeen
<1> QED BY <1>4, <1>6, <1>7, <1>8, <1>9, SteadyStep

-----------------------------------------------------------------------------
(* Pushing and taking tasks. *)

\* A task taken has been pushed with the runs before in view and, if it waits
\* for anything, with the last to count.
LEMMA TakesStep ==
    ASSUME ShutInv, ShutInv', MInv, NEW w \in Threads, Takes(w)
    PROVE  MInv'
<1>1. IInv BY DEF ShutInv
<1>2. /\ \E t \in injector \cup UNION {deque[v] : v \in Threads} :
            running' = [running EXCEPT ![w] = {t}]
      /\ pc[w] \in {"pop", "inject", "steal"} /\ pc' = [pc EXCEPT ![w] = "system"]
      /\ UNCHANGED <<tasks_done, settled, shutdown, next>>
  <2>1. CASE PopLocal(w) BY <2>1 DEF PopLocal, Goto, sharedVars
  <2>2. CASE StealFromInjector(w)
    <3>1. PICK B \in BatchesOf(injector) : \E t \in B : running' = [running EXCEPT ![w] = {t}]
      BY <2>2 DEF StealFromInjector
    <3>2. B \subseteq injector BY DEF BatchesOf
    <3> QED BY <2>2, <3>1, <3>2 DEF StealFromInjector, Goto, sharedVars
  <2>3. CASE StealFromVictim(w)
    <3>1. PICK v \in Threads \ {w} : \E B \in BatchesOf(deque[v]) : \E t \in B :
             running' = [running EXCEPT ![w] = {t}]
      BY <2>3 DEF StealFromVictim
    <3>2. PICK B \in BatchesOf(deque[v]) : \E t \in B : running' = [running EXCEPT ![w] = {t}]
      BY <3>1
    <3>3. B \subseteq deque[v] BY DEF BatchesOf
    <3> QED BY <2>3, <3>2, <3>3 DEF StealFromVictim, Goto, sharedVars
  <2> QED BY <2>1, <2>2, <2>3 DEF Takes
<1>3. PICK t \in injector \cup UNION {deque[v] : v \in Threads} :
         running' = [running EXCEPT ![w] = {t}]
  BY <1>2
<1>4. running'[w] = {t} /\ \A v \in Threads \ {w} : running'[v] = running[v]
  BY <1>1, <1>3 DEF IInv, TypeInv, TypeOK
<1>5. PICK s \in Systems : t = <<s, runs>> /\ Released(s)
  <2>1. t \in Dispatched \ settled BY <1>1, PlaceFacts DEF IInv
  <2> QED BY <1>1, <2>1, TaskFacts DEF IInv, Current
<1>6. UNCHANGED multiVars /\ UNCHANGED <<main_sees, carries, gate_view, tasks_view>> BY DEF Takes
<1>7. UNCHANGED <<dispatched, completed, runs, synced>> BY <1>6 DEF multiVars
<1>8. UNION {carries[u[1]] : u \in running'[w]} = carries[s] BY <1>4, <1>5
<1>9. carries[s] \in SUBSET Tasks BY DEF MInv, MemoryTypeOK
<1>10. /\ sees' \in [Threads -> SUBSET Tasks]
       /\ sees'[w] = sees[w] \cup carries[s]
       /\ \A v \in Threads \ {w} : sees'[v] = sees[v]
       /\ \A v \in Threads : sees[v] \subseteq sees'[v]
       /\ UNION {sees[v] : v \in Threads} \subseteq UNION {sees'[v] : v \in Threads}
  BY <1>8, <1>9, LearnsGrows DEF MInv, Takes
<1>11. MemoryTypeOK' BY <1>6, <1>10 DEF MInv, MemoryTypeOK
<1>12. OwnSeen'
  <2>1. pc \in [Threads -> WorkerPCs] BY <1>1 DEF IInv, TypeInv, TypeOK
  <2>2. ~Finishing(w)' /\ \A v \in Threads \ {w} : Finishing(v)' => Finishing(v)
    BY <1>2, <2>1 DEF Finishing
  <2> QED BY <1>2, <1>4, <1>10, <2>2 DEF MInv, OwnSeen
<1>13. SettledSeen' BY <1>2, <1>6, <1>7 DEF MInv, SettledSeen
<1>14. CarriedOn' BY <1>6, <1>7 DEF MInv, CarriedOn, RunTasks, Released, Current
<1>15. JoinedSeen'
  <2>1. completed' \subseteq UNION {sees'[v] : v \in Threads} BY <1>7, <1>10 DEF MInv, JoinedSeen
  <2>2. pc[w] # "exited" BY <1>2
  <2> QED BY <1>2, <1>6, <1>10, <2>1, <2>2, JoinedStays
<1>16. RunsVisible'
  <2>1. RunTasks(runs - 1) \subseteq carries[s] BY <1>5 DEF MInv, CarriedOn
  <2>2. t[2] = runs BY <1>5
  <2> QED BY <1>4, <1>10, <2>1, <2>2 DEF MInv, RunsVisible, RunTasks
<1>17. LastVisible'
  <2> SUFFICES ASSUME NEW v \in Threads, NEW u \in running'[v], Before[u[1]] # {}
               PROVE  \E p \in Before[u[1]] : <<p, u[2]>> \in sees'[v]
    BY DEF LastVisible
  <2>1. CASE v = w
    <3>1. u = t /\ u[1] = s /\ u[2] = runs BY <1>4, <1>5, <2>1
    <3>2. PICK p \in Before[s] : <<p, runs>> \in carries[s]
      BY <1>5, <3>1 DEF MInv, CarriedOn, Current
    <3> QED BY <1>10, <2>1, <3>1, <3>2
  <2>2. CASE v # w
    <3>1. PICK p \in Before[u[1]] : <<p, u[2]>> \in sees[v] BY <1>4, <2>2 DEF MInv, LastVisible
    <3> QED BY <1>10, <3>1
  <2> QED BY <2>1, <2>2
<1> QED BY <1>11, <1>12, <1>13, <1>14, <1>15, <1>16, <1>17 DEF MInv

\* A system is pushed with a view.
LEMMA CarryStep ==
    ASSUME IInv, MInv, NEW e \in Systems, DispatchSystem(e), NEW view \in SUBSET Tasks, Carry(view),
           runs' = runs, main_sees' = main_sees,
           RunTasks(runs - 1) \subseteq view,
           Before[e] # {} => \E p \in Before[e] : Current(p) \in view
    PROVE  CarriedOn' /\ carries' \in [Systems -> SUBSET Tasks]
<1>1. dispatched \in [Systems -> Nat] BY DEF IInv, TypeInv, TypeOK
<1>2. /\ dispatched'[e] # dispatched[e]
      /\ \A s \in Systems \ {e} : dispatched'[s] = dispatched[s]
  BY <1>1 DEF DispatchSystem
<1>3. carries'[e] = view /\ \A s \in Systems \ {e} : carries'[s] = carries[s]
  BY <1>2 DEF Carry
<1>4. carries' \in [Systems -> SUBSET Tasks] BY DEF MInv, MemoryTypeOK, Carry
<1>5. \A s \in Systems \ {e} : Released(s)' <=> Released(s) BY <1>2 DEF Released
<1>6. ASSUME NEW s \in Systems, Released(s)'
      PROVE  /\ RunTasks(runs - 1) \subseteq carries'[s]
             /\ Before[s] # {} => \E p \in Before[s] : Current(p) \in carries'[s]
  <2>1. CASE s = e BY <1>3, <2>1
  <2>2. CASE s # e BY <1>3, <1>5, <1>6, <2>2 DEF MInv, CarriedOn
  <2> QED BY <2>1, <2>2
<1>7. RunTasks(runs - 1) \subseteq main_sees BY DEF MInv, CarriedOn
<1> QED BY <1>4, <1>6, <1>7 DEF CarriedOn, RunTasks, Current

LEMMA PushesStep ==
    ASSUME ShutInv, ShutInv', MInv, NEW w \in Threads, Pushes(w)
    PROVE  MInv'
<1>1. IInv BY DEF ShutInv
<1>2. /\ pc[w] = "push" /\ pushq[w] # <<>> /\ DispatchSystem(Head(pushq[w]))
      /\ UNCHANGED <<running, tasks_done, settled, shutdown, pc, next, completed, runs, synced>>
      /\ UNCHANGED <<sees, main_sees, gate_view, tasks_view>> /\ Carry(sees[w])
  BY DEF Pushes, PushDependent, sharedVars
<1>3. PICK p \in Systems, t \in Gated :
         running[w] = {Current(p)} /\ p \in Preds(t) /\ deps[w] = <<t>>
  BY <1>1, <1>2, AtGate
<1>4. Head(pushq[w]) \in Batch(t)
  <2>1. Pushing(w, t) BY <1>2, <1>3 DEF Pushing
  <2>2. IsInjective(pushq[w]) /\ Range(pushq[w]) \subseteq Batch(t)
    BY <1>1, <2>1 DEF IInv, GateInv
  <2>3. pushq[w] \in Seq(Systems) BY <1>1 DEF IInv, TypeInv, TypeOK
  <2> QED BY <1>2, <2>2, <2>3, TailRange
<1>5. PICK e \in Systems : e = Head(pushq[w]) /\ e \in Batch(t) BY <1>4, BatchFacts DEF Gated
<1>6. p \in Before[e] BY <1>3, <1>5 DEF Before, Gated
<1>7. Current(p) \in sees[w] BY <1>2, <1>3 DEF MInv, OwnSeen, Finishing
<1>8. RunTasks(runs - 1) \subseteq sees[w]
  <2>1. <<p, runs>> \in running[w] /\ <<p, runs>>[2] = runs BY <1>3 DEF Current
  <2> QED BY <2>1 DEF MInv, RunsVisible
<1>9. sees[w] \in SUBSET Tasks BY DEF MInv, MemoryTypeOK
<1>10. CarriedOn' /\ carries' \in [Systems -> SUBSET Tasks]
  BY <1>1, <1>2, <1>5, <1>6, <1>7, <1>8, <1>9, CarryStep
<1>11. MemoryTypeOK' BY <1>2, <1>10 DEF MInv, MemoryTypeOK
<1>12. OwnSeen' /\ SettledSeen' /\ JoinedSeen'
  BY <1>2 DEF MInv, OwnSeen, SettledSeen, JoinedSeen, Finishing
<1>13. RunsVisible' /\ LastVisible' BY <1>2 DEF MInv, RunsVisible, LastVisible, RunTasks
<1> QED BY <1>10, <1>11, <1>12, <1>13 DEF MInv

LEMMA MainPushesStep ==
    ASSUME ShutInv, ShutInv', MInv, MainPushes
    PROVE  MInv'
<1>1. IInv BY DEF ShutInv
<1>2. /\ main = "push" /\ to_push # <<>> /\ DispatchSystem(Head(to_push))
      /\ UNCHANGED <<running, tasks_done, settled, shutdown, pc, next, completed, runs, synced>>
      /\ UNCHANGED <<sees, main_sees, gate_view, tasks_view>> /\ Carry(main_sees)
  BY DEF MainPushes, PushRoot, sharedVars
<1>3. PICK e \in Systems : e = Head(to_push) /\ e \in Batch(root)
  <2>1. to_push \in Seq(Systems) BY <1>1 DEF IInv, TypeInv, TypeOK
  <2>2. IsInjective(to_push) /\ Range(to_push) \subseteq Batch(root)
    BY <1>1, <1>2 DEF IInv, RootInv
  <2> QED BY <1>2, <2>1, <2>2, TailRange
<1>4. Before[e] = {}
  <2> SUFFICES ASSUME NEW p \in Before[e] PROVE FALSE
    OBVIOUS
  <2>1. PICK u \in Triggers : e \in Batch(u) /\ p \in Preds(u) BY DEF Before
  <2>2. u \in Gated BY <2>1, GraphAssumption DEF GraphOK, CountsOK, Gated
  <2> QED BY <1>3, <2>1, <2>2, BatchFacts
<1>5. main_sees \in SUBSET Tasks /\ RunTasks(runs - 1) \subseteq main_sees
  BY DEF MInv, MemoryTypeOK, CarriedOn
<1>6. CarriedOn' /\ carries' \in [Systems -> SUBSET Tasks]
  BY <1>1, <1>2, <1>3, <1>4, <1>5, CarryStep
<1>7. MemoryTypeOK' BY <1>2, <1>6 DEF MInv, MemoryTypeOK
<1>8. OwnSeen' /\ SettledSeen' /\ JoinedSeen'
  BY <1>2 DEF MInv, OwnSeen, SettledSeen, JoinedSeen, Finishing
<1>9. RunsVisible' /\ LastVisible' BY <1>2 DEF MInv, RunsVisible, LastVisible, RunTasks
<1> QED BY <1>6, <1>7, <1>8, <1>9 DEF MInv

-----------------------------------------------------------------------------
(* The main thread. *)

\* A run begins when everything has been synced, and so been seen.
LEMMA RunMemoryStep ==
    ASSUME ShutInv, ShutInv', MInv, Run, UNCHANGED views
    PROVE  MInv'
<1>1. IInv BY DEF ShutInv
<1>2. /\ synced /\ ~shutdown /\ runs' = runs + 1 /\ synced' = FALSE
      /\ UNCHANGED <<running, tasks_done, settled, shutdown, pc, next, dispatched, completed>>
  BY DEF Run, ExecuteBegins, queueVars, sharedVars
<1>3. UNCHANGED <<sees, main_sees, carries, gate_view, tasks_view>> BY DEF views
<1>4. settled = RunTasks(runs) /\ runs \in Nat BY <1>1, <1>2 DEF IInv, RunsInv, TypeInv, TypeOK
<1>5. \A s \in Systems : dispatched[s] = runs BY <1>1, <1>4, AllSettled
<1>6. CarriedOn'
  <2>1. runs' - 1 = runs BY <1>2, <1>4
  <2>2. RunTasks(runs - 1)' = settled BY <1>4, <2>1 DEF RunTasks
  <2>3. settled \subseteq main_sees BY <1>2 DEF MInv, SettledSeen
  <2>4. \A s \in Systems : ~Released(s)' BY <1>2, <1>4, <1>5 DEF Released
  <2> QED BY <1>3, <2>2, <2>3, <2>4 DEF CarriedOn
<1>7. MemoryTypeOK' BY <1>3 DEF MInv, MemoryTypeOK
<1>8. OwnSeen' /\ SettledSeen' /\ JoinedSeen'
  BY <1>2, <1>3 DEF MInv, OwnSeen, SettledSeen, JoinedSeen, Finishing
<1>9. RunsVisible' /\ LastVisible' BY <1>2, <1>3 DEF MInv, RunsVisible, LastVisible, RunTasks
<1> QED BY <1>6, <1>7, <1>8, <1>9 DEF MInv

\* Every other step pushes nothing, and what the main thread learns is on top
\* of what it knew.
LEMMA MainMemoryStep ==
    ASSUME ShutInv, ShutInv', MInv,
           \/ MainLoads \/ MainJoins
           \/ MainQuiet /\ ~Run
           \/ MainWakesSpuriously /\ UNCHANGED <<multiVars, views>>
           \/ UNCHANGED memoryVars
    PROVE  MInv'
<1> USE DEF queueVars, sharedVars
<1>1. IInv BY DEF ShutInv
<1>2. UNCHANGED <<running, tasks_done, settled, pc, dispatched, completed, runs>>
  BY DEF MainLoads, MainJoins, MainQuiet, Client, AddTasks, ReadyThread, ExecuteReturns, SyncedReturns,
         SyncReturns, SyncParks, MainUnparked, ShutdownUnparks, ShutdownJoins, ShutdownPanics,
         ShutdownReturns, FullSync, FullShutdown, MainWakesSpuriously, multiVars, memoryVars, vars,
         workgroupVars
<1>3. UNCHANGED <<sees, carries, gate_view, tasks_view>>
  BY DEF MainLoads, MainJoins, MainQuiet, memoryVars, views
<1>4. next \in 1..NumThreads + 1 /\ NumThreads \in Nat
  BY <1>1, NumThreadsAssumption DEF IInv, TypeInv, TypeOK
<1>5. /\ main_sees \subseteq main_sees' /\ main_sees' \subseteq Tasks
      /\ synced' => synced \/ tasks_view \subseteq main_sees'
  <2>1. CASE MainLoads
    <3>1. main_sees' = main_sees \cup tasks_view BY <2>1 DEF MainLoads
    <3> QED BY <3>1 DEF MInv, MemoryTypeOK
  <2>2. CASE MainJoins
    <3>1. main_sees' = main_sees \cup sees[next] /\ synced' = synced
      BY <2>2 DEF MainJoins, multiVars
    <3>2. next \in Threads BY <1>1, <2>2 DEF MainJoins, ShutdownJoins, IInv, TypeInv, InProgress
    <3> QED BY <3>1, <3>2 DEF MInv, MemoryTypeOK
  <2>3. CASE ~MainLoads /\ ~MainJoins
    <3>1. main_sees' = main_sees /\ synced' = synced
      BY <2>3 DEF MainQuiet, Client, AddTasks, ReadyThread, ExecuteReturns, multiVars, memoryVars, vars,
                  views
    <3> QED BY <3>1 DEF MInv, MemoryTypeOK
  <2> QED BY <2>1, <2>2, <2>3
<1>6. JoinedSeen'
  <2>1. ASSUME shutdown', NEW w \in Threads, w < next' PROVE sees[w] \subseteq main_sees'
    <3>1. CASE MainJoins
      <4>1. next' = next + 1 /\ shutdown' = shutdown /\ main_sees' = main_sees \cup sees[next]
        BY <3>1 DEF MainJoins, ShutdownJoins
      <4>2. w < next \/ w = next BY <1>4, <2>1, <4>1 DEF Threads
      <4> QED BY <2>1, <4>1, <4>2 DEF MInv, JoinedSeen
    <3>2. CASE FullShutdown /\ UNCHANGED multiVars
      <4>1. next' = 1 BY <3>2 DEF FullShutdown
      <4> QED BY <1>4, <2>1, <4>1 DEF Threads
    <3>3. CASE ~MainJoins /\ ~(FullShutdown /\ UNCHANGED multiVars)
      <4>1. shutdown' = shutdown /\ (next' = next \/ ~shutdown)
        <5>1. CASE AddTasks \/ ReadyThread
          <6>1. ~shutdown BY <5>1 DEF ShutInv, JoinedInv, AddTasks, ReadyThread
          <6> QED BY <5>1, <6>1 DEF AddTasks, ReadyThread
        <5>2. CASE ~AddTasks /\ ~ReadyThread
          BY <3>3, <5>2
          DEF MainLoads, MainQuiet, Client, ExecuteReturns, SyncedReturns,
              SyncReturns, SyncParks, MainUnparked, ShutdownUnparks, ShutdownPanics,
              ShutdownReturns, FullSync, MainWakesSpuriously, multiVars, memoryVars, vars,
              workgroupVars
        <5> QED BY <5>1, <5>2
      <4> QED BY <1>5, <2>1, <4>1 DEF MInv, JoinedSeen
    <3> QED BY <3>1, <3>2, <3>3
  <2> QED BY <1>2, <1>3, <2>1 DEF MInv, JoinedSeen
<1>7. MemoryTypeOK' BY <1>3, <1>5 DEF MInv, MemoryTypeOK
<1>8. OwnSeen' BY <1>2, <1>3 DEF MInv, OwnSeen, Finishing
<1>9. SettledSeen' BY <1>2, <1>3, <1>5 DEF MInv, SettledSeen
<1> QED BY <1>2, <1>3, <1>5, <1>6, <1>7, <1>8, <1>9, SteadyStep

-----------------------------------------------------------------------------
LEMMA MInvInit == MemoryInit => MInv
<1> SUFFICES ASSUME MemoryInit PROVE MInv
  OBVIOUS
<1>1. MemoryTypeOK BY DEF MemoryInit, MemoryTypeOK
<1>2. RunTasks(-1) = {} BY DEF RunTasks
<1>3. /\ settled = {} /\ completed = {} /\ runs = 0 /\ shutdown = FALSE
      /\ \A w \in Threads : running[w] = {} /\ tasks_done[w] = {}
      /\ \A s \in Systems : dispatched[s] = 0
  BY DEF MemoryInit, Init, WorkgroupInit
<1>4. \A s \in Systems : ~Released(s) BY <1>3 DEF Released
<1>5. OwnSeen /\ SettledSeen /\ CarriedOn /\ JoinedSeen
  BY <1>2, <1>3, <1>4 DEF OwnSeen, SettledSeen, CarriedOn, JoinedSeen
<1>6. RunsVisible /\ LastVisible BY <1>3 DEF RunsVisible, LastVisible
<1> QED BY <1>1, <1>5, <1>6 DEF MInv

LEMMA MInvNext == ShutInv /\ ShutInv' /\ MInv /\ [MemoryNext]_memoryVars => MInv'
<1> SUFFICES ASSUME ShutInv, ShutInv', MInv, [MemoryNext]_memoryVars PROVE MInv'
  OBVIOUS
<1>1. CASE \E w \in Threads : WorkerOrders(w)
  <2>1. PICK w \in Threads : WorkerOrders(w) BY <1>1
  <2> QED BY <2>1, TakesStep, RanStep, CountsStep, PushesStep, ResetsStep, SettlesStep, QuietMemoryStep
          DEF WorkerOrders
<1>2. CASE MainPushes BY <1>2, MainPushesStep
<1>3. CASE MainLoads \/ MainJoins BY <1>3, MainMemoryStep
<1>4. CASE MainQuiet
  <2>1. CASE Run
    <3>1. UNCHANGED views BY <1>4 DEF MainQuiet
    <3> QED BY <2>1, <3>1, RunMemoryStep
  <2>2. CASE ~Run BY <1>4, <2>2, MainMemoryStep
  <2> QED BY <2>1, <2>2
<1>5. CASE Environment /\ UNCHANGED views
  <2>1. CASE MainWakesSpuriously /\ UNCHANGED multiVars BY <1>5, <2>1, MainMemoryStep
  <2>2. CASE \E w \in Threads : \/ WorkerWakesSpuriously(w) /\ UNCHANGED multiVars
                                \/ SystemPanics(w)
    <3>1. PICK w \in Threads : \/ WorkerWakesSpuriously(w) /\ UNCHANGED multiVars
                               \/ SystemPanics(w)
      BY <2>2
    <3> QED BY <1>5, <3>1, QuietMemoryStep
  <2> QED BY <1>5, <2>1, <2>2 DEF Environment
<1>6. CASE UNCHANGED memoryVars BY <1>6, MainMemoryStep
<1> QED BY <1>1, <1>2, <1>3, <1>4, <1>5, <1>6 DEF MemoryNext

LEMMA ViewsInvariant == MemorySpec => [](ShutInv /\ MInv)
<1>1. MemoryInit => Init BY DEF MemoryInit
<1>2. ShutInv /\ [MemoryNext]_memoryVars => ShutInv' BY MemoryNextIsNext, ShutInvNext
<1> QED BY <1>1, <1>2, ShutInvInit, MInvInit, MInvNext, PTL DEF MemorySpec

(* After full_sync, or after full_shutdown without one, the main thread     *)
(* sees what all systems that ran have done (workgroups.rs:60, 69, 193).    *)
THEOREM MainSeesAll == MemorySpec => []MainSees
<1>1. ShutInv /\ MInv => MainSees
  <2> SUFFICES ASSUME ShutInv, MInv, main = "idle", synced \/ shutdown
               PROVE  completed \subseteq main_sees
    BY DEF MainSees
  <2>1. IInv BY DEF ShutInv
  <2>2. CASE synced
    <3>1. completed = settled BY <2>1, <2>2, AllSettled DEF IInv, RunsInv
    <3> QED BY <2>2, <3>1 DEF MInv, SettledSeen
  <2>3. CASE shutdown
    <3>1. next > NumThreads /\ next \in 1..NumThreads + 1 /\ NumThreads \in Nat
      BY <2>1, <2>3, NumThreadsAssumption DEF ShutInv, JoinedInv, IInv, TypeInv, TypeOK
    <3>2. \A w \in Threads : w < next BY <3>1 DEF Threads
    <3> QED BY <2>3, <3>2 DEF MInv, JoinedSeen
  <2> QED BY <2>2, <2>3
<1> QED BY <1>1, ViewsInvariant, PTL

(* What the systems of a run have done is seen by all systems of the next.  *)
THEOREM RunsBeforeSeen == MemorySpec => []RunsVisible
<1>1. MInv => RunsVisible BY DEF MInv
<1> QED BY <1>1, ViewsInvariant, PTL

(* A system that is ordered after others sees what one of them has done; of *)
(* all of them it is not true (DependenciesVisible).                        *)
THEOREM LastToCountSeen == MemorySpec => []LastVisible
<1>1. MInv => LastVisible BY DEF MInv
<1> QED BY <1>1, ViewsInvariant, PTL
=============================================================================
