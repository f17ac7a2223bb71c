-------------------------- MODULE MultiExecutorSafety --------------------------
(***************************************************************************)
(* IInv is an invariant of MultiExecutor, for every schedule, number of    *)
(* threads and counter width; and what follows from it.                    *)
(***************************************************************************)
EXTENDS MultiExecutorWorker

-----------------------------------------------------------------------------
(* The steps that touch neither tasks nor gates. *)

\* A worker that moves between places outside its tasks.
LEMMA QuietMove ==
    ASSUME IInv, NEW w \in Threads, NEW a, NEW b, pc[w] = a, pc' = [pc EXCEPT ![w] = b],
           a \notin InTask \cup {"dead"}, b \notin InTask \cup {"dead"},
           b \in Spent => a \in Spent
    PROVE  QuietPhases
<1>1. pc \in [Threads -> WorkerPCs] BY DEF IInv, TypeInv, TypeOK
<1>2. pc'[w] = b /\ \A v \in Threads \ {w} : pc'[v] = pc[v] BY <1>1
<1> QED BY <1>2 DEF QuietPhases, InTask

LEMMA QuietWorkerStep ==
    ASSUME IInv, TypeInv', NEW w \in Threads, UNCHANGED multiVars,
           \/ WorkerStarts(w) \/ PopNothing(w) \/ InjectorEmpty(w) \/ LoadTasks(w)
           \/ VictimEmpty(w) \/ WorkerExits(w) \/ WorkerStays(w) \/ WorkerReady(w)
           \/ WorkerWakesMain(w) \/ WorkerUnparked(w) \/ WorkerWakesSpuriously(w)
    PROVE  IInv'
<1> USE DEF Goto, queueVars, sharedVars, multiVars, taskVars
<1>1. /\ UNCHANGED taskVars /\ UNCHANGED <<main, synced>>
      /\ \E a, b : /\ pc[w] = a /\ pc' = [pc EXCEPT ![w] = b]
                   /\ a \notin InTask \cup {"dead"} /\ b \notin InTask \cup {"dead"}
                   /\ b \in Spent => a \in Spent
  <2> USE DEF InTask, Spent
  <2>1. CASE WorkerStarts(w)
    <3>1. tasks_done \in [Threads -> SUBSET Tasks] BY DEF IInv, TypeInv, TypeOK
    <3>2. tasks_done[w] = {} BY <2>1 DEF WorkerStarts, IInv, WorkerInv
    <3>3. tasks_done' = tasks_done BY <2>1, <3>1, <3>2 DEF WorkerStarts
    <3> QED BY <2>1, <3>3 DEF WorkerStarts
  <2>2. CASE PopNothing(w)
    <3>1. pc[w] = "pop" /\ pc' = [pc EXCEPT ![w] = "inject"] BY <2>2 DEF PopNothing
    <3>2. "pop" \notin InTask \cup {"dead"} /\ "inject" \notin InTask \cup {"dead"} /\ "inject" \notin Spent
      OBVIOUS
    <3> HIDE DEF InTask, Spent
    <3> QED BY <2>2, <3>1, <3>2 DEF PopNothing
  <2>3. CASE InjectorEmpty(w)
    <3>1. pc[w] = "inject" /\ pc' = [pc EXCEPT ![w] = "load"] BY <2>3 DEF InjectorEmpty
    <3>2. "inject" \notin InTask \cup {"dead"} /\ "load" \notin InTask \cup {"dead"} /\ "load" \notin Spent
      OBVIOUS
    <3> HIDE DEF InTask, Spent
    <3> QED BY <2>3, <3>1, <3>2 DEF InjectorEmpty
  <2>4. CASE LoadTasks(w)
    <3>1. /\ pc[w] = "load"
          /\ \E b \in {"settle", "steal"} : pc' = [pc EXCEPT ![w] = b]
      BY <2>4 DEF LoadTasks
    <3>2. /\ "load" \notin InTask \cup {"dead"}
          /\ \A b \in {"settle", "steal"} : b \notin InTask \cup {"dead"} /\ b \notin Spent
      OBVIOUS
    <3> HIDE DEF InTask, Spent
    <3> QED BY <2>4, <3>1, <3>2 DEF LoadTasks
  <2>5. CASE VictimEmpty(w)
    <3>1. pc[w] = "steal" /\ pc' = [pc EXCEPT ![w] = "settle"] BY <2>5 DEF VictimEmpty
    <3>2. "steal" \notin InTask \cup {"dead"} /\ "settle" \notin InTask \cup {"dead"} /\ "settle" \notin Spent
      OBVIOUS
    <3> HIDE DEF InTask, Spent
    <3> QED BY <2>5, <3>1, <3>2 DEF VictimEmpty
  <2>6. CASE WorkerExits(w) BY <2>6 DEF WorkerExits
  <2>7. CASE WorkerStays(w) BY <2>7 DEF WorkerStays
  <2>8. CASE WorkerReady(w) BY <2>8 DEF WorkerReady
  <2>9. CASE WorkerWakesMain(w) BY <2>9 DEF WorkerWakesMain
  <2>10. CASE WorkerUnparked(w) BY <2>10 DEF WorkerUnparked
  <2>11. CASE WorkerWakesSpuriously(w) BY <2>11 DEF WorkerWakesSpuriously
  <2> QED BY <2>1, <2>2, <2>3, <2>4, <2>5, <2>6, <2>7, <2>8, <2>9, <2>10, <2>11
<1>2. QuietPhases BY <1>1, QuietMove
<1>3. main' = "push" <=> main = "push" BY <1>1
<1>4. synced => main' \notin {"push", "ready"} BY <1>1 DEF IInv, RunsInv
<1>5. UNCHANGED taskVars /\ UNCHANGED synced BY <1>1
<1> QED BY <1>2, <1>3, <1>4, <1>5, QuietStep

LEMMA SystemPanicsStep ==
    ASSUME IInv, TypeInv', NEW w \in Threads, SystemPanics(w)
    PROVE  IInv'
<1>1. /\ pc[w] = "system" /\ pc' = [pc EXCEPT ![w] = "dead"]
      /\ UNCHANGED <<queueVars, sharedVars, main, next, multiVars>>
  BY DEF SystemPanics, WorkerDies, Goto
<1>2. pc \in [Threads -> WorkerPCs] BY DEF IInv, TypeInv, TypeOK
<1>3. pc'[w] = "dead" /\ \A v \in Threads \ {w} : pc'[v] = pc[v] BY <1>1, <1>2
<1>4. QuietPhases BY <1>1, <1>3 DEF QuietPhases, InTask, Spent
<1>5. UNCHANGED taskVars /\ UNCHANGED <<main, synced>>
  BY <1>1 DEF taskVars, queueVars, sharedVars, multiVars
<1>6. main' = "push" <=> main = "push" BY <1>5
<1>7. synced => main' \notin {"push", "ready"} BY <1>5 DEF IInv, RunsInv
<1> QED BY <1>4, <1>5, <1>6, <1>7, QuietStep

\* Everything the main thread does but begin a run, push, count and be synced.
LEMMA QuietMainStep ==
    ASSUME IInv, TypeInv',
           \/ ReadyThread \/ ExecuteReturns
           \/ /\ UNCHANGED multiVars
              /\ \/ SyncParks \/ MainUnparked \/ MainWakesSpuriously \/ FullSync \/ FullShutdown
                 \/ ShutdownUnparks \/ ShutdownJoins \/ ShutdownPanics \/ ShutdownReturns
    PROVE  IInv'
<1> USE DEF queueVars, sharedVars, multiVars, taskVars
<1>1. /\ UNCHANGED taskVars /\ UNCHANGED <<pc, synced>>
      /\ main \notin {"push"} /\ main' \notin {"push"}
      /\ main' = "ready" => main = "ready"
  <2>1. CASE ReadyThread BY <2>1 DEF ReadyThread
  <2>2. CASE ExecuteReturns BY <2>2 DEF ExecuteReturns
  <2>3. CASE UNCHANGED multiVars /\ SyncParks BY <2>3 DEF SyncParks
  <2>4. CASE UNCHANGED multiVars /\ MainUnparked BY <2>4 DEF MainUnparked
  <2>5. CASE UNCHANGED multiVars /\ MainWakesSpuriously BY <2>5 DEF MainWakesSpuriously
  <2>6. CASE UNCHANGED multiVars /\ FullSync BY <2>6 DEF FullSync
  <2>7. CASE UNCHANGED multiVars /\ FullShutdown BY <2>7 DEF FullShutdown
  <2>8. CASE UNCHANGED multiVars /\ ShutdownUnparks BY <2>8 DEF ShutdownUnparks
  <2>9. CASE UNCHANGED multiVars /\ ShutdownJoins BY <2>9 DEF ShutdownJoins
  <2>10. CASE UNCHANGED multiVars /\ ShutdownPanics BY <2>10 DEF ShutdownPanics
  <2>11. CASE UNCHANGED multiVars /\ ShutdownReturns BY <2>11 DEF ShutdownReturns
  <2> QED BY <2>1, <2>2, <2>3, <2>4, <2>5, <2>6, <2>7, <2>8, <2>9, <2>10, <2>11
<1>2. QuietPhases BY <1>1 DEF QuietPhases, InTask
<1>3. main' = "push" <=> main = "push" BY <1>1
<1>4. synced => main' \notin {"push", "ready"} BY <1>1 DEF IInv, RunsInv
<1>5. UNCHANGED taskVars /\ UNCHANGED synced BY <1>1
<1> QED BY <1>2, <1>3, <1>4, <1>5, QuietStep

-----------------------------------------------------------------------------
(* The steps of execute() and the end of full_sync. *)

\* When every task of every run is settled, nothing is left of the last run.
LEMMA AllSettled ==
    ASSUME IInv, settled = RunTasks(runs)
    PROVE  /\ injector = {} /\ completed = RunTasks(runs)
           /\ \A w \in Threads : /\ deque[w] = {} /\ running[w] = {} /\ tasks_done[w] = {}
                                 /\ pc[w] \notin InTask
           /\ \A s \in Systems : dispatched[s] = runs
           /\ \A s \in Systems : dependency_gate[s] = 0
<1>1. Dispatched \subseteq settled BY TaskFacts DEF IInv
<1>2. injector = {} BY <1>1, PlaceFacts DEF IInv
<1>3. completed = RunTasks(runs) BY <1>1 DEF IInv, CompletedInv
<1>4. \A w \in Threads : deque[w] = {} /\ running[w] = {} /\ tasks_done[w] = {}
  BY <1>1, PlaceFacts DEF IInv
<1>5. \A w \in Threads : pc[w] \notin InTask BY <1>4 DEF IInv, WorkerInv, InTask
<1>6. runs \in Nat /\ \A s \in Systems : dispatched[s] \in Nat /\ dispatched[s] <= runs
  BY DEF IInv, TypeInv, TypeOK, RunsInv
<1>7. runs > 0 => \A s \in Systems : Released(s) /\ dispatched[s] = runs
  <2> SUFFICES ASSUME runs > 0, NEW s \in Systems PROVE Released(s) /\ dispatched[s] = runs
    OBVIOUS
  <2>1. Current(s) \in settled BY <1>6 DEF RunTasks, Current
  <2>2. Current(s) \in Dispatched BY <2>1, PlaceFacts DEF IInv
  <2> QED BY <2>2, TaskFacts DEF IInv
<1>8. \A s \in Systems : dispatched[s] = runs BY <1>6, <1>7
<1>9. ASSUME NEW t \in Gated PROVE dependency_gate[t] = 0
  <2>1. \A w \in Threads : ~Pushing(w, t) BY <1>5 DEF Pushing, InTask
  <2>2. CASE runs > 0
    <3>1. t \in Batch(t) /\ t \in Systems BY BatchFacts DEF Batch
    <3>2. Opened(t) BY <1>7, <2>2, <3>1 DEF IInv, GateInv
    <3> QED BY <2>1, <3>2 DEF IInv, GateInv
  <2>3. CASE runs = 0
    <3>1. completed = {} BY <1>3, <2>3 DEF RunTasks
    <3>2. Counted(t) = {} BY <3>1 DEF Counted
    <3>3. ~Opened(t) BY <3>2, GateCounts DEF Opened
    <3> QED BY <3>2, <3>3, FS_EmptySet DEF IInv, GateInv
  <2> QED BY <1>6, <2>2, <2>3
<1>10. \A s \in Systems : dependency_gate[s] = 0 BY <1>9 DEF IInv, UngatedInv
<1> QED BY <1>2, <1>3, <1>4, <1>5, <1>8, <1>10

LEMMA RunStep ==
    ASSUME IInv, TypeInv', Run
    PROVE  IInv'
<1>1. /\ synced /\ main = "idle"
      /\ main' = "push" /\ runs' = runs + 1 /\ synced' = FALSE /\ to_push' = RootOrder
      /\ UNCHANGED <<queueVars, sharedVars, pc, next, dispatched, dependency_gate,
                     deps, pushq, woken, completed>>
  BY DEF Run, ExecuteBegins
<1>2. UNCHANGED <<injector, deque, running, tasks_done, settled, tasks>>
  BY <1>1 DEF queueVars, sharedVars
<1>3. settled = RunTasks(runs) /\ runs \in Nat BY <1>1 DEF IInv, RunsInv, TypeInv, TypeOK
<1>4. /\ injector = {} /\ completed = RunTasks(runs)
      /\ \A w \in Threads : /\ deque[w] = {} /\ running[w] = {} /\ tasks_done[w] = {}
                            /\ pc[w] \notin InTask
      /\ \A s \in Systems : dispatched[s] = runs
      /\ \A s \in Systems : dependency_gate[s] = 0
  BY <1>3, AllSettled
<1>5. \A s \in Systems : ~Released(s)' BY <1>1, <1>3, <1>4 DEF Released
<1>6. Conservation' BY <1>1, <1>2 DEF IInv, Conservation, Dispatched
<1>7. RunsInv' BY <1>1, <1>2, <1>3, <1>4 DEF RunsInv, RunTasks
<1>8. RootInv'
  <2>1. Batch(root) \subseteq Systems BY BatchFacts DEF Triggers
  <2> QED BY <1>1, <1>5, <2>1, DispatchOrders DEF RootInv
<1>9. WorkerInv' BY <1>1, <1>2, <1>4 DEF WorkerInv, InTask
<1>10. CompletedInv' BY <1>1, <1>2 DEF IInv, CompletedInv, Finishing, Dispatched
<1>11. GateInv'
  <2>1. ASSUME NEW t \in Gated PROVE Counted(t)' = {}
    <3>1. \A p : Current(p)' \notin completed BY <1>1, <1>3, <1>4 DEF Current, RunTasks
    <3> QED BY <1>1, <3>1 DEF Counted
  <2>2. \A t \in Gated : ~Opened(t)' BY <2>1, GateCounts DEF Opened
  <2>3. \A w \in Threads : \A t \in Gated : ~Pushing(w, t)'
    BY <1>1, <1>4 DEF Pushing, InTask
  <2>4. \A t \in Gated : t \in Systems /\ Batch(t) \subseteq Systems BY BatchFacts DEF Gated
  <2>5. \A t \in Gated : dependency_gate'[t] = Cardinality(Counted(t)')
    BY <1>1, <1>4, <2>1, <2>4, FS_EmptySet
  <2> QED BY <1>5, <2>2, <2>3, <2>4, <2>5 DEF GateInv
<1>12. UngatedInv' BY <1>1 DEF IInv, UngatedInv
<1>13. CounterOK'
  <2>1. CountedOut' = 0
    <3>1. \A s \in Systems : <<s, runs'>> \notin settled' BY <1>1, <1>2, <1>3 DEF RunTasks
    <3>2. {s \in Systems : <<s, runs>> \in settled}' = {} BY <3>1
    <3> QED BY <3>2, FS_EmptySet DEF CountedOut
  <2>2. CountedIn' = 0 BY <1>1 DEF CountedIn
  <2>3. CountedIn = CountedOut
    <3>1. CASE runs = 0
      <4>1. {s \in Systems : <<s, runs>> \in settled} = {} BY <1>3, <3>1 DEF RunTasks
      <4> QED BY <3>1, <4>1, FS_EmptySet DEF CountedIn, CountedOut
    <3>2. CASE runs > 0
      <4>1. {s \in Systems : <<s, runs>> \in settled} = Systems BY <1>3, <3>2 DEF RunTasks
      <4>2. CountedOut = Cardinality(Systems) BY <4>1 DEF CountedOut
      <4>3. runs # 0 /\ main # "push" BY <1>1, <1>3, <3>2
      <4>4. CountedIn = Cardinality(Systems) BY <4>3 DEF CountedIn
      <4> QED BY <4>2, <4>4
    <3> QED BY <1>3, <3>1, <3>2
  <2>4. CountedIn - CountedOut = CountedIn' - CountedOut' BY <2>1, <2>2, <2>3, CountTypes
  <2> QED BY <1>2, <2>4 DEF IInv, CounterOK, WrappingSub
<1> QED BY <1>6, <1>7, <1>8, <1>9, <1>10, <1>11, <1>12, <1>13 DEF IInv

LEMMA PushRootStep ==
    ASSUME IInv, TypeInv', PushRoot
    PROVE  IInv'
<1> DEFINE e == Head(to_push)
<1>1. /\ main = "push" /\ to_push # <<>> /\ to_push' = Tail(to_push)
      /\ DispatchSystem(e)
      /\ UNCHANGED <<deque, running, tasks_done, settled, tasks, pc, main, dependency_gate, deps,
                     pushq, completed, runs, synced>>
  BY DEF PushRoot, sharedVars
<1>2. /\ to_push \in Seq(Systems) /\ IsInjective(to_push)
      /\ Range(to_push) = {s \in Batch(root) : ~Released(s)}
  BY <1>1 DEF IInv, TypeInv, TypeOK, RootInv
<1>3. /\ e \in Range(to_push)
      /\ IsInjective(Tail(to_push))
      /\ Range(Tail(to_push)) = Range(to_push) \ {e}
  BY <1>1, <1>2, TailRange
<1> HIDE DEF e
<1>4. Batch(root) \subseteq Systems BY BatchFacts DEF Triggers
<1>5. e \in Systems /\ e \in Batch(root) /\ ~Released(e) BY <1>2, <1>3, <1>4
<1>6. runs > 0 BY <1>1 DEF IInv, RunsInv
<1>7. /\ Conservation'
      /\ \A r \in Systems : Released(r)' <=> Released(r) \/ r = e
      /\ \A r \in Systems : dispatched'[r] <= runs /\ runs <= dispatched'[r] + 1
      /\ injector' \cap completed = {}
      /\ completed \subseteq Dispatched'
  BY <1>1, <1>5, <1>6, DispatchStep
<1>8. RunsInv' BY <1>1, <1>7 DEF IInv, RunsInv, RunTasks
<1>9. RootInv'
  <2>1. Range(Tail(to_push)) = {s \in Batch(root) : ~Released(s)'}
    BY <1>2, <1>3, <1>4, <1>7
  <2> QED BY <1>1, <1>3, <2>1 DEF RootInv
<1>10. WorkerInv' BY <1>1 DEF IInv, WorkerInv, Current
<1>11. CompletedInv' BY <1>1, <1>7 DEF IInv, CompletedInv, Finishing
<1>12. GateInv'
  <2>1. \A u \in Gated : Counted(u)' = Counted(u) BY <1>1 DEF Counted, Current
  <2>2. \A u \in Gated : Opened(u)' <=> Opened(u) BY <2>1 DEF Opened
  <2>3. \A v \in Threads : \A u \in Gated : Pushing(v, u)' <=> Pushing(v, u)
    BY <1>1 DEF Pushing
  <2>4. \A u \in Gated : \A r \in Batch(u) : Released(r)' <=> Released(r)
    <3>1. \A u \in Gated : Batch(u) \subseteq Systems /\ e \notin Batch(u)
      BY <1>5, BatchFacts DEF Gated
    <3> QED BY <1>7, <3>1
  <2> QED BY <1>1, <2>1, <2>2, <2>3, <2>4 DEF IInv, GateInv
<1>13. UngatedInv' BY <1>1 DEF IInv, UngatedInv
<1>14. CounterOK' BY <1>1 DEF IInv, CounterOK, CountedIn, CountedOut
<1> QED BY <1>7, <1>8, <1>9, <1>10, <1>11, <1>12, <1>13, <1>14 DEF IInv

LEMMA AddTasksStep ==
    ASSUME IInv, TypeInv', AddTasks
    PROVE  IInv'
<1>1. /\ main = "push" /\ to_push = <<>> /\ main' = "ready"
      /\ tasks' = WrappingAdd(tasks, Cardinality(Systems))
      /\ UNCHANGED <<queueVars, pc, dispatched, dependency_gate, deps, pushq, to_push, completed,
                     runs, synced>>
  BY DEF AddTasks
<1>2. UNCHANGED <<injector, deque, running, tasks_done, settled>> BY <1>1 DEF queueVars
<1>3. Conservation' BY <1>1, <1>2 DEF IInv, Conservation, Dispatched
<1>4. RunsInv' BY <1>1, <1>2 DEF IInv, RunsInv, RunTasks
<1>5. RootInv'
  <2>1. \A s \in Batch(root) : Released(s)
    <3>1. Range(to_push) = {} BY <1>1, EmptyRange
    <3> QED BY <1>1, <3>1 DEF IInv, RootInv
  <2> QED BY <1>1, <2>1 DEF RootInv, Released
<1>6. WorkerInv' BY <1>1, <1>2 DEF IInv, WorkerInv, Current
<1>7. CompletedInv' BY <1>1, <1>2 DEF IInv, CompletedInv, Finishing, Dispatched
<1>8. GateInv' /\ UngatedInv' BY <1>1, <1>2, GateSame DEF IInv
<1>9. CounterOK'
  <2> DEFINE n == Cardinality(Systems)
             a == 0 - CountedOut
  <2>1. runs > 0 BY <1>1 DEF IInv, RunsInv
  <2>2. CountedIn = 0 /\ CountedIn' = n BY <1>1, <2>1 DEF CountedIn
  <2>3. CountedOut' = CountedOut BY <1>1, <1>2 DEF CountedOut
  <2>4. tasks = a % Usize BY <2>2 DEF IInv, CounterOK, WrappingSub
  <2>5. tasks' = ((a % Usize) + n) % Usize BY <1>1, <2>4 DEF WrappingAdd
  <2>6. /\ Usize \in Nat \ {0} /\ a \in Int /\ n \in Int
        /\ -Usize < a /\ a < Usize /\ -Usize < a + n /\ a + n < Usize
        /\ -Usize < n /\ n < Usize
    BY CountTypes, UsizeAssumption, WidthAssumption, OrderTypes
  <2>7. a + n = CountedIn' - CountedOut' BY <2>2, <2>3, CountTypes, OrderTypes
  <2> HIDE DEF a, n
  <2>8. tasks' = (a + n) % Usize BY <2>5, <2>6, ModShift
  <2> QED BY <2>7, <2>8 DEF CounterOK, WrappingSub
<1> QED BY <1>3, <1>4, <1>5, <1>6, <1>7, <1>8, <1>9 DEF IInv

\* Between calls and in full_sync a counter of zero means that every task of
\* every run has been settled.
LEMMA ZeroMeansSettled ==
    ASSUME IInv, main # "push", tasks = 0
    PROVE  settled = RunTasks(runs)
<1>1. runs \in Nat BY DEF IInv, TypeInv, TypeOK
<1>2. settled \subseteq RunTasks(runs) BY PlaceFacts, TaskFacts DEF IInv
<1>3. CASE runs = 0 BY <1>2, <1>3 DEF RunTasks
<1>4. CASE runs > 0
  <2> DEFINE S == {s \in Systems : Current(s) \in settled}
             n == Cardinality(Systems)
  <2>1. CountedIn = n BY <1>4 DEF CountedIn
  <2>2. /\ CountedOut \in Nat /\ CountedOut <= n /\ n \in Nat /\ n < Usize
        /\ CountedOut = Cardinality(S)
    BY CountTypes, OrderTypes, WidthAssumption
  <2>3. (n - CountedOut) % Usize = 0
    BY <2>1 DEF IInv, CounterOK, WrappingSub
  <2>4. (n - CountedOut) % Usize = n - CountedOut
    BY <2>2, UsizeAssumption
  <2>5. Cardinality(S) = n BY <2>2, <2>3, <2>4
  <2>6. IsFiniteSet(Systems) /\ S \subseteq Systems BY GraphAssumption DEF GraphOK
  <2>7. S = Systems BY <2>5, <2>6, FS_Subset
  <2>8. \A s \in Systems : <<s, runs>> \in settled BY <2>7 DEF Current
  <2>9. RunTasks(runs - 1) \subseteq settled BY DEF IInv, RunsInv
  <2>10. RunTasks(runs) \subseteq settled
    <3> SUFFICES ASSUME NEW s \in Systems, NEW k \in 1..runs PROVE <<s, k>> \in settled
      BY DEF RunTasks
    <3>1. k = runs \/ k \in 1..runs - 1 BY <1>1
    <3> QED BY <2>8, <2>9, <3>1 DEF RunTasks
  <2> QED BY <1>2, <2>10
<1> QED BY <1>1, <1>3, <1>4

LEMMA SyncedReturnsStep ==
    ASSUME IInv, TypeInv', SyncedReturns
    PROVE  IInv'
<1>1. /\ main = "sync" /\ tasks = 0 /\ main' = "idle" /\ synced' = TRUE
      /\ UNCHANGED <<queueVars, sharedVars, pc, next, dispatched, dependency_gate, deps, pushq,
                     to_push, woken, completed, runs>>
  BY DEF SyncedReturns, SyncReturns
<1>2. UNCHANGED <<injector, deque, running, tasks_done, settled, tasks>>
  BY <1>1 DEF queueVars, sharedVars
<1>3. settled = RunTasks(runs) BY <1>1, ZeroMeansSettled
<1>4. Conservation' BY <1>1, <1>2 DEF IInv, Conservation, Dispatched
<1>5. RunsInv' BY <1>1, <1>2, <1>3 DEF IInv, RunsInv, RunTasks
<1>6. RootInv' BY <1>1 DEF IInv, RootInv, Released
<1>7. WorkerInv' BY <1>1, <1>2 DEF IInv, WorkerInv, Current
<1>8. CompletedInv' BY <1>1, <1>2 DEF IInv, CompletedInv, Finishing, Dispatched
<1>9. GateInv' /\ UngatedInv' BY <1>1, <1>2, GateSame DEF IInv
<1>10. CounterOK' BY <1>1, <1>2 DEF IInv, CounterOK, CountedIn, CountedOut
<1> QED BY <1>4, <1>5, <1>6, <1>7, <1>8, <1>9, <1>10 DEF IInv

-----------------------------------------------------------------------------
(* The invariant. *)

LEMMA IInvInit == Init => IInv
<1> SUFFICES ASSUME Init PROVE IInv
  OBVIOUS
<1>1. TypeInv BY TypeInit
<1>2. /\ injector = {} /\ settled = {} /\ completed = {} /\ tasks = 0
      /\ runs = 0 /\ main = "idle" /\ synced
      /\ \A s \in Systems : dispatched[s] = 0 /\ dependency_gate[s] = 0
      /\ \A w \in Threads : /\ pc[w] = "start" /\ deque[w] = {} /\ running[w] = {}
                            /\ tasks_done[w] = {}
  BY DEF Init, WorkgroupInit
<1>3. Dispatched = {} BY <1>2 DEF Dispatched
<1>4. Conservation BY <1>2, <1>3 DEF Conservation
<1>5. RunsInv BY <1>2 DEF RunsInv, RunTasks
<1>6. RootInv BY <1>2 DEF RootInv
<1>7. WorkerInv BY <1>2 DEF WorkerInv
<1>8. CompletedInv BY <1>2 DEF CompletedInv, Finishing
<1>9. GateInv
  <2>1. \A t \in Gated : Counted(t) = {} BY <1>2 DEF Counted
  <2>2. \A t \in Gated : ~Opened(t) BY <2>1, GateCounts DEF Opened
  <2>3. \A w \in Threads : \A t \in Gated : ~Pushing(w, t) BY <1>2 DEF Pushing
  <2>4. \A s \in Systems : ~Released(s) BY <1>2 DEF Released
  <2>5. \A t \in Gated : t \in Systems /\ Batch(t) \subseteq Systems BY BatchFacts DEF Gated
  <2>6. \A t \in Gated : dependency_gate[t] = Cardinality(Counted(t))
    BY <1>2, <2>1, <2>5, FS_EmptySet
  <2> QED BY <2>2, <2>3, <2>4, <2>5, <2>6 DEF GateInv
<1>10. UngatedInv BY <1>2 DEF UngatedInv
<1>11. CounterOK
  <2>1. {s \in Systems : <<s, runs>> \in settled} = {} BY <1>2
  <2>2. CountedOut = 0 BY <2>1, FS_EmptySet DEF CountedOut
  <2>3. CountedIn = 0 BY <1>2 DEF CountedIn
  <2>4. 0 % Usize = 0 BY UsizeAssumption
  <2> QED BY <1>2, <2>2, <2>3, <2>4 DEF CounterOK, WrappingSub
<1> QED BY <1>1, <1>4, <1>5, <1>6, <1>7, <1>8, <1>9, <1>10, <1>11 DEF IInv

LEMMA IInvNext == IInv /\ [Next]_vars => IInv'
<1> SUFFICES ASSUME IInv, [Next]_vars PROVE IInv'
  OBVIOUS
<1>1. TypeInv' BY TypeNext DEF IInv
<1>2. CASE \E w \in Threads : Worker(w)
  <2>1. PICK w \in Threads : Worker(w) BY <1>2
  <2>2. CASE WorkerStep(w) /\ UNCHANGED multiVars
    <3>1. CASE PopLocal(w) BY <1>1, <2>2, <3>1, PopLocalStep
    <3>2. CASE StealFromInjector(w) BY <1>1, <2>2, <3>2, StealFromInjectorStep
    <3>3. CASE StealFromVictim(w) BY <1>1, <2>2, <3>3, StealFromVictimStep
    <3>4. CASE TaskReturns(w) BY <1>1, <2>2, <3>4, TaskReturnsStep
    <3>5. CASE Settle(w) BY <1>1, <2>2, <3>5, SettleStep
    <3> QED BY <1>1, <2>2, <3>1, <3>2, <3>3, <3>4, <3>5, QuietWorkerStep DEF WorkerStep
  <2>3. CASE SystemReturns(w) BY <1>1, <2>3, SystemReturnsStep
  <2>4. CASE GateStaysShut(w) BY <1>1, <2>4, GateStaysShutStep
  <2>5. CASE GateOpens(w) BY <1>1, <2>5, GateOpensStep
  <2>6. CASE PushDependent(w) BY <1>1, <2>6, PushDependentStep
  <2>7. CASE ResetGate(w) BY <1>1, <2>7, ResetGateStep
  <2> QED BY <2>1, <2>2, <2>3, <2>4, <2>5, <2>6, <2>7 DEF Worker
<1>3. CASE Main \/ Client
  <2>1. CASE Run BY <1>1, <2>1, RunStep
  <2>2. CASE PushRoot BY <1>1, <2>2, PushRootStep
  <2>3. CASE AddTasks BY <1>1, <2>3, AddTasksStep
  <2>4. CASE SyncedReturns BY <1>1, <2>4, SyncedReturnsStep
  <2> QED BY <1>1, <1>3, <2>1, <2>2, <2>3, <2>4, QuietMainStep DEF Main, Client
<1>4. CASE Environment
  <2>1. CASE MainWakesSpuriously /\ UNCHANGED multiVars BY <1>1, <2>1, QuietMainStep
  <2>2. CASE \E w \in Threads : WorkerWakesSpuriously(w) /\ UNCHANGED multiVars
    BY <1>1, <2>2, QuietWorkerStep
  <2>3. CASE \E w \in Threads : SystemPanics(w) BY <1>1, <2>3, SystemPanicsStep
  <2> QED BY <1>4, <2>1, <2>2, <2>3 DEF Environment
<1>5. CASE UNCHANGED vars
  <2>1. UNCHANGED taskVars /\ UNCHANGED <<pc, main, synced>>
    BY <1>5 DEF vars, workgroupVars, taskVars, queueVars, sharedVars, multiVars
  <2>2. QuietPhases BY <2>1 DEF QuietPhases, InTask
  <2>3. synced => main' \notin {"push", "ready"} BY <2>1 DEF IInv, RunsInv
  <2> QED BY <1>1, <2>1, <2>2, <2>3, QuietStep
<1> QED BY <1>2, <1>3, <1>4, <1>5 DEF Next

(* The invariant holds of every schedule, number of threads and width of    *)
(* the counter: a gate counts its predecessors once per run, the last of    *)
(* them opens it, and it is shut again before the run is over.              *)
THEOREM GatesOpenOncePerRun == Safety => []IInv
BY IInvInit, IInvNext, PTL DEF Safety

(* Work stealing loses and duplicates no task, however the batches are      *)
(* taken (workgroups.rs:160-190).                                           *)
THEOREM TasksConserved == Safety => []Conservation
<1>1. IInv => Conservation BY DEF IInv
<1> QED BY GatesOpenOncePerRun, <1>1, PTL

(* The counter, which workers take below zero before execute() has added    *)
(* the schedule to it (multi.rs:38), is right modulo its width.             *)
THEOREM CounterCorrect == Safety => []CounterOK
<1>1. IInv => CounterOK BY DEF IInv
<1> QED BY GatesOpenOncePerRun, <1>1, PTL

(* full_sync never returns early, and what it leaves is ready for the next  *)
(* run.                                                                     *)
THEOREM SyncIsSound == Safety => []SyncSound
<1>1. IInv => SyncSound
  <2> SUFFICES ASSUME IInv, synced PROVE /\ completed = RunTasks(runs)
                                         /\ injector = {}
                                         /\ \A w \in Threads : deque[w] = {} /\ running[w] = {} /\ tasks_done[w] = {}
                                         /\ \A s \in Systems : dependency_gate[s] = 0
    BY DEF SyncSound
  <2>1. settled = RunTasks(runs) BY DEF IInv, RunsInv
  <2> QED BY <2>1, AllSettled
<1> QED BY GatesOpenOncePerRun, <1>1, PTL

-----------------------------------------------------------------------------
(* The order of systems. *)

\* A system that has been dispatched in this run has been released by a gate
\* that had counted everything it waits for, or by the root batch.
LEMMA ReleasedBeforeRan ==
    ASSUME IInv, NEW s \in Systems, Released(s), NEW p \in Before[s]
    PROVE  p \in Systems /\ Current(p) \in completed
<1>1. PICK t \in Triggers : s \in Batch(t) /\ p \in Preds(t) BY DEF Before
<1>2. t \in Gated BY <1>1, GraphAssumption DEF GraphOK, CountsOK, Gated
<1>3. Opened(t) BY <1>1, <1>2 DEF IInv, GateInv
<1>4. p \in Systems BY <1>1 DEF Preds
<1>5. p \in Counted(t) BY <1>1, <1>3 DEF Opened
<1> QED BY <1>4, <1>5 DEF Counted

\* So of a task of any run, whatever has been dispatched.
LEMMA DispatchedBeforeRan ==
    ASSUME IInv, NEW t \in Dispatched, NEW p \in Before[t[1]]
    PROVE  <<p, t[2]>> \in completed
<1>1. PICK s \in Systems : \E k \in 1..dispatched[s] : t = <<s, k>> BY DEF Dispatched
<1>2. PICK k \in 1..dispatched[s] : t = <<s, k>> BY <1>1
<1>3. runs \in Nat /\ dispatched[s] \in Nat /\ dispatched[s] <= runs
  BY DEF IInv, TypeInv, TypeOK, RunsInv
<1>4. p \in Systems
  <2>1. PICK u \in Triggers : p \in Preds(u) BY <1>2 DEF Before
  <2> QED BY <2>1 DEF Preds
<1>5. CASE k = runs
  <2>1. Released(s) BY <1>3, <1>5 DEF Released
  <2> QED BY <1>2, <1>5, <2>1, ReleasedBeforeRan DEF Current
<1>6. CASE k # runs
  <2>1. k \in 1..runs - 1 BY <1>3, <1>6
  <2>2. <<p, k>> \in RunTasks(runs - 1) BY <1>4, <2>1 DEF RunTasks
  <2> QED BY <1>2, <2>2 DEF IInv, RunsInv, CompletedInv
<1> QED BY <1>5, <1>6

(* What single.rs:66-67 says of the gates, of every run of every schedule:  *)
(* a system in progress or done follows, in its own run, everything ordered *)
(* before it.                                                               *)
THEOREM DependenciesRunFirst == Safety => []DependenciesHaveRun
<1>1. IInv => DependenciesHaveRun
  <2> SUFFICES ASSUME IInv, NEW t \in completed \cup UNION {running[w] : w \in Threads},
                      NEW p \in Before[t[1]]
               PROVE  <<p, t[2]>> \in completed
    BY DEF DependenciesHaveRun
  <2>1. t \in Dispatched BY PlaceFacts DEF IInv, CompletedInv
  <2> QED BY <2>1, DispatchedBeforeRan
<1> QED BY GatesOpenOncePerRun, <1>1, PTL

-----------------------------------------------------------------------------
(* MultiExecutor implements OrderedRun. *)

Started == completed \cup UNION {running[w] : w \in Threads}

\* Most steps start and finish no system.
LEMMA NothingStarts ==
    ASSUME UNCHANGED <<running, completed, runs>>
    PROVE  UNCHANGED Ordered!orderedVars
BY DEF Ordered!orderedVars

\* A worker that takes a task starts its system, and its dependencies are
\* done.
LEMMA TakingStarts ==
    ASSUME IInv, NEW w \in Threads, NEW t, running[w] = {},
           t \in injector \/ \E v \in Threads : t \in deque[v],
           running' = [running EXCEPT ![w] = {t}], UNCHANGED <<completed, runs>>
    PROVE  Ordered!OrderedNext
<1>1. t \in Dispatched \ settled BY PlaceFacts DEF IInv
<1>2. PICK s \in Systems : t = Current(s) /\ Released(s) BY <1>1, TaskFacts DEF IInv
<1>3. runs \in Nat /\ runs > 0
  BY <1>2, TaskFacts DEF IInv, TypeInv, TypeOK
<1>4. t \notin Started
  <2>1. t \notin completed BY DEF IInv, CompletedInv
  <2>2. ASSUME NEW v \in Threads PROVE t \notin running[v]
    <3>1. CASE t \in injector BY <3>1 DEF IInv, Conservation
    <3>2. CASE \E x \in Threads : t \in deque[x]
      <4>1. PICK x \in Threads : t \in deque[x] BY <3>2
      <4>2. CASE x = v BY <4>1, <4>2 DEF IInv, Conservation
      <4>3. CASE x # v
        <5>1. (deque[x] \cup running[x] \cup tasks_done[x])
                 \cap (deque[v] \cup running[v] \cup tasks_done[v]) = {}
          BY <4>3 DEF IInv, Conservation
        <5> QED BY <4>1, <5>1
      <4> QED BY <4>2, <4>3
    <3> QED BY <3>1, <3>2
  <2> QED BY <2>1, <2>2 DEF Started
<1>5. Started' = Started \cup {t}
  <2>1. running \in [Threads -> SUBSET Tasks] BY DEF IInv, TypeInv, TypeOK
  <2>2. running'[w] = {t} /\ \A v \in Threads \ {w} : running'[v] = running[v] BY <2>1
  <2>3. UNION {running'[v] : v \in Threads} = {t} \cup UNION {running[v] : v \in Threads}
    BY <2>2
  <2> QED BY <2>3 DEF Started
<1>6. \A p \in Before[s] : <<p, runs>> \in completed
  BY <1>2, ReleasedBeforeRan DEF Current
<1>7. PICK k \in 1..runs : k = runs BY <1>3
<1>8. Ordered!Start(s, k)
  <2>1. <<s, k>> \in Systems \X (1..runs) BY <1>3, <1>7
  <2> QED BY <1>2, <1>4, <1>5, <1>6, <1>7, <2>1 DEF Ordered!Start, Started, Current
<1> QED BY <1>8 DEF Ordered!OrderedNext

\* A system that returns had been started, and not returned before.
LEMMA ReturningFinishes ==
    ASSUME IInv, NEW w \in Threads, SystemReturns(w)
    PROVE  Ordered!OrderedNext
<1>1. PICK t \in running[w] : completed' = completed \cup {t} BY DEF SystemReturns
<1>2. pc[w] = "system" BY DEF SystemReturns
<1>3. PICK s \in Systems : running[w] = {Current(s)} /\ runs > 0 /\ runs \in Nat
  BY <1>2, InSystem DEF InTask
<1>4. t = <<s, runs>> BY <1>1, <1>3 DEF Current
<1>5. t \notin completed BY <1>2 DEF IInv, CompletedInv, Finishing
<1>6. UNCHANGED <<running, runs>> BY DEF SystemReturns, queueVars
<1>7. t \in Started /\ Started' = Started BY <1>1, <1>6 DEF Started
<1>8. PICK k \in 1..runs : k = runs BY <1>3
<1>9. Ordered!Finish(s, k)
  BY <1>1, <1>4, <1>5, <1>6, <1>7, <1>8 DEF Ordered!Finish, Started
<1> QED BY <1>9 DEF Ordered!OrderedNext

\* Every step is a step of OrderedRun or leaves its variables alone.
LEMMA OrderedStep ==
    ASSUME IInv, [Next]_vars
    PROVE  [Ordered!OrderedNext]_(Ordered!orderedVars)
<1> USE DEF queueVars, sharedVars, multiVars
<1>1. CASE \E w \in Threads : Worker(w)
  <2>1. PICK w \in Threads : Worker(w) BY <1>1
  <2>2. CASE WorkerStep(w) /\ UNCHANGED multiVars
    <3>1. pc[w] \in {"pop", "inject", "steal"} => running[w] = {} BY DEF IInv, WorkerInv
    <3>2. UNCHANGED <<completed, runs>> BY <2>2
    <3>3. CASE PopLocal(w)
      <4>1. PICK t \in deque[w] : running' = [running EXCEPT ![w] = {t}]
        BY <3>3 DEF PopLocal
      <4>2. running[w] = {} BY <3>1, <3>3 DEF PopLocal, Goto
      <4> QED BY <3>2, <4>1, <4>2, TakingStarts
    <3>4. CASE StealFromInjector(w)
      <4>1. PICK B \in BatchesOf(injector) : \E t \in B : running' = [running EXCEPT ![w] = {t}]
        BY <3>4 DEF StealFromInjector
      <4>2. PICK t \in B : running' = [running EXCEPT ![w] = {t}] BY <4>1
      <4>3. t \in injector BY DEF BatchesOf
      <4>4. running[w] = {} BY <3>1, <3>4 DEF StealFromInjector, Goto
      <4> QED BY <3>2, <4>2, <4>3, <4>4, TakingStarts
    <3>5. CASE StealFromVictim(w)
      <4>1. PICK v \in Threads \ {w} : \E B \in BatchesOf(deque[v]) : \E t \in B :
               running' = [running EXCEPT ![w] = {t}]
        BY <3>5 DEF StealFromVictim
      <4>2. PICK B \in BatchesOf(deque[v]) : \E t \in B : running' = [running EXCEPT ![w] = {t}]
        BY <4>1
      <4>3. PICK t \in B : running' = [running EXCEPT ![w] = {t}] BY <4>2
      <4>4. t \in deque[v] BY DEF BatchesOf
      <4>5. running[w] = {} BY <3>1, <3>5 DEF StealFromVictim, Goto
      <4> QED BY <3>2, <4>3, <4>4, <4>5, TakingStarts
    <3>6. CASE TaskReturns(w)
      <4>1. running' = [running EXCEPT ![w] = {}] /\ pc[w] = "returning"
        BY <3>6 DEF TaskReturns, Goto
      <4>2. running \in [Threads -> SUBSET Tasks] BY DEF IInv, TypeInv, TypeOK
      <4>3. running'[w] = {} /\ \A v \in Threads \ {w} : running'[v] = running[v]
        BY <4>1, <4>2
      <4>4. running[w] \subseteq completed BY <4>1 DEF IInv, CompletedInv, Finishing
      <4>5. Started' = Started
        <5>1. UNION {running[v] : v \in Threads}
                = running[w] \cup UNION {running'[v] : v \in Threads}
          BY <4>3
        <5> QED BY <3>2, <4>4, <5>1 DEF Started
      <4> QED BY <3>2, <4>5 DEF Ordered!orderedVars, Started
    <3>7. CASE \/ WorkerStarts(w) \/ PopNothing(w) \/ InjectorEmpty(w) \/ LoadTasks(w)
               \/ VictimEmpty(w) \/ Settle(w) \/ WorkerExits(w) \/ WorkerStays(w)
               \/ WorkerReady(w) \/ WorkerWakesMain(w) \/ WorkerUnparked(w)
      <4>1. running' = running
        BY <3>7 DEF WorkerStarts, PopNothing, InjectorEmpty, LoadTasks, VictimEmpty, Settle,
                    WorkerExits, WorkerStays, WorkerReady, WorkerWakesMain, WorkerUnparked
      <4> QED BY <3>2, <4>1, NothingStarts
    <3> QED BY <2>2, <3>3, <3>4, <3>5, <3>6, <3>7 DEF WorkerStep
  <2>3. CASE SystemReturns(w) BY <2>3, ReturningFinishes
  <2>4. CASE GateStaysShut(w) \/ GateOpens(w) \/ PushDependent(w) \/ ResetGate(w)
    BY <2>4, NothingStarts DEF GateStaysShut, GateOpens, PushDependent, ResetGate
  <2> QED BY <2>1, <2>2, <2>3, <2>4 DEF Worker
<1>2. CASE Run
  <2>1. synced /\ runs' = runs + 1 /\ UNCHANGED <<running, completed>>
    BY <1>2 DEF Run, ExecuteBegins
  <2>2. completed = RunTasks(runs) BY <2>1, AllSettled DEF IInv, RunsInv
  <2>3. Ordered!Begin BY <2>1, <2>2 DEF Ordered!Begin, RunTasks
  <2> QED BY <2>3 DEF Ordered!OrderedNext
<1>3. CASE Main
  <2>1. UNCHANGED <<running, completed, runs>>
    BY <1>3 DEF Main, PushRoot, AddTasks, ReadyThread, ExecuteReturns, SyncedReturns, SyncReturns,
                SyncParks, MainUnparked, ShutdownUnparks, ShutdownJoins, ShutdownPanics,
                ShutdownReturns
  <2> QED BY <2>1, NothingStarts
<1>4. CASE (FullSync \/ FullShutdown) /\ UNCHANGED multiVars
  BY <1>4, NothingStarts DEF FullSync, FullShutdown
<1>5. CASE Environment
  BY <1>5, NothingStarts DEF Environment, MainWakesSpuriously, WorkerWakesSpuriously,
                             SystemPanics, WorkerDies
<1>6. CASE UNCHANGED vars BY <1>6, NothingStarts DEF vars, workgroupVars
<1> QED BY <1>1, <1>2, <1>3, <1>4, <1>5, <1>6 DEF Next, Client

(* The multithreaded executor runs every schedule as OrderedRun promises:   *)
(* each system once per run, after everything ordered before it, and one    *)
(* run after the other (multi.rs, workgroups.rs).                           *)
THEOREM ImplementsOrderedRun == Safety => RunsInOrder
<1>1. Init => Ordered!OrderedInit
  BY DEF Init, WorkgroupInit, Ordered!OrderedInit
<1>2. IInv /\ [Next]_vars => [Ordered!OrderedNext]_(Ordered!orderedVars)
  BY OrderedStep
<1> QED BY GatesOpenOncePerRun, <1>1, <1>2, PTL DEF Safety, RunsInOrder, Ordered!OrderedSpec

-----------------------------------------------------------------------------
(* full_shutdown without full_sync. *)

\* Workers neither shut down nor begin runs, an exited one stays so, and one
\* comes to rest only by settling.
LEMMA WorkerMoves ==
    ASSUME IInv, NEW w \in Threads,
           \/ Worker(w) \/ SystemPanics(w)
           \/ WorkerWakesSpuriously(w) /\ UNCHANGED multiVars
    PROVE  /\ UNCHANGED <<main, next, shutdown, runs>>
           /\ \A v \in Threads : pc[v] = "exited" => pc'[v] = "exited"
           /\ \/ Settle(w) /\ UNCHANGED multiVars
              \/ settled' = settled /\ \A v \in Threads : pc'[v] \in Resting => pc[v] \in Resting
<1> USE DEF queueVars, sharedVars, multiVars, Goto, Resting
<1>1. pc \in [Threads -> WorkerPCs] BY DEF IInv, TypeInv, TypeOK
<1>2. UNCHANGED <<main, next, shutdown, runs>>
  BY DEF Worker, WorkerStep, WorkerStarts, PopLocal, PopNothing, StealFromInjector, InjectorEmpty,
         LoadTasks, StealFromVictim, VictimEmpty, TaskReturns, Settle, WorkerExits, WorkerStays,
         WorkerReady, WorkerWakesMain, WorkerUnparked, WorkerWakesSpuriously, SystemPanics, WorkerDies,
         SystemReturns, GateStaysShut, GateOpens, PushDependent, ResetGate
<1>3. CASE Settle(w) /\ UNCHANGED multiVars
  <2>1. pc[w] = "settle" /\ \A v \in Threads \ {w} : pc'[v] = pc[v] BY <1>1, <1>3 DEF Settle
  <2> QED BY <1>2, <1>3, <2>1
<1>4. CASE ~(Settle(w) /\ UNCHANGED multiVars)
  <2>1. settled' = settled
    BY <1>4 DEF Worker, WorkerStep, WorkerStarts, PopLocal, PopNothing, StealFromInjector,
         InjectorEmpty, LoadTasks, StealFromVictim, VictimEmpty, TaskReturns, WorkerExits, WorkerStays,
         WorkerReady, WorkerWakesMain, WorkerUnparked, WorkerWakesSpuriously, SystemPanics, WorkerDies,
         SystemReturns, GateStaysShut, GateOpens, PushDependent, ResetGate, DispatchSystem
  <2>2. pc[w] # "exited" /\ (\A v \in Threads \ {w} : pc'[v] = pc[v])
        /\ (pc'[w] \in Resting => pc[w] \in Resting)
    <3>1. CASE WorkerStarts(w) \/ PopLocal(w) \/ PopNothing(w) \/ StealFromInjector(w)
      BY <1>1, <3>1 DEF WorkerStarts, PopLocal, PopNothing, StealFromInjector
    <3>2. CASE InjectorEmpty(w) \/ StealFromVictim(w) \/ VictimEmpty(w) \/ TaskReturns(w)
      BY <1>1, <3>2 DEF InjectorEmpty, StealFromVictim, VictimEmpty, TaskReturns
    <3>3. CASE LoadTasks(w) BY <1>1, <3>3 DEF LoadTasks
    <3>4. CASE WorkerExits(w) \/ WorkerStays(w) \/ WorkerReady(w)
      BY <1>1, <3>4 DEF WorkerExits, WorkerStays, WorkerReady
    <3>5. CASE WorkerWakesMain(w) \/ WorkerUnparked(w) \/ WorkerWakesSpuriously(w)
      BY <1>1, <3>5 DEF WorkerWakesMain, WorkerUnparked, WorkerWakesSpuriously
    <3>6. CASE SystemPanics(w) BY <1>1, <3>6 DEF SystemPanics, WorkerDies
    <3>7. CASE SystemReturns(w) BY <1>1, <3>7 DEF SystemReturns, CountAtNext
    <3>8. CASE GateStaysShut(w) BY <1>1, <3>8 DEF GateStaysShut, CountAtNext
    <3>9. CASE GateOpens(w) BY <1>1, <3>9 DEF GateOpens
    <3>10. CASE PushDependent(w) BY <1>1, <3>10 DEF PushDependent
    <3>11. CASE ResetGate(w) BY <1>1, <3>11 DEF ResetGate, CountAtNext
    <3> QED BY <1>4, <3>1, <3>2, <3>3, <3>4, <3>5, <3>6, <3>7, <3>8, <3>9, <3>10, <3>11
            DEF Worker, WorkerStep
  <2>3. \A v \in Threads : pc[v] = "exited" => pc'[v] = "exited" BY <2>2
  <2>4. \A v \in Threads : pc'[v] \in Resting => pc[v] \in Resting BY <2>2
  <2> QED BY <1>2, <2>1, <2>3, <2>4
<1> QED BY <1>3, <1>4

\* A worker that comes to rest by settling has counted everything out that
\* was counted in.
LEMMA SettleRests ==
    ASSUME IInv, IInv', NEW w \in Threads, Settle(w), UNCHANGED multiVars, pc'[w] \in Resting
    PROVE  CountedOut' \in {0, Cardinality(Systems)}
<1>1. /\ settled' = settled \cup tasks_done[w] /\ UNCHANGED <<main, runs>>
      /\ tasks' = WrappingSub(tasks, Cardinality(tasks_done[w]))
      /\ pc' = [pc EXCEPT ![w] = IF OverflowChecks /\ tasks < Cardinality(tasks_done[w]) THEN "dead"
                                 ELSE IF tasks' = 0 THEN "drained" ELSE "start"]
  BY DEF Settle, multiVars
<1>2. pc \in [Threads -> WorkerPCs] BY DEF IInv, TypeInv, TypeOK
<1>3. tasks' = 0 BY <1>1, <1>2 DEF Resting
<1>4. CountedOut' \in Nat /\ CountedOut' <= Cardinality(Systems) BY <1>1, CountsOut, CountTypes
<1>5. CountedIn' = CountedIn /\ CountedIn \in {0, Cardinality(Systems)} BY <1>1 DEF CountedIn
<1>6. (CountedIn' - CountedOut') % Usize = 0 BY <1>3 DEF IInv, CounterOK, WrappingSub
<1>7. CountedIn' = CountedOut'
  <2> DEFINE n == Cardinality(Systems)
             i == CountedIn'
             o == CountedOut'
  <2>1. /\ n \in Nat /\ n < Usize /\ Usize \in Nat \ {0}
        /\ i \in Nat /\ i <= n /\ o \in Nat /\ o <= n /\ (i - o) % Usize = 0
    BY <1>4, <1>5, <1>6, OrderTypes, CountTypes, UsizeAssumption, WidthAssumption
  <2> HIDE DEF n, i, o
  <2>2. 0 <= i - o => (i - o) % Usize = i - o BY <2>1
  <2>3. i - o < 0 => (i - o) % Usize = (i - o) + Usize BY <2>1
  <2>4. i = o BY <2>1, <2>2, <2>3
  <2> QED BY <2>4 DEF i, o
<1> QED BY <1>5, <1>7

LEMMA ShutInvInit == Init => ShutInv
<1> SUFFICES ASSUME Init PROVE ShutInv
  OBVIOUS
<1>1. IInv BY IInvInit
<1>2. JoinedInv BY DEF Init, WorkgroupInit, JoinedInv
<1>3. RestInv
  <2>1. {s \in Systems : <<s, runs>> \in settled} = {} BY DEF Init, WorkgroupInit
  <2> QED BY <2>1, FS_EmptySet DEF RestInv, CountedOut
<1> QED BY <1>1, <1>2, <1>3 DEF ShutInv

LEMMA ShutInvNext == ShutInv /\ [Next]_vars => ShutInv'
<1> SUFFICES ASSUME ShutInv, [Next]_vars PROVE ShutInv'
  OBVIOUS
<1>1. IInv /\ IInv' BY IInvNext DEF ShutInv
<1>2. CASE \E w \in Threads : \/ Worker(w) \/ SystemPanics(w)
                              \/ WorkerWakesSpuriously(w) /\ UNCHANGED multiVars
  <2>1. PICK w \in Threads : \/ Worker(w) \/ SystemPanics(w)
                             \/ WorkerWakesSpuriously(w) /\ UNCHANGED multiVars
    BY <1>2
  <2>2. /\ UNCHANGED <<main, next, shutdown, runs>>
        /\ \A v \in Threads : pc[v] = "exited" => pc'[v] = "exited"
        /\ \/ Settle(w) /\ UNCHANGED multiVars
           \/ settled' = settled /\ \A v \in Threads : pc'[v] \in Resting => pc[v] \in Resting
    BY <1>1, <2>1, WorkerMoves
  <2>3. JoinedInv' BY <2>2 DEF ShutInv, JoinedInv
  <2>4. RestInv'
    <3>1. CASE Settle(w) /\ UNCHANGED multiVars
      BY <1>1, <3>1, SettleRests DEF RestInv, Resting
    <3>2. CASE settled' = settled /\ \A v \in Threads : pc'[v] \in Resting => pc[v] \in Resting
      BY <2>2, <3>2 DEF ShutInv, RestInv, CountedOut, Resting
    <3> QED BY <2>2, <3>1, <3>2
  <2> QED BY <1>1, <2>3, <2>4 DEF ShutInv
<1>3. CASE Run
  <2>1. /\ main = "idle" /\ ~shutdown /\ main' = "push" /\ runs' = runs + 1
        /\ UNCHANGED <<settled, shutdown, next, pc>>
    BY <1>3 DEF Run, ExecuteBegins, queueVars, sharedVars
  <2>2. JoinedInv' BY <2>1 DEF JoinedInv
  <2>3. settled \subseteq RunTasks(runs) /\ runs \in Nat
    BY <1>1, PlaceFacts, TaskFacts DEF IInv, TypeInv, TypeOK
  <2>4. {s \in Systems : <<s, runs'>> \in settled'} = {} BY <2>1, <2>3 DEF RunTasks
  <2>5. CountedOut' = 0 BY <2>4, FS_EmptySet DEF CountedOut
  <2> QED BY <1>1, <2>2, <2>5 DEF ShutInv, RestInv
<1>4. CASE Main \/ ((FullSync \/ FullShutdown) /\ UNCHANGED multiVars)
           \/ (MainWakesSpuriously /\ UNCHANGED multiVars) \/ UNCHANGED vars
  <2> USE DEF queueVars, sharedVars, multiVars
  <2>1. UNCHANGED <<settled, runs, pc>>
    BY <1>4 DEF Main, PushRoot, AddTasks, ReadyThread, ExecuteReturns, SyncedReturns, SyncReturns,
                SyncParks, MainUnparked, ShutdownUnparks, ShutdownJoins, ShutdownPanics,
                ShutdownReturns, FullSync, FullShutdown, MainWakesSpuriously, vars, workgroupVars
  <2>2. RestInv' BY <2>1 DEF ShutInv, RestInv, CountedOut
  <2>3. JoinedInv'
    <3>1. next \in 1..NumThreads + 1 /\ NumThreads \in Nat
      BY <1>1, NumThreadsAssumption DEF IInv, TypeInv, TypeOK
    <3>2. CASE PushRoot \/ AddTasks \/ ReadyThread \/ ExecuteReturns
      BY <2>1, <3>2 DEF ShutInv, JoinedInv, PushRoot, AddTasks, ReadyThread, ExecuteReturns
    <3>3. CASE SyncedReturns \/ SyncParks \/ MainUnparked \/ MainWakesSpuriously \/ FullSync
      BY <2>1, <3>3 DEF ShutInv, JoinedInv, SyncedReturns, SyncReturns, SyncParks, MainUnparked,
                        MainWakesSpuriously, FullSync
    <3>4. CASE FullShutdown BY <2>1, <3>1, <3>4 DEF ShutInv, JoinedInv, FullShutdown, Threads
    <3>5. CASE ShutdownUnparks BY <2>1, <3>5 DEF ShutInv, JoinedInv, ShutdownUnparks
    <3>6. CASE ShutdownJoins
      <4>1. /\ main = "join" /\ pc[next] = "exited" /\ main' = "unpark" /\ next' = next + 1
            /\ UNCHANGED <<shutdown, pc>>
        BY <3>6 DEF ShutdownJoins
      <4>2. \A w \in Threads : w < next' => w < next \/ w = next BY <3>1, <4>1 DEF Threads
      <4> QED BY <4>1, <4>2 DEF ShutInv, JoinedInv
    <3>7. CASE ShutdownPanics BY <2>1, <3>7 DEF ShutInv, JoinedInv, ShutdownPanics
    <3>8. CASE ShutdownReturns BY <2>1, <3>8 DEF ShutInv, JoinedInv, ShutdownReturns
    <3>9. CASE UNCHANGED vars BY <2>1, <3>9 DEF ShutInv, JoinedInv, vars, workgroupVars
    <3> QED BY <1>4, <3>2, <3>3, <3>4, <3>5, <3>6, <3>7, <3>8, <3>9 DEF Main
  <2> QED BY <1>1, <2>2, <2>3 DEF ShutInv
<1> QED BY <1>2, <1>3, <1>4 DEF Next, Client, Environment

\* After full_shutdown all workers rest and hold nothing.
LEMMA ShutInvImplies == ShutInv => ShutdownAllOrNothing
<1> SUFFICES ASSUME ShutInv, shutdown, main = "idle"
    PROVE  \/ completed = RunTasks(runs)
           \/ completed = RunTasks(runs - 1) /\ \A w \in Threads : running[w] = {}
  BY DEF ShutdownAllOrNothing
<1>1. IInv BY DEF ShutInv
<1>2. \A w \in Threads : pc[w] = "exited"
  <2>1. next > NumThreads /\ next \in 1..NumThreads + 1 /\ NumThreads \in Nat
    BY NumThreadsAssumption, <1>1 DEF ShutInv, JoinedInv, IInv, TypeInv, TypeOK
  <2>2. \A w \in Threads : w < next BY <2>1 DEF Threads
  <2> QED BY <2>2 DEF ShutInv, JoinedInv
<1>3. \A w \in Threads : running[w] = {} /\ tasks_done[w] = {}
  BY <1>1, <1>2 DEF IInv, WorkerInv
<1>4. completed = settled
  BY <1>1, <1>3 DEF IInv, CompletedInv, Conservation
<1>5. /\ RunTasks(runs - 1) \subseteq settled /\ settled \subseteq RunTasks(runs) /\ runs \in Nat
  BY <1>1, PlaceFacts, TaskFacts DEF IInv, RunsInv, TypeInv, TypeOK
<1>6. \A s \in Systems, k \in 1..runs : k = runs \/ <<s, k>> \in RunTasks(runs - 1)
  BY <1>5 DEF RunTasks
<1> DEFINE N == {s \in Systems : Current(s) \in settled}
<1>7. Cardinality(N) \in {0, Cardinality(Systems)} /\ IsFiniteSet(N)
  BY <1>1, <1>2, CountTypes DEF ShutInv, RestInv, Resting
<1>8. CASE Cardinality(N) = 0
  <2>1. N = {} BY <1>7, <1>8, FS_EmptySet
  <2>2. settled \subseteq RunTasks(runs - 1)
    BY <1>5, <1>6, <2>1 DEF RunTasks, Current
  <2> QED BY <1>3, <1>4, <1>5, <2>2
<1>9. CASE Cardinality(N) = Cardinality(Systems)
  <2>1. N \subseteq Systems /\ IsFiniteSet(Systems) BY GraphAssumption DEF GraphOK
  <2>2. N = Systems
    <3> HIDE DEF N
    <3> QED BY <1>9, <2>1, FS_Subset
  <2>3. RunTasks(runs) \subseteq settled
    BY <1>5, <1>6, <2>2 DEF RunTasks, Current
  <2> QED BY <1>4, <1>5, <2>3
<1> QED BY <1>7, <1>8, <1>9

(* full_shutdown right after run() lets the run happen or not happen, as    *)
(* the workers have or have not found it: it never cuts it short.           *)
THEOREM ShutdownNeverCutsShort == Safety => []ShutdownAllOrNothing
BY ShutInvInit, ShutInvNext, ShutInvImplies, PTL DEF Safety
=============================================================================
