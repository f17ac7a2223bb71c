-------------------------- MODULE MultiExecutorWorker --------------------------
(***************************************************************************)
(* Proofs about the workers of MultiExecutor, for every schedule, number   *)
(* of threads and counter width, with or without a full_sync between runs. *)
(*                                                                         *)
(* First type correctness, and what the proofs need of sequences without   *)
(* repetition and of a well-formed graph: who counts at which gate, and    *)
(* what a batch is.  Then the steps of a worker preserve IInv.  Outside    *)
(* its tasks: taking a task, stealing a batch, counting, settling;         *)
(* QuietStep serves every step that touches neither tasks nor gates.       *)
(* Inside a task: its system returns, it counts at the gate of its         *)
(* dependent, and the last to count pushes the batch.                      *)
(***************************************************************************)
EXTENDS MultiExecutorInv, FiniteSetTheorems, SequenceTheorems, TLAPS

\* The counter stays within its width whatever is added or subtracted.
LEMMA WrappingType ==
    ASSUME NEW a \in Int, NEW b \in Int
    PROVE  WrappingAdd(a, b) \in 0..Usize - 1 /\ WrappingSub(a, b) \in 0..Usize - 1
BY UsizeAssumption DEF WrappingAdd, WrappingSub

\* The orders in which a batch is dispatched are sequences of systems.
LEMMA OrderTypes ==
    /\ root \in Systems
    /\ RootOrder \in Seq(Systems)
    /\ \A s \in Systems : dependents[s] \in Seq(Systems) /\ DispatchOrder(s) \in Seq(Systems)
    /\ dependency_count \in [Systems -> Nat]
    /\ Cardinality(Systems) \in Nat
<1>1. /\ root \in Systems
      /\ dependents \in [Systems -> Seq(Systems)]
      /\ associates \in [Systems -> Seq(Systems)]
      /\ dependency_count \in [Systems -> Nat]
      /\ IsFiniteSet(Systems)
  BY GraphAssumption DEF GraphOK, EdgesOK
<1>2. \A s \in Systems : Reverse(associates[s]) \in Seq(Systems)
  <2> TAKE s \in Systems
  <2>1. associates[s] \in Seq(Systems) BY <1>1
  <2>2. /\ Len(associates[s]) \in Nat
        /\ \A i \in 1..Len(associates[s]) : associates[s][i] \in Systems
    BY <2>1
  <2>3. \A i \in 1..Len(associates[s]) : associates[s][(Len(associates[s]) - i) + 1] \in Systems
    BY <2>2
  <2>4. [i \in 1..Len(associates[s]) |-> associates[s][(Len(associates[s]) - i) + 1]] \in Seq(Systems)
    BY <2>2, <2>3
  <2> QED BY <2>4 DEF Reverse
<1> QED BY <1>1, <1>2, FS_CardinalityType DEF RootOrder, DispatchOrder

\* Taking a batch from a finite queue leaves finite pieces.
LEMMA BatchFinite ==
    ASSUME NEW Q, IsFiniteSet(Q), NEW B \in BatchesOf(Q)
    PROVE  IsFiniteSet(B) /\ IsFiniteSet(Q \ B) /\ B \subseteq Q
BY FS_Subset, FS_Difference DEF BatchesOf

\* Pushing a task of a system keeps the types of what it touches.
LEMMA DispatchTypes ==
    ASSUME TypeInv, NEW s \in Systems, DispatchSystem(s)
    PROVE  /\ injector' \subseteq Tasks /\ IsFiniteSet(injector')
           /\ dispatched' \in [Systems -> Nat]
<1> DEFINE task == <<s, dispatched[s] + 1>>
<1>1. dispatched \in [Systems -> Nat] /\ dispatched[s] + 1 \in Nat
  BY DEF TypeInv, TypeOK
<1>2. task \in Tasks BY <1>1 DEF Tasks
<1>3. IsFiniteSet(injector \cup {task}) BY FS_AddElement DEF TypeInv, QueuesFinite
<1>4. injector \subseteq Tasks BY DEF TypeInv, TypeOK
<1>5. injector' = injector \cup {task} /\ dispatched' = [dispatched EXCEPT ![s] = @ + 1]
  BY DEF DispatchSystem
<1> HIDE DEF task
<1> QED BY <1>1, <1>2, <1>3, <1>4, <1>5

\* Moving on to the next dependent keeps the types of what it touches.
LEMMA CountAtNextTypes ==
    ASSUME TypeInv, NEW w \in Threads, NEW rest \in Seq(Systems), CountAtNext(w, rest)
    PROVE  /\ deps' \in [Threads -> Seq(Systems)]
           /\ pc' \in [Threads -> WorkerPCs]
           /\ \A v \in Threads : pc'[v] \in {"gate", "push"} => deps'[v] # <<>>
BY DEF TypeInv, TypeOK, InProgress, CountAtNext, WorkerPCs

\* Initially everything is empty, zero or at its first state.
LEMMA TypeInit == Init => TypeInv
<1> SUFFICES ASSUME Init PROVE TypeInv
  OBVIOUS
<1>1. TypeOK
  <2>1. <<>> \in Seq(Systems) OBVIOUS
  <2>2. 1 \in 1..NumThreads + 1 BY NumThreadsAssumption
  <2>3. 0 \in 0..Usize - 1 BY UsizeAssumption
  <2> QED BY <2>1, <2>2, <2>3
          DEF Init, WorkgroupInit, TypeOK, Ready, Working, Shutdown, WorkerPCs, MainPCs
<1>2. QueuesFinite BY FS_EmptySet DEF Init, WorkgroupInit, QueuesFinite
<1>3. InProgress BY DEF Init, WorkgroupInit, InProgress
<1> QED BY <1>1, <1>2, <1>3 DEF TypeInv

USE DEF Goto, queueVars, sharedVars, multiVars

\* The steps of worker_logic outside a task.
LEMMA WorkerStepType ==
    ASSUME TypeInv, NEW w \in Threads, WorkerStep(w), UNCHANGED multiVars
    PROVE  TypeInv'
<1> USE DEF TypeInv, TypeOK, QueuesFinite, InProgress, WorkerPCs
<1>1. CASE WorkerStarts(w) BY <1>1, FS_EmptySet DEF WorkerStarts, Working
<1>2. CASE PopLocal(w)
  <2>1. PICK t \in deque[w] : /\ running' = [running EXCEPT ![w] = {t}]
                              /\ deque' = [deque EXCEPT ![w] = @ \ {t}]
    BY <1>2 DEF PopLocal
  <2>2. t \in Tasks BY <2>1
  <2>3. IsFiniteSet({t}) /\ IsFiniteSet(deque[w] \ {t})
    BY FS_Singleton, FS_RemoveElement
  <2> QED BY <1>2, <2>1, <2>2, <2>3, ZenonT(30) DEF PopLocal
<1>3. CASE PopNothing(w) BY <1>3 DEF PopNothing
<1>4. CASE StealFromInjector(w)
  <2>1. PICK B \in BatchesOf(injector) : \E t \in B :
          /\ running' = [running EXCEPT ![w] = {t}]
          /\ deque' = [deque EXCEPT ![w] = @ \cup (B \ {t})]
          /\ injector' = injector \ B
    BY <1>4 DEF StealFromInjector
  <2>2. PICK t \in B : /\ running' = [running EXCEPT ![w] = {t}]
                       /\ deque' = [deque EXCEPT ![w] = @ \cup (B \ {t})]
                       /\ injector' = injector \ B
    BY <2>1
  <2>3. IsFiniteSet(B) /\ IsFiniteSet(injector \ B) /\ B \subseteq injector
    BY BatchFinite
  <2>4. IsFiniteSet({t}) /\ IsFiniteSet(deque[w] \cup (B \ {t}))
    BY <2>3, FS_Singleton, FS_RemoveElement, FS_Union
  <2>5. t \in Tasks /\ B \subseteq Tasks BY <2>3
  <2>6. /\ running' \in [Threads -> SUBSET Tasks]
        /\ deque' \in [Threads -> SUBSET Tasks]
        /\ injector' \subseteq Tasks
    BY <2>2, <2>5
  <2>7. QueuesFinite' BY <1>4, <2>2, <2>3, <2>4 DEF StealFromInjector
  <2> QED BY <1>4, <2>6, <2>7 DEF StealFromInjector
<1>5. CASE InjectorEmpty(w) BY <1>5 DEF InjectorEmpty
<1>6. CASE LoadTasks(w) BY <1>6 DEF LoadTasks
<1>7. CASE StealFromVictim(w)
  <2>1. PICK v \in Threads \ {w} : \E B \in BatchesOf(deque[v]) : \E t \in B :
          /\ running' = [running EXCEPT ![w] = {t}]
          /\ deque' = [deque EXCEPT ![v] = @ \ B, ![w] = @ \cup (B \ {t})]
    BY <1>7 DEF StealFromVictim
  <2>2. PICK B \in BatchesOf(deque[v]) : \E t \in B :
          /\ running' = [running EXCEPT ![w] = {t}]
          /\ deque' = [deque EXCEPT ![v] = @ \ B, ![w] = @ \cup (B \ {t})]
    BY <2>1
  <2>3. PICK t \in B : /\ running' = [running EXCEPT ![w] = {t}]
                       /\ deque' = [deque EXCEPT ![v] = @ \ B, ![w] = @ \cup (B \ {t})]
    BY <2>2
  <2>4. IsFiniteSet(B) /\ IsFiniteSet(deque[v] \ B) /\ B \subseteq deque[v]
    BY BatchFinite
  <2>5. IsFiniteSet({t}) /\ IsFiniteSet(deque[w] \cup (B \ {t}))
    BY <2>4, FS_Singleton, FS_RemoveElement, FS_Union
  <2> QED BY <1>7, <2>3, <2>4, <2>5, ZenonT(30) DEF StealFromVictim
<1>8. CASE VictimEmpty(w) BY <1>8 DEF VictimEmpty
<1>9. CASE TaskReturns(w)
  <2>1. IsFiniteSet(tasks_done[w] \cup running[w]) BY FS_Union
  <2> QED BY <1>9, <2>1, FS_EmptySet DEF TaskReturns
<1>10. CASE Settle(w)
  <2>1. Cardinality(tasks_done[w]) \in Int BY FS_CardinalityType
  <2>2. tasks' \in 0..Usize - 1 BY <1>10, <2>1, WrappingType DEF Settle
  <2> QED BY <1>10, <2>2, FS_EmptySet DEF Settle
<1>11. CASE WorkerExits(w) BY <1>11 DEF WorkerExits, Shutdown
<1>12. CASE WorkerStays(w) BY <1>12 DEF WorkerStays
<1>13. CASE WorkerReady(w) BY <1>13 DEF WorkerReady, Ready
<1>14. CASE WorkerWakesMain(w) BY <1>14 DEF WorkerWakesMain
<1>15. CASE WorkerUnparked(w) BY <1>15 DEF WorkerUnparked
<1> QED BY <1>1, <1>2, <1>3, <1>4, <1>5, <1>6, <1>7, <1>8, <1>9, <1>10, <1>11, <1>12,
           <1>13, <1>14, <1>15 DEF WorkerStep

\* The steps of the task a worker is in.
LEMMA TaskStepType ==
    ASSUME TypeInv, NEW w \in Threads,
           SystemReturns(w) \/ GateStaysShut(w) \/ GateOpens(w) \/ PushDependent(w) \/ ResetGate(w)
    PROVE  TypeInv'
<1> USE DEF TypeInv
<1>0. deps[w] \in Seq(Systems) /\ pushq[w] \in Seq(Systems) BY DEF TypeOK
<1>1. CASE SystemReturns(w)
  <2>1. PICK t \in running[w] : /\ completed' = completed \cup {t}
                                /\ CountAtNext(w, dependents[t[1]])
    BY <1>1 DEF SystemReturns
  <2>2. t \in Tasks /\ t[1] \in Systems BY DEF TypeOK, Tasks
  <2>3. dependents[t[1]] \in Seq(Systems) BY <2>2, OrderTypes
  <2>4. /\ deps' \in [Threads -> Seq(Systems)]
        /\ pc' \in [Threads -> WorkerPCs]
        /\ \A v \in Threads : pc'[v] \in {"gate", "push"} => deps'[v] # <<>>
    BY <2>1, <2>3, CountAtNextTypes
  <2>5. completed' \subseteq Tasks BY <2>1, <2>2 DEF TypeOK
  <2> QED BY <1>1, <2>4, <2>5 DEF SystemReturns, TypeOK, QueuesFinite, InProgress
<1>2. CASE GateStaysShut(w)
  <2>1. deps[w] # <<>> BY <1>2 DEF GateStaysShut, InProgress
  <2>2. Head(deps[w]) \in Systems /\ Tail(deps[w]) \in Seq(Systems) BY <1>0, <2>1
  <2>3. /\ deps' \in [Threads -> Seq(Systems)]
        /\ pc' \in [Threads -> WorkerPCs]
        /\ \A v \in Threads : pc'[v] \in {"gate", "push"} => deps'[v] # <<>>
    BY <1>2, <2>2, CountAtNextTypes DEF GateStaysShut
  <2>4. dependency_gate' \in [Systems -> Nat] BY <1>2, <2>2 DEF GateStaysShut, TypeOK
  <2> QED BY <1>2, <2>3, <2>4 DEF GateStaysShut, TypeOK, QueuesFinite, InProgress
<1>3. CASE GateOpens(w)
  <2>1. deps[w] # <<>> BY <1>3 DEF GateOpens, InProgress
  <2>2. Head(deps[w]) \in Systems BY <1>0, <2>1
  <2>3. DispatchOrder(Head(deps[w])) \in Seq(Systems) BY <2>2, OrderTypes
  <2>4. /\ dependency_gate' \in [Systems -> Nat]
        /\ pushq' \in [Threads -> Seq(Systems)]
    BY <1>3, <2>2, <2>3 DEF GateOpens, TypeOK
  <2>5. pc' \in [Threads -> WorkerPCs] BY <1>3 DEF GateOpens, TypeOK, WorkerPCs
  <2> QED BY <1>3, <2>1, <2>4, <2>5 DEF GateOpens, TypeOK, QueuesFinite, InProgress
<1>4. CASE PushDependent(w)
  <2>1. Head(pushq[w]) \in Systems /\ Tail(pushq[w]) \in Seq(Systems)
    BY <1>0, <1>4 DEF PushDependent
  <2>2. /\ injector' \subseteq Tasks /\ IsFiniteSet(injector')
        /\ dispatched' \in [Systems -> Nat]
    BY <1>4, <2>1, DispatchTypes DEF PushDependent
  <2>3. pushq' \in [Threads -> Seq(Systems)] BY <1>4, <2>1 DEF PushDependent, TypeOK
  <2> QED BY <1>4, <2>2, <2>3 DEF PushDependent, TypeOK, QueuesFinite, InProgress
<1>5. CASE ResetGate(w)
  <2>1. deps[w] # <<>> BY <1>5 DEF ResetGate, InProgress
  <2>2. Tail(deps[w]) \in Seq(Systems) BY <1>0, <2>1
  <2>3. /\ deps' \in [Threads -> Seq(Systems)]
        /\ pc' \in [Threads -> WorkerPCs]
        /\ \A v \in Threads : pc'[v] \in {"gate", "push"} => deps'[v] # <<>>
    BY <1>5, <2>2, CountAtNextTypes DEF ResetGate
  <2>4. dependency_gate' \in [Systems -> Nat] BY <1>5 DEF ResetGate, TypeOK
  <2> QED BY <1>5, <2>3, <2>4 DEF ResetGate, TypeOK, QueuesFinite, InProgress
<1> QED BY <1>1, <1>2, <1>3, <1>4, <1>5

\* The steps of the main thread and of the application.
LEMMA MainType ==
    ASSUME TypeInv, Main \/ Client \/ RunUnsynced
    PROVE  TypeInv'
<1> USE DEF TypeInv, TypeOK, QueuesFinite, InProgress, MainPCs
<1>1. CASE ExecuteBegins
  <2>1. to_push' \in Seq(Systems) BY <1>1, OrderTypes DEF ExecuteBegins
  <2>2. runs' \in Nat /\ main' = "push" BY <1>1 DEF ExecuteBegins
  <2> QED BY <1>1, <2>1, <2>2 DEF ExecuteBegins
<1>2. CASE PushRoot
  <2>1. Head(to_push) \in Systems /\ Tail(to_push) \in Seq(Systems) BY <1>2 DEF PushRoot
  <2>2. /\ injector' \subseteq Tasks /\ IsFiniteSet(injector')
        /\ dispatched' \in [Systems -> Nat]
    BY <1>2, <2>1, DispatchTypes DEF PushRoot
  <2> QED BY <1>2, <2>1, <2>2 DEF PushRoot
<1>3. CASE AddTasks
  <2>1. tasks \in Int /\ Cardinality(Systems) \in Int BY OrderTypes, UsizeAssumption
  <2>2. tasks' \in 0..Usize - 1 BY <1>3, <2>1, WrappingType DEF AddTasks
  <2>3. 1 \in 1..NumThreads + 1 BY NumThreadsAssumption
  <2> QED BY <1>3, <2>2, <2>3 DEF AddTasks
<1>4. CASE ReadyThread
  <2>1. next + 1 \in 1..NumThreads + 1
    BY <1>4, NumThreadsAssumption DEF ReadyThread, MoreToReady, Threads
  <2>2. next \in Threads BY <1>4 DEF ReadyThread, MoreToReady
  <2>3. token' \in [Threads -> BOOLEAN] /\ woken' \in Nat
    <3>1. CASE statuses[next] = Ready
      <4>1. token' = [token EXCEPT ![next] = TRUE] /\ woken' = woken + 1
        BY <1>4, <3>1 DEF ReadyThread
      <4>2. token \in [Threads -> BOOLEAN] /\ woken \in Nat OBVIOUS
      <4>3. token' \in [Threads -> BOOLEAN] BY <4>1, <4>2, Zenon
      <4> QED BY <4>1, <4>2, <4>3
    <3>2. CASE statuses[next] # Ready BY <1>4, <3>2 DEF ReadyThread
    <3> QED BY <3>1, <3>2
  <2> QED BY <1>4, <2>1, <2>3 DEF ReadyThread
<1>5. CASE ExecuteReturns BY <1>5 DEF ExecuteReturns
<1>6. CASE SyncedReturns BY <1>6 DEF SyncedReturns, SyncReturns
<1>7. CASE SyncParks /\ UNCHANGED multiVars BY <1>7 DEF SyncParks
<1>8. CASE MainUnparked /\ UNCHANGED multiVars BY <1>8 DEF MainUnparked
<1>9. CASE ShutdownUnparks /\ UNCHANGED multiVars BY <1>9 DEF ShutdownUnparks
<1>10. CASE ShutdownJoins /\ UNCHANGED multiVars
  <2>1. next + 1 \in 1..NumThreads + 1
    BY <1>10, NumThreadsAssumption DEF ShutdownJoins, Threads
  <2> QED BY <1>10, <2>1 DEF ShutdownJoins
<1>11. CASE ShutdownPanics /\ UNCHANGED multiVars BY <1>11 DEF ShutdownPanics
<1>12. CASE ShutdownReturns /\ UNCHANGED multiVars BY <1>12 DEF ShutdownReturns
<1>13. CASE FullSync /\ UNCHANGED multiVars BY <1>13 DEF FullSync
<1>14. CASE FullShutdown /\ UNCHANGED multiVars
  BY <1>14, NumThreadsAssumption DEF FullShutdown
<1> QED BY <1>1, <1>2, <1>3, <1>4, <1>5, <1>6, <1>7, <1>8, <1>9, <1>10, <1>11, <1>12,
           <1>13, <1>14 DEF Main, Client, Run, RunUnsynced

\* Spurious wakeups and panics.
LEMMA EnvironmentType ==
    ASSUME TypeInv, Environment
    PROVE  TypeInv'
<1> USE DEF TypeInv, TypeOK, QueuesFinite, InProgress, MainPCs, WorkerPCs
<1>1. CASE MainWakesSpuriously /\ UNCHANGED multiVars BY <1>1 DEF MainWakesSpuriously
<1>2. CASE \E w \in Threads : WorkerWakesSpuriously(w) /\ UNCHANGED multiVars
  BY <1>2 DEF WorkerWakesSpuriously
<1>3. CASE \E w \in Threads : SystemPanics(w) BY <1>3 DEF SystemPanics, WorkerDies
<1> QED BY <1>1, <1>2, <1>3 DEF Environment

\* Every step of either specification.
LEMMA TypeNext == TypeInv /\ [Next \/ RunUnsynced]_vars => TypeInv'
<1> SUFFICES ASSUME TypeInv, [Next \/ RunUnsynced]_vars PROVE TypeInv'
  OBVIOUS
<1>1. CASE \E w \in Threads : Worker(w)
  BY <1>1, WorkerStepType, TaskStepType DEF Worker
<1>2. CASE Main \/ Client \/ RunUnsynced BY <1>2, MainType
<1>3. CASE Environment BY <1>3, EnvironmentType
<1>4. CASE UNCHANGED vars
  BY <1>4 DEF vars, workgroupVars, TypeInv, TypeOK, QueuesFinite, InProgress
<1> QED BY <1>1, <1>2, <1>3, <1>4 DEF Next

(* Every variable keeps its type, whatever the schedule, the number of      *)
(* threads, the width of the counter and the systems that panic.            *)
THEOREM TypeCorrect == Safety => []TypeOK
<1>1. TypeInv /\ [Next]_vars => TypeInv' BY TypeNext
<1>2. TypeInv => TypeOK BY DEF TypeInv
<1> QED BY TypeInit, <1>1, <1>2, PTL DEF Safety

(* The same when the application runs the schedule again without a          *)
(* full_sync between, where the order of systems is lost.                   *)
THEOREM UnsyncedTypeCorrect == UnsyncedSpec => []TypeOK
<1>1. TypeInv => TypeOK BY DEF TypeInv
<1> QED BY TypeInit, TypeNext, <1>1, PTL DEF UnsyncedSpec

-----------------------------------------------------------------------------
(* Sequences without repetition, as they are pushed from. *)

LEMMA EmptyRange == Range(<<>>) = {} /\ IsInjective(<<>>)
BY DEF Range, IsInjective

LEMMA TailRange ==
    ASSUME NEW S, NEW q \in Seq(S), q # <<>>, IsInjective(q)
    PROVE  /\ Head(q) \in S /\ Tail(q) \in Seq(S)
           /\ Head(q) \in Range(q)
           /\ IsInjective(Tail(q))
           /\ Range(Tail(q)) = Range(q) \ {Head(q)}
<1>1. /\ Len(q) \in Nat \ {0}
      /\ DOMAIN q = 1..Len(q)
      /\ Head(q) = q[1]
      /\ Len(Tail(q)) = Len(q) - 1
      /\ DOMAIN Tail(q) = 1..Len(q) - 1
      /\ \A i \in 1..Len(q) - 1 : Tail(q)[i] = q[i + 1]
      /\ Head(q) \in S /\ Tail(q) \in Seq(S)
  OBVIOUS
<1>2. Head(q) \in Range(q) BY <1>1 DEF Range
<1>3. IsInjective(Tail(q))
  <2> SUFFICES ASSUME NEW a \in 1..Len(q) - 1, NEW b \in 1..Len(q) - 1, Tail(q)[a] = Tail(q)[b]
               PROVE  a = b
    BY <1>1 DEF IsInjective
  <2>1. a + 1 \in DOMAIN q /\ b + 1 \in DOMAIN q BY <1>1
  <2>2. q[a + 1] = q[b + 1] BY <1>1
  <2>3. a + 1 = b + 1 BY <2>1, <2>2 DEF IsInjective
  <2> QED BY <2>3
<1>4. Range(Tail(q)) \subseteq Range(q) \ {Head(q)}
  <2> SUFFICES ASSUME NEW a \in 1..Len(q) - 1 PROVE Tail(q)[a] \in Range(q) \ {Head(q)}
    BY <1>1 DEF Range
  <2>1. a + 1 \in DOMAIN q /\ 1 \in DOMAIN q /\ a + 1 # 1 BY <1>1
  <2>2. q[a + 1] # q[1] BY <2>1 DEF IsInjective
  <2> QED BY <1>1, <2>1, <2>2 DEF Range
<1>5. Range(q) \ {Head(q)} \subseteq Range(Tail(q))
  <2> SUFFICES ASSUME NEW a \in DOMAIN q, q[a] # q[1] PROVE q[a] \in Range(Tail(q))
    BY <1>1 DEF Range
  <2>1. a # 1 /\ a - 1 \in 1..Len(q) - 1 BY <1>1
  <2>2. Tail(q)[a - 1] = q[a] BY <1>1, <2>1
  <2> QED BY <1>1, <2>1, <2>2 DEF Range
<1> QED BY <1>1, <1>2, <1>3, <1>4, <1>5

\* Putting a new element at either end keeps a sequence free of repetition.
LEMMA ConsRange ==
    ASSUME NEW S, NEW q \in Seq(S), NEW e \in S, IsInjective(q), e \notin Range(q)
    PROVE  /\ IsInjective(<<e>> \o q) /\ Range(<<e>> \o q) = {e} \cup Range(q)
           /\ IsInjective(q \o <<e>>) /\ Range(q \o <<e>>) = {e} \cup Range(q)
<1> DEFINE f == <<e>> \o q
           g == q \o <<e>>
<1>1. /\ Len(q) \in Nat
      /\ DOMAIN q = 1..Len(q)
      /\ DOMAIN f = 1..Len(q) + 1
      /\ DOMAIN g = 1..Len(q) + 1
      /\ f[1] = e
      /\ \A i \in 2..Len(q) + 1 : f[i] = q[i - 1]
      /\ g[Len(q) + 1] = e
      /\ \A i \in 1..Len(q) : g[i] = q[i]
  OBVIOUS
<1> HIDE DEF f, g
<1>2. \A i \in 1..Len(q) : q[i] # e BY <1>1 DEF Range
<1>3. \A i, j \in 1..Len(q) : q[i] = q[j] => i = j BY <1>1 DEF IsInjective
<1>4. IsInjective(f)
  <2> SUFFICES ASSUME NEW a \in 1..Len(q) + 1, NEW b \in 1..Len(q) + 1, f[a] = f[b] PROVE a = b
    BY <1>1 DEF IsInjective
  <2>1. CASE a = 1 /\ b # 1 BY <1>1, <1>2, <2>1
  <2>2. CASE a # 1 /\ b = 1 BY <1>1, <1>2, <2>2
  <2>3. CASE a # 1 /\ b # 1
    <3>1. a - 1 \in 1..Len(q) /\ b - 1 \in 1..Len(q) BY <1>1, <2>3
    <3>2. q[a - 1] = q[b - 1] BY <1>1, <2>3
    <3>3. a - 1 = b - 1 BY <1>3, <3>1, <3>2
    <3> QED BY <3>3
  <2> QED BY <2>1, <2>2, <2>3
<1>5. IsInjective(g) BY <1>1, <1>2, <1>3 DEF IsInjective
<1>6. Range(f) = {e} \cup Range(q)
  <2>1. Range(f) \subseteq {e} \cup Range(q)
    <3> SUFFICES ASSUME NEW a \in 1..Len(q) + 1 PROVE f[a] \in {e} \cup Range(q)
      BY <1>1 DEF Range
    <3>1. CASE a = 1 BY <1>1, <3>1
    <3>2. CASE a # 1
      <4>1. a - 1 \in DOMAIN q /\ f[a] = q[a - 1] BY <1>1, <3>2
      <4> QED BY <4>1 DEF Range
    <3> QED BY <3>1, <3>2
  <2>2. e \in Range(f) BY <1>1 DEF Range
  <2>3. Range(q) \subseteq Range(f)
    <3> SUFFICES ASSUME NEW a \in 1..Len(q) PROVE q[a] \in Range(f)
      BY <1>1 DEF Range
    <3>1. a + 1 \in DOMAIN f /\ f[a + 1] = q[a] BY <1>1
    <3> QED BY <3>1 DEF Range
  <2> QED BY <2>1, <2>2, <2>3
<1>7. Range(g) = {e} \cup Range(q)
  <2>1. Range(g) \subseteq {e} \cup Range(q) BY <1>1 DEF Range
  <2>2. e \in Range(g) BY <1>1 DEF Range
  <2>3. Range(q) \subseteq Range(g) BY <1>1 DEF Range
  <2> QED BY <2>1, <2>2, <2>3
<1> QED BY <1>4, <1>5, <1>6, <1>7 DEF f, g

LEMMA ReverseRange ==
    ASSUME NEW S, NEW q \in Seq(S), IsInjective(q)
    PROVE  Reverse(q) \in Seq(S) /\ IsInjective(Reverse(q)) /\ Range(Reverse(q)) = Range(q)
<1> DEFINE r == Reverse(q)
<1>1. Len(q) \in Nat /\ DOMAIN q = 1..Len(q) /\ \A i \in 1..Len(q) : q[i] \in S
  OBVIOUS
<1>2. /\ DOMAIN r = 1..Len(q)
      /\ \A i \in 1..Len(q) : (Len(q) - i) + 1 \in 1..Len(q) /\ r[i] = q[(Len(q) - i) + 1]
  BY <1>1 DEF Reverse
<1>3. r \in Seq(S)
  <2>1. r = [i \in 1..Len(q) |-> r[i]] BY <1>2 DEF Reverse
  <2>2. \A i \in 1..Len(q) : r[i] \in S BY <1>1, <1>2
  <2> HIDE DEF r
  <2> QED BY <1>1, <2>1, <2>2
<1> HIDE DEF r
<1>4. IsInjective(r)
  <2> SUFFICES ASSUME NEW a \in 1..Len(q), NEW b \in 1..Len(q), r[a] = r[b] PROVE a = b
    BY <1>2 DEF IsInjective
  <2>1. (Len(q) - a) + 1 = (Len(q) - b) + 1 BY <1>1, <1>2 DEF IsInjective
  <2> QED BY <1>1, <2>1
<1>5. Range(r) \subseteq Range(q) BY <1>1, <1>2 DEF Range
<1>6. Range(q) \subseteq Range(r)
  <2> SUFFICES ASSUME NEW a \in 1..Len(q) PROVE q[a] \in Range(r)
    BY <1>1 DEF Range
  <2>1. /\ (Len(q) - a) + 1 \in 1..Len(q)
        /\ (Len(q) - ((Len(q) - a) + 1)) + 1 = a
    BY <1>1
  <2>2. r[(Len(q) - a) + 1] = q[a] BY <1>2, <2>1
  <2> QED BY <1>2, <2>1, <2>2 DEF Range
<1> QED BY <1>3, <1>4, <1>5, <1>6 DEF r

-----------------------------------------------------------------------------
(* The graph. *)

\* A system's dependent is one gated trigger, or it has none.
LEMMA DependentsOne ==
    /\ \A p, t \in Systems : p \in Preds(t) => dependents[p] = <<t>>
    /\ \A p, t \in Systems : dependents[p] = <<t>> => p \in Preds(t) /\ t \in Gated
    /\ \A p \in Systems : dependents[p] = <<>> \/ \E t \in Gated : dependents[p] = <<t>>
<1>1. \A p \in Systems : dependents[p] \in Seq(Systems) /\ Len(dependents[p]) <= 1
  BY GraphAssumption DEF GraphOK, OneDependent, EdgesOK
<1>2. \A p, t \in Systems : p \in Preds(t) => dependents[p] = <<t>>
  <2> TAKE p, t \in Systems
  <2> HAVE p \in Preds(t)
  <2>1. \E i \in DOMAIN dependents[p] : dependents[p][i] = t BY DEF Preds, Range
  <2> QED BY <1>1, <2>1
<1>3. \A p, t \in Systems : dependents[p] = <<t>> => p \in Preds(t) /\ t \in Gated
  <2> TAKE p, t \in Systems
  <2> HAVE dependents[p] = <<t>>
  <2>1. t \in Range(dependents[p]) BY DEF Range
  <2>2. p \in Preds(t) BY <2>1 DEF Preds
  <2>3. t \in Triggers BY <2>1 DEF Triggers
  <2>4. t # root BY <2>2, GraphAssumption DEF GraphOK, CountsOK
  <2> QED BY <2>2, <2>3, <2>4 DEF Gated
<1>4. \A p \in Systems : dependents[p] = <<>> \/ \E t \in Gated : dependents[p] = <<t>>
  <2> TAKE p \in Systems
  <2>1. CASE Len(dependents[p]) = 0 BY <1>1, <2>1
  <2>2. CASE Len(dependents[p]) = 1
    <3>1. dependents[p][1] \in Systems /\ dependents[p] = <<dependents[p][1]>> BY <1>1, <2>2
    <3> QED BY <1>3, <3>1
  <2>3. Len(dependents[p]) = 0 \/ Len(dependents[p]) = 1
    <3> DEFINE n == Len(dependents[p])
    <3>1. n \in Nat /\ n <= 1 BY <1>1
    <3> HIDE DEF n
    <3>2. n = 0 \/ n = 1 BY <3>1
    <3> QED BY <3>2 DEF n
  <2> QED BY <2>1, <2>2, <2>3
<1> QED BY <1>2, <1>3, <1>4

\* Batches are disjoint sets of systems, and cover them.
LEMMA BatchFacts ==
    /\ Triggers \subseteq Systems /\ Gated \subseteq Systems /\ root \notin Gated
    /\ \A t \in Triggers : Batch(t) \subseteq Systems
    /\ \A t \in Gated : Batch(t) \cap Batch(root) = {}
    /\ \A t, u \in Gated : t # u => Batch(t) \cap Batch(u) = {}
    /\ \A s \in Systems : s \in Batch(root) \/ \E t \in Gated : s \in Batch(t)
<1>1. /\ root \in Systems
      /\ \A s \in Systems : dependents[s] \in Seq(Systems) /\ associates[s] \in Seq(Systems)
  BY GraphAssumption DEF GraphOK, EdgesOK
<1>2. \A s \in Systems : Range(dependents[s]) \subseteq Systems /\ Range(associates[s]) \subseteq Systems
  BY <1>1 DEF Range
<1>3. Triggers \subseteq Systems BY <1>1, <1>2 DEF Triggers
<1>4. \A t \in Triggers : Batch(t) \subseteq Systems BY <1>2, <1>3 DEF Batch
<1>5. root \in Triggers BY DEF Triggers
<1> QED BY <1>3, <1>4, <1>5, GraphAssumption DEF GraphOK, BatchesOK, Gated

\* A gate waits for a finite, non-empty set of systems.
LEMMA GateCounts ==
    \A t \in Gated : /\ Preds(t) \subseteq Systems /\ IsFiniteSet(Preds(t))
                     /\ dependency_count[t] = Cardinality(Preds(t))
                     /\ Preds(t) # {}
<1> TAKE t \in Gated
<1>1. Preds(t) \subseteq Systems BY DEF Preds
<1>2. IsFiniteSet(Preds(t)) BY <1>1, FS_Subset, GraphAssumption DEF GraphOK
<1>3. dependency_count[t] = Cardinality(Preds(t)) /\ dependency_count[t] > 0
  BY GraphAssumption DEF GraphOK, CountsOK, Gated
<1>4. Preds(t) # {} BY <1>3, FS_EmptySet
<1> QED BY <1>1, <1>2, <1>3, <1>4

\* A batch is dispatched whole and without repetition.
LEMMA DispatchOrders ==
    /\ RootOrder \in Seq(Systems) /\ IsInjective(RootOrder) /\ Range(RootOrder) = Batch(root)
    /\ \A t \in Gated : /\ DispatchOrder(t) \in Seq(Systems)
                        /\ IsInjective(DispatchOrder(t))
                        /\ Range(DispatchOrder(t)) = Batch(t)
<1>1. /\ root \in Systems /\ root \in Triggers /\ Gated \subseteq Triggers
      /\ \A s \in Systems : associates[s] \in Seq(Systems) /\ IsInjective(associates[s])
      /\ \A t \in Triggers : t \notin Range(associates[t])
  BY GraphAssumption DEF GraphOK, EdgesOK, BatchesOK, Triggers, Gated
<1>2. IsInjective(RootOrder) /\ Range(RootOrder) = Batch(root)
  BY <1>1, ConsRange DEF RootOrder, Batch
<1>3. ASSUME NEW t \in Gated
      PROVE  IsInjective(DispatchOrder(t)) /\ Range(DispatchOrder(t)) = Batch(t)
  <2>1. t \in Systems BY BatchFacts
  <2>2. /\ Reverse(associates[t]) \in Seq(Systems)
        /\ IsInjective(Reverse(associates[t]))
        /\ Range(Reverse(associates[t])) = Range(associates[t])
    BY <1>1, <2>1, ReverseRange
  <2>3. t \notin Range(Reverse(associates[t])) BY <1>1, <2>2
  <2> QED BY <2>1, <2>2, <2>3, ConsRange DEF DispatchOrder, Batch
<1> QED BY <1>2, <1>3, OrderTypes, BatchFacts

-----------------------------------------------------------------------------
(* Where tasks are. *)

\* A dispatched task belongs to this run or to an earlier one; if it has not
\* been settled, it is of this run.
LEMMA TaskFacts ==
    ASSUME TypeInv, RunsInv
    PROVE  /\ \A s \in Systems : Released(s) <=> dispatched[s] = runs /\ runs > 0
           /\ \A s \in Systems : Released(s) <=> Current(s) \in Dispatched
           /\ \A s \in Systems : ~Released(s) /\ runs > 0 => dispatched[s] + 1 = runs
           /\ Dispatched \subseteq RunTasks(runs)
           /\ \A t \in Dispatched \ settled : \E s \in Systems : t = Current(s) /\ Released(s)
<1>1. /\ runs \in Nat /\ \A s \in Systems : dispatched[s] \in Nat
      /\ \A s \in Systems : dispatched[s] <= runs /\ runs <= dispatched[s] + 1
      /\ RunTasks(runs - 1) \subseteq settled
  BY DEF TypeInv, TypeOK, RunsInv
<1>2. \A s \in Systems : \A k : <<s, k>> \in Dispatched <=> k \in 1..dispatched[s]
  BY DEF Dispatched
<1>3. \A t \in Dispatched : \E s \in Systems : \E k \in 1..dispatched[s] : t = <<s, k>>
  BY DEF Dispatched
<1>4. \A s \in Systems : Released(s) <=> dispatched[s] = runs /\ runs > 0
  BY <1>1 DEF Released
<1>5. \A s \in Systems : Released(s) <=> Current(s) \in Dispatched
  BY <1>1, <1>2 DEF Released, Current
<1>6. \A s \in Systems : ~Released(s) /\ runs > 0 => dispatched[s] + 1 = runs
  BY <1>1, <1>4
<1>7. Dispatched \subseteq RunTasks(runs)
  <2> SUFFICES ASSUME NEW t \in Dispatched PROVE t \in RunTasks(runs)
    OBVIOUS
  <2>1. PICK s \in Systems : \E k \in 1..dispatched[s] : t = <<s, k>> BY <1>3
  <2>2. PICK k \in 1..dispatched[s] : t = <<s, k>> BY <2>1
  <2>3. k \in 1..runs BY <1>1
  <2> QED BY <2>2, <2>3 DEF RunTasks
<1>8. ASSUME NEW t \in Dispatched \ settled
      PROVE  \E s \in Systems : t = Current(s) /\ Released(s)
  <2>1. PICK s \in Systems : \E k \in 1..dispatched[s] : t = <<s, k>> BY <1>3
  <2>2. PICK k \in 1..dispatched[s] : t = <<s, k>> BY <2>1
  <2>3. k \notin 1..runs - 1 BY <1>1, <2>2 DEF RunTasks
  <2>4. k = runs /\ dispatched[s] = runs /\ runs > 0 BY <1>1, <2>3
  <2> QED BY <1>4, <2>2, <2>4 DEF Current
<1> QED BY <1>4, <1>5, <1>6, <1>7, <1>8

\* Whatever is queued, running or counted has been dispatched and is not
\* settled; and so it belongs to this run.
LEMMA PlaceFacts ==
    ASSUME TypeInv, RunsInv, Conservation
    PROVE  /\ settled \subseteq Dispatched
           /\ injector \subseteq Dispatched \ settled
           /\ \A w \in Threads : /\ deque[w] \subseteq Dispatched \ settled
                                 /\ running[w] \subseteq Dispatched \ settled
                                 /\ tasks_done[w] \subseteq Dispatched \ settled
           /\ \A t \in injector : \E s \in Systems : t = Current(s)
           /\ \A w \in Threads : \A t \in deque[w] : \E s \in Systems : t = Current(s)
           /\ \A w \in Threads : \A t \in tasks_done[w] : \E s \in Systems : t = Current(s)
<1>1. settled \subseteq Dispatched /\ injector \subseteq Dispatched \ settled
  BY DEF Conservation
<1>2. \A w \in Threads : /\ deque[w] \subseteq Dispatched \ settled
                         /\ running[w] \subseteq Dispatched \ settled
                         /\ tasks_done[w] \subseteq Dispatched \ settled
  <2> TAKE w \in Threads
  <2>1. deque[w] \cup running[w] \cup tasks_done[w] \subseteq Dispatched
    BY DEF Conservation
  <2>2. (deque[w] \cup running[w] \cup tasks_done[w]) \cap settled = {}
    BY DEF Conservation
  <2> QED BY <2>1, <2>2
<1> QED BY <1>1, <1>2, TaskFacts

-----------------------------------------------------------------------------
(* Steps that leave the tasks and the gates alone. *)

\* Where a worker is inside a task, and where it has settled its tasks.
InTask == {"system", "gate", "push", "returning"}
Spent == {"start", "drained", "ready", "wake", "park", "exited"}

\* Workers move about outside their tasks, or unwind out of one.
QuietPhases ==
    /\ \A v \in Threads : pc[v] \in InTask \/ pc'[v] \in InTask => pc'[v] \in {pc[v], "dead"}
    /\ \A v \in Threads : pc'[v] = "dead" => pc[v] \in {"dead", "system"}
    /\ \A v \in Threads : pc[v] = "dead" => pc'[v] = "dead"
    /\ \A v \in Threads : pc'[v] \in Spent => pc[v] \in Spent

taskVars == <<injector, deque, running, tasks_done, settled, tasks, dispatched,
              dependency_gate, deps, pushq, to_push, completed, runs>>

LEMMA QuietStep ==
    ASSUME IInv, TypeInv', UNCHANGED taskVars, UNCHANGED synced, QuietPhases,
           main' = "push" <=> main = "push",
           synced => main' \notin {"push", "ready"}
    PROVE  IInv'
<1> USE DEF IInv, taskVars
<1>1. Conservation' BY DEF Conservation, Dispatched
<1>2. RunsInv' BY DEF RunsInv, RunTasks
<1>3. RootInv' BY DEF RootInv, Released
<1>4. WorkerInv'
  <2> SUFFICES ASSUME NEW v \in Threads
      PROVE  /\ pc'[v] \in InTask => \E s \in Systems : running[v] = {Current(s)}
             /\ pc'[v] \notin InTask \cup {"dead"} => running[v] = {}
             /\ pc'[v] \in {"gate", "push"} =>
                   \E s, t \in Systems : running[v] = {Current(s)} /\ dependents[s] = <<t>> /\ deps[v] = <<t>>
             /\ pc'[v] \in Spent => tasks_done[v] = {}
    BY DEF WorkerInv, InTask, Spent, Current
  <2> QED BY DEF WorkerInv, QuietPhases, InTask, Spent
<1>5. \A v \in Threads : /\ (pc'[v] = "gate" <=> pc[v] = "gate")
                         /\ (pc'[v] = "push" <=> pc[v] = "push")
                         /\ (Finishing(v)' <=> Finishing(v))
  BY DEF QuietPhases, Finishing, InTask
<1>6. CompletedInv' BY <1>5 DEF CompletedInv, Dispatched
<1>7. GateInv'
  <2>1. \A t \in Systems : Counted(t)' = Counted(t) BY <1>5 DEF Counted, Current
  <2>2. \A v \in Threads : \A t \in Systems : Pushing(v, t)' <=> Pushing(v, t) BY <1>5 DEF Pushing
  <2>3. \A t \in Systems : Opened(t)' <=> Opened(t) BY <2>1 DEF Opened
  <2>4. Gated \subseteq Systems BY BatchFacts
  <2> QED BY <2>1, <2>2, <2>3, <2>4 DEF GateInv, Released
<1>8. UngatedInv' BY DEF UngatedInv
<1>9. CounterOK' BY DEF CounterOK, CountedIn, CountedOut
<1> QED BY <1>1, <1>2, <1>3, <1>4, <1>6, <1>7, <1>8, <1>9

-----------------------------------------------------------------------------
(* Steps of a worker between its tasks. *)

\* Workers that take or finish a task, settle or unwind neither reach a gate
\* nor leave one: the gates stand as they were.
LEMMA GateSame ==
    ASSUME GateInv, UngatedInv, UNCHANGED <<dispatched, dependency_gate, deps, pushq, completed, runs>>,
           \A v \in Threads : pc'[v] = "gate" <=> pc[v] = "gate",
           \A v \in Threads : pc'[v] = "push" <=> pc[v] = "push",
           \A v \in Threads : pc[v] = "gate" => running'[v] = running[v]
    PROVE  GateInv' /\ UngatedInv'
<1>1. \A t \in Systems : Counted(t)' = Counted(t) BY DEF Counted, Current
<1>2. \A v \in Threads : \A t \in Systems : Pushing(v, t)' <=> Pushing(v, t) BY DEF Pushing
<1>3. \A t \in Systems : Opened(t)' <=> Opened(t) BY <1>1 DEF Opened
<1>4. Gated \subseteq Systems BY BatchFacts
<1>5. GateInv' BY <1>1, <1>2, <1>3, <1>4 DEF GateInv, Released
<1> QED BY <1>5 DEF UngatedInv

\* Where a worker takes tasks.
Taking == {"pop", "inject", "steal"}

\* A worker that has taken task t of a queue, wherever the rest of a stolen
\* batch has gone.
LEMMA TaskTaken ==
    ASSUME IInv, TypeInv', Conservation', NEW w \in Threads, NEW t,
           pc[w] \in Taking, pc' = [pc EXCEPT ![w] = "system"],
           running' = [running EXCEPT ![w] = {t}],
           UNCHANGED <<tasks_done, settled, tasks, main, dispatched, dependency_gate, deps, pushq,
                       to_push, completed, runs, synced>>,
           t \in injector \/ \E v \in Threads : t \in deque[v],
           injector' \subseteq injector,
           \A v \in Threads : \A u \in deque'[v] : u \in injector \/ \E x \in Threads : u \in deque[x]
    PROVE  IInv'
<1> USE DEF IInv, Taking
<1>1. pc \in [Threads -> WorkerPCs] /\ running \in [Threads -> SUBSET Tasks]
  BY DEF TypeInv, TypeOK
<1>2. /\ pc'[w] = "system" /\ running'[w] = {t}
      /\ \A v \in Threads \ {w} : pc'[v] = pc[v] /\ running'[v] = running[v]
  BY <1>1
<1>3. \E s \in Systems : t = Current(s) BY PlaceFacts
<1>4. \A u : (u \in injector \/ \E x \in Threads : u \in deque[x]) => u \notin completed
  BY DEF CompletedInv
<1>5. RunsInv' BY DEF RunsInv, RunTasks
<1>6. RootInv' BY DEF RootInv, Released
<1>7. WorkerInv'
  <2> SUFFICES ASSUME NEW v \in Threads
      PROVE  /\ pc'[v] \in {"system", "gate", "push", "returning"} =>
                   \E s \in Systems : running'[v] = {Current(s)}
             /\ pc'[v] \notin {"system", "gate", "push", "returning", "dead"} => running'[v] = {}
             /\ pc'[v] \in {"gate", "push"} =>
                   \E s, u \in Systems : running'[v] = {Current(s)} /\ dependents[s] = <<u>> /\ deps[v] = <<u>>
             /\ pc'[v] \in {"start", "drained", "ready", "wake", "park", "exited"} => tasks_done[v] = {}
    BY SMTT(30) DEF WorkerInv, Current
  <2>1. CASE v = w BY <1>2, <1>3, <2>1
  <2>2. CASE v # w BY <1>2, <2>2 DEF WorkerInv
  <2> QED BY <2>1, <2>2
<1>8. CompletedInv'
  <2>1. \A v \in Threads : Finishing(v)' => v # w /\ Finishing(v) BY <1>2 DEF Finishing
  <2>2. \A v \in Threads : v # w => (Finishing(v)' <=> Finishing(v)) BY <1>2 DEF Finishing
  <2>3. \A v \in Threads : ~Finishing(v)' => running'[v] \cap completed = {}
    BY <1>2, <1>4, <2>2 DEF CompletedInv
  <2>4. \A v \in Threads : deque'[v] \cap completed = {} BY <1>4
  <2> QED BY <1>2, <1>4, <2>1, <2>3, <2>4 DEF CompletedInv, Dispatched
<1>9. GateInv' /\ UngatedInv' BY <1>2, GateSame
<1>10. CounterOK' BY DEF CounterOK, CountedIn, CountedOut
<1> QED BY <1>5, <1>6, <1>7, <1>8, <1>9, <1>10

LEMMA PopLocalStep ==
    ASSUME IInv, TypeInv', NEW w \in Threads, PopLocal(w), UNCHANGED multiVars
    PROVE  IInv'
<1>1. PICK t \in deque[w] : /\ running' = [running EXCEPT ![w] = {t}]
                            /\ deque' = [deque EXCEPT ![w] = @ \ {t}]
  BY DEF PopLocal
<1>2. pc[w] = "pop" /\ running[w] = {} BY DEF PopLocal, Goto, IInv, WorkerInv
<1>3. /\ deque \in [Threads -> SUBSET Tasks] /\ running \in [Threads -> SUBSET Tasks]
  BY DEF IInv, TypeInv, TypeOK
<1>4. /\ deque'[w] = deque[w] \ {t} /\ running'[w] = {t}
      /\ \A v \in Threads \ {w} : deque'[v] = deque[v] /\ running'[v] = running[v]
  BY <1>1, <1>3
<1>5. UNCHANGED <<injector, settled, tasks_done, dispatched>> BY DEF PopLocal, multiVars
<1>6. Conservation'
  <2>1. Dispatched' = Dispatched BY <1>5 DEF Dispatched
  <2>2. \A v \in Threads : Held(v)' = Held(v) BY <1>2, <1>4, <1>5 DEF Held
  <2> QED BY <1>2, <1>4, <1>5, <2>1, <2>2 DEF IInv, Conservation, Held
<1>7. /\ t \in injector \/ \E v \in Threads : t \in deque[v]
      /\ injector' \subseteq injector
      /\ \A v \in Threads : \A u \in deque'[v] : u \in injector \/ \E x \in Threads : u \in deque[x]
  BY <1>4, <1>5
<1>8. /\ pc' = [pc EXCEPT ![w] = "system"]
      /\ UNCHANGED <<tasks_done, settled, tasks, main, dispatched, dependency_gate, deps, pushq,
                     to_push, completed, runs, synced>>
  BY DEF PopLocal, Goto, sharedVars, multiVars
<1>9. pc[w] \in Taking BY <1>2 DEF Taking
<1> QED BY <1>1, <1>6, <1>7, <1>8, <1>9, TaskTaken

LEMMA StealFromInjectorStep ==
    ASSUME IInv, TypeInv', NEW w \in Threads, StealFromInjector(w), UNCHANGED multiVars
    PROVE  IInv'
<1> PICK B \in BatchesOf(injector) : \E t \in B :
        /\ running' = [running EXCEPT ![w] = {t}]
        /\ deque' = [deque EXCEPT ![w] = @ \cup (B \ {t})]
        /\ injector' = injector \ B
  BY DEF StealFromInjector
<1>1. PICK t \in B : /\ running' = [running EXCEPT ![w] = {t}]
                     /\ deque' = [deque EXCEPT ![w] = @ \cup (B \ {t})]
                     /\ injector' = injector \ B
  OBVIOUS
<1>2. pc[w] = "inject" /\ running[w] = {} BY DEF StealFromInjector, Goto, IInv, WorkerInv
<1>3. /\ deque \in [Threads -> SUBSET Tasks] /\ running \in [Threads -> SUBSET Tasks]
  BY DEF IInv, TypeInv, TypeOK
<1>4. /\ deque'[w] = deque[w] \cup (B \ {t}) /\ running'[w] = {t}
      /\ \A v \in Threads \ {w} : deque'[v] = deque[v] /\ running'[v] = running[v]
  BY <1>1, <1>3
<1>5. B \subseteq injector /\ t \in injector BY DEF BatchesOf
<1>6. UNCHANGED <<settled, tasks_done, dispatched>> BY DEF StealFromInjector, multiVars
<1>7. Conservation'
  <2>1. Dispatched' = Dispatched BY <1>6 DEF Dispatched
  <2>2. /\ Held(w)' = Held(w) \cup B
        /\ \A v \in Threads \ {w} : Held(v)' = Held(v)
    BY <1>1, <1>2, <1>4, <1>6 DEF Held
  <2>3. /\ Dispatched = injector \cup settled \cup UNION {Held(v) : v \in Threads}
        /\ injector \cap settled = {}
        /\ \A v \in Threads : Held(v) \cap injector = {} /\ Held(v) \cap settled = {}
        /\ \A v \in Threads : \A u \in Threads \ {v} : Held(v) \cap Held(u) = {}
        /\ \A v \in Threads : deque[v] \cap running[v] = {} /\ deque[v] \cap tasks_done[v] = {}
                              /\ running[v] \cap tasks_done[v] = {}
    BY DEF IInv, Conservation, Held
  <2>4. Dispatched' = injector' \cup settled' \cup UNION {Held(v)' : v \in Threads}
    BY <1>1, <1>5, <1>6, <2>1, <2>2, <2>3
  <2>5. /\ injector' \cap settled' = {}
        /\ \A v \in Threads : Held(v)' \cap injector' = {} /\ Held(v)' \cap settled' = {}
    BY <1>1, <1>5, <1>6, <2>2, <2>3
  <2>6. \A v \in Threads : \A u \in Threads \ {v} : Held(v)' \cap Held(u)' = {}
    BY <1>5, <2>2, <2>3
  <2>7. \A v \in Threads : deque'[v] \cap running'[v] = {} /\ deque'[v] \cap tasks_done'[v] = {}
                           /\ running'[v] \cap tasks_done'[v] = {}
    BY <1>4, <1>5, <1>6, <2>3 DEF Held
  <2> QED BY <2>4, <2>5, <2>6, <2>7 DEF Conservation, Held
<1>8. /\ t \in injector \/ \E v \in Threads : t \in deque[v]
      /\ injector' \subseteq injector
      /\ \A v \in Threads : \A u \in deque'[v] : u \in injector \/ \E x \in Threads : u \in deque[x]
  BY <1>1, <1>4, <1>5
<1>9. /\ pc' = [pc EXCEPT ![w] = "system"]
      /\ UNCHANGED <<tasks_done, settled, tasks, main, dispatched, dependency_gate, deps, pushq,
                     to_push, completed, runs, synced>>
  BY DEF StealFromInjector, Goto, sharedVars, multiVars
<1>10. pc[w] \in Taking BY <1>2 DEF Taking
<1> QED BY <1>1, <1>7, <1>8, <1>9, <1>10, TaskTaken

LEMMA StealFromVictimStep ==
    ASSUME IInv, TypeInv', NEW w \in Threads, StealFromVictim(w), UNCHANGED multiVars
    PROVE  IInv'
<1> PICK x \in Threads \ {w} : \E B \in BatchesOf(deque[x]) : \E t \in B :
        /\ running' = [running EXCEPT ![w] = {t}]
        /\ deque' = [deque EXCEPT ![x] = @ \ B, ![w] = @ \cup (B \ {t})]
  BY DEF StealFromVictim
<1> PICK B \in BatchesOf(deque[x]) : \E t \in B :
        /\ running' = [running EXCEPT ![w] = {t}]
        /\ deque' = [deque EXCEPT ![x] = @ \ B, ![w] = @ \cup (B \ {t})]
  OBVIOUS
<1>1. PICK t \in B : /\ running' = [running EXCEPT ![w] = {t}]
                     /\ deque' = [deque EXCEPT ![x] = @ \ B, ![w] = @ \cup (B \ {t})]
  OBVIOUS
<1>2. pc[w] = "steal" /\ running[w] = {} BY DEF StealFromVictim, Goto, IInv, WorkerInv
<1>3. /\ deque \in [Threads -> SUBSET Tasks] /\ running \in [Threads -> SUBSET Tasks]
  BY DEF IInv, TypeInv, TypeOK
<1>4. /\ deque'[w] = deque[w] \cup (B \ {t}) /\ running'[w] = {t}
      /\ deque'[x] = deque[x] \ B
      /\ \A v \in Threads \ {w, x} : deque'[v] = deque[v]
      /\ \A v \in Threads \ {w} : running'[v] = running[v]
  BY <1>1, <1>3
<1>5. B \subseteq deque[x] /\ t \in deque[x] BY DEF BatchesOf
<1>6. UNCHANGED <<injector, settled, tasks_done, dispatched>>
  BY DEF StealFromVictim, multiVars
<1>7. Conservation'
  <2>1. Dispatched' = Dispatched BY <1>6 DEF Dispatched
  <2>2. /\ Dispatched = injector \cup settled \cup UNION {Held(v) : v \in Threads}
        /\ injector \cap settled = {}
        /\ \A v \in Threads : Held(v) \cap injector = {} /\ Held(v) \cap settled = {}
        /\ \A v \in Threads : \A u \in Threads \ {v} : Held(v) \cap Held(u) = {}
        /\ \A v \in Threads : deque[v] \cap running[v] = {} /\ deque[v] \cap tasks_done[v] = {}
                              /\ running[v] \cap tasks_done[v] = {}
    BY DEF IInv, Conservation, Held
  <2>3. /\ Held(w)' = Held(w) \cup B
        /\ Held(x)' = Held(x) \ B
        /\ \A v \in Threads \ {w, x} : Held(v)' = Held(v)
    <3>1. Held(w)' = Held(w) \cup B BY <1>2, <1>4, <1>6 DEF Held
    <3>2. Held(x)' = Held(x) \ B BY <1>4, <1>5, <1>6, <2>2 DEF Held
    <3>3. \A v \in Threads \ {w, x} : Held(v)' = Held(v) BY <1>4, <1>6 DEF Held
    <3> QED BY <3>1, <3>2, <3>3
  <2>4. B \subseteq Held(x) BY <1>5 DEF Held
  <2>5. UNION {Held(v)' : v \in Threads} = UNION {Held(v) : v \in Threads}
    BY <2>3, <2>4
  <2>6. \A v \in Threads : Held(v)' \cap injector' = {} /\ Held(v)' \cap settled' = {}
    BY <1>6, <2>2, <2>3, <2>4
  <2>7. \A v \in Threads : \A u \in Threads \ {v} : Held(v)' \cap Held(u)' = {}
    BY <2>2, <2>3, <2>4
  <2>8. \A v \in Threads : deque'[v] \cap running'[v] = {} /\ deque'[v] \cap tasks_done'[v] = {}
                           /\ running'[v] \cap tasks_done'[v] = {}
    <3>1. B \cap Held(w) = {} BY <2>2, <2>4
    <3>2. /\ deque'[w] \cap running'[w] = {} /\ deque'[w] \cap tasks_done'[w] = {}
          /\ running'[w] \cap tasks_done'[w] = {}
      <4>1. B \cap deque[w] = {} /\ B \cap tasks_done[w] = {} BY <3>1 DEF Held
      <4>2. deque[w] \cap tasks_done[w] = {} BY <2>2
      <4>3. /\ deque'[w] = deque[w] \cup (B \ {t}) /\ running'[w] = {t} /\ t \in B
            /\ tasks_done'[w] = tasks_done[w]
        BY <1>4, <1>6
      <4> QED BY <4>1, <4>2, <4>3, ZenonT(30)
    <3>3. \A v \in Threads \ {w} : deque'[v] \subseteq deque[v] /\ running'[v] = running[v]
                                /\ tasks_done'[v] = tasks_done[v]
      BY <1>4, <1>6
    <3> QED BY <2>2, <3>2, <3>3
  <2> QED BY <1>6, <2>1, <2>2, <2>5, <2>6, <2>7, <2>8, ZenonT(60) DEF Conservation, Held
<1>8. /\ t \in injector \/ \E v \in Threads : t \in deque[v]
      /\ injector' \subseteq injector
      /\ \A v \in Threads : \A u \in deque'[v] : u \in injector \/ \E y \in Threads : u \in deque[y]
  BY <1>4, <1>5, <1>6
<1>9. /\ pc' = [pc EXCEPT ![w] = "system"]
      /\ UNCHANGED <<tasks_done, settled, tasks, main, dispatched, dependency_gate, deps, pushq,
                     to_push, completed, runs, synced>>
  BY DEF StealFromVictim, Goto, sharedVars, multiVars
<1>10. pc[w] \in Taking BY <1>2 DEF Taking
<1> QED BY <1>1, <1>7, <1>8, <1>9, <1>10, TaskTaken

LEMMA TaskReturnsStep ==
    ASSUME IInv, TypeInv', NEW w \in Threads, TaskReturns(w), UNCHANGED multiVars
    PROVE  IInv'
<1>1. /\ pc[w] = "returning" /\ pc' = [pc EXCEPT ![w] = "pop"]
      /\ tasks_done' = [tasks_done EXCEPT ![w] = @ \cup running[w]]
      /\ running' = [running EXCEPT ![w] = {}]
  BY DEF TaskReturns, Goto
<1>2. /\ pc \in [Threads -> WorkerPCs] /\ tasks_done \in [Threads -> SUBSET Tasks]
      /\ running \in [Threads -> SUBSET Tasks]
  BY DEF IInv, TypeInv, TypeOK
<1>3. /\ pc'[w] = "pop" /\ running'[w] = {} /\ tasks_done'[w] = tasks_done[w] \cup running[w]
      /\ \A v \in Threads \ {w} :
            pc'[v] = pc[v] /\ running'[v] = running[v] /\ tasks_done'[v] = tasks_done[v]
  BY <1>1, <1>2
<1>4. UNCHANGED <<injector, deque, settled, tasks, main, dispatched, dependency_gate, deps, pushq,
                  to_push, completed, runs, synced>>
  BY DEF TaskReturns, sharedVars, multiVars
<1>5. Conservation'
  <2>1. Dispatched' = Dispatched BY <1>4 DEF Dispatched
  <2>2. \A v \in Threads : Held(v)' = Held(v) BY <1>3, <1>4 DEF Held
  <2> QED BY <1>3, <1>4, <2>1, <2>2 DEF IInv, Conservation, Held
<1>6. RunsInv' BY <1>4 DEF IInv, RunsInv, RunTasks
<1>7. RootInv' BY <1>4 DEF IInv, RootInv, Released
<1>8. WorkerInv'
  <2> SUFFICES ASSUME NEW v \in Threads
      PROVE  /\ pc'[v] \in {"system", "gate", "push", "returning"} =>
                   \E s \in Systems : running'[v] = {Current(s)}
             /\ pc'[v] \notin {"system", "gate", "push", "returning", "dead"} => running'[v] = {}
             /\ pc'[v] \in {"gate", "push"} =>
                   \E s, u \in Systems : running'[v] = {Current(s)} /\ dependents[s] = <<u>> /\ deps[v] = <<u>>
             /\ pc'[v] \in {"start", "drained", "ready", "wake", "park", "exited"} => tasks_done'[v] = {}
    BY <1>4 DEF WorkerInv, Current
  <2>1. CASE v = w BY <1>3, <2>1
  <2>2. CASE v # w BY <1>3, <2>2 DEF IInv, WorkerInv
  <2> QED BY <2>1, <2>2
<1>9. CompletedInv'
  <2>1. running[w] \subseteq completed BY <1>1 DEF IInv, CompletedInv, Finishing
  <2>2. \A v \in Threads : v # w => (Finishing(v)' <=> Finishing(v)) BY <1>3 DEF Finishing
  <2>3. ~Finishing(w)' BY <1>3 DEF Finishing
  <2> QED BY <1>3, <1>4, <2>1, <2>2, <2>3 DEF IInv, CompletedInv, Dispatched
<1>10. GateInv' /\ UngatedInv' BY <1>1, <1>3, <1>4, GateSame DEF IInv
<1>11. CounterOK' BY <1>4 DEF IInv, CounterOK, CountedIn, CountedOut
<1> QED BY <1>5, <1>6, <1>7, <1>8, <1>9, <1>10, <1>11 DEF IInv

-----------------------------------------------------------------------------
(* The counter. *)

\* Adding to a number and taking the remainder, in either order.
LEMMA ModShift ==
    ASSUME NEW U \in Nat \ {0}, NEW a \in Int, NEW b \in Int,
           -U < a, a < U, -U < a + b, a + b < U, -U < b, b < U
    PROVE  ((a % U) + b) % U = (a + b) % U
<1>1. \A c \in Int : 0 <= c /\ c < U => c % U = c OBVIOUS
<1>2. \A c \in Int : -U < c /\ c < 0 => c % U = c + U OBVIOUS
<1>3. \A c \in Int : U <= c /\ c < 2 * U => c % U = c - U OBVIOUS
<1>4. CASE 0 <= a BY <1>1, <1>4
<1>5. CASE a < 0
  <2>1. a % U = a + U BY <1>2, <1>5
  <2>2. CASE a + b < 0
    <3>1. 0 <= (a + U) + b /\ (a + U) + b < U BY <2>2
    <3>2. ((a + U) + b) % U = (a + U) + b BY <1>1, <3>1
    <3>3. (a + b) % U = (a + b) + U BY <1>2, <2>2
    <3> QED BY <2>1, <3>2, <3>3
  <2>3. CASE 0 <= a + b
    <3>1. U <= (a + U) + b /\ (a + U) + b < 2 * U BY <2>3
    <3>2. ((a + U) + b) % U = ((a + U) + b) - U BY <1>3, <3>1
    <3>3. (a + b) % U = a + b BY <1>1, <2>3
    <3> QED BY <2>1, <3>2, <3>3
  <2> QED BY <2>2, <2>3
<1> QED BY <1>4, <1>5

\* What CounterOK counts are numbers of systems.
LEMMA CountTypes ==
    /\ CountedIn \in Nat /\ CountedIn <= Cardinality(Systems)
    /\ IsFiniteSet({s \in Systems : Current(s) \in settled})
    /\ CountedOut \in Nat /\ CountedOut <= Cardinality(Systems)
    /\ CountedOut = Cardinality({s \in Systems : Current(s) \in settled})
<1>1. IsFiniteSet(Systems) BY GraphAssumption DEF GraphOK
<1>2. {s \in Systems : Current(s) \in settled} \subseteq Systems OBVIOUS
<1>3. CountedOut = Cardinality({s \in Systems : Current(s) \in settled})
  BY DEF CountedOut, Current
<1>4. Cardinality(Systems) \in Nat BY <1>1, FS_CardinalityType
<1> QED BY <1>1, <1>2, <1>3, <1>4, FS_Subset, FS_CardinalityType DEF CountedIn

\* The systems of a set of tasks of one run are as many as the tasks.
LEMMA TasksOfRun ==
    ASSUME NEW D, IsFiniteSet(D), \A t \in D : \E s \in Systems : t = Current(s)
    PROVE  Cardinality({s \in Systems : Current(s) \in D}) = Cardinality(D)
<1> DEFINE N == {s \in Systems : Current(s) \in D}
           f == [s \in N |-> Current(s)]
<1>1. IsFiniteSet(N)
  BY FS_Subset, GraphAssumption DEF GraphOK
<1>2. f \in [N -> D] OBVIOUS
<1>3. \A t \in D : \E s \in N : f[s] = t OBVIOUS
<1>4. \A r, s \in N : f[r] = f[s] => r = s BY DEF Current
<1>5. f \in Bijection(N, D)
  BY <1>2, <1>3, <1>4 DEF Bijection, Injection, Surjection, IsInjective
<1> HIDE DEF N, f
<1>6. ExistsBijection(N, D) BY <1>5 DEF ExistsBijection
<1>7. Cardinality(D) = Cardinality(N) BY <1>1, <1>6, FS_Bijection
<1> QED BY <1>7 DEF N

\* Settling a set of tasks of this run counts them out.
LEMMA CountsOut ==
    ASSUME IInv, NEW w \in Threads, settled' = settled \cup tasks_done[w], runs' = runs
    PROVE  /\ Cardinality(tasks_done[w]) \in Nat
           /\ CountedOut' = CountedOut + Cardinality(tasks_done[w])
           /\ CountedOut' <= Cardinality(Systems)
<1> DEFINE D == tasks_done[w]
           A == {s \in Systems : Current(s) \in settled}
           N == {s \in Systems : Current(s) \in D}
<1>1. IsFiniteSet(D) BY DEF IInv, TypeInv, QueuesFinite
<1>2. \A t \in D : \E s \in Systems : t = Current(s) BY PlaceFacts DEF IInv
<1>3. Cardinality(N) = Cardinality(D) BY <1>1, <1>2, TasksOfRun
<1>4. A \cap N = {} BY DEF IInv, Conservation
<1>5. CountedOut' = Cardinality(A \cup N)
  <2>1. {s \in Systems : <<s, runs>> \in settled'} = A \cup N BY DEF Current
  <2> QED BY <2>1 DEF CountedOut
<1>6. IsFiniteSet(Systems) BY GraphAssumption DEF GraphOK
<1>7. IsFiniteSet(A) /\ IsFiniteSet(N) BY <1>6, FS_Subset
<1>8. Cardinality(A \cup N) = Cardinality(A) + Cardinality(N)
  <2> HIDE DEF D, A, N
  <2>1. Cardinality(A \cup N) = Cardinality(A) + Cardinality(N) - Cardinality(A \cap N)
    BY <1>7, FS_Union
  <2>2. Cardinality(A \cap N) = 0 BY <1>4, FS_EmptySet
  <2>3. Cardinality(A) \in Nat /\ Cardinality(N) \in Nat BY <1>7, FS_CardinalityType
  <2> QED BY <2>1, <2>2, <2>3
<1>9. Cardinality(A \cup N) <= Cardinality(Systems)
  <2>1. A \cup N \subseteq Systems OBVIOUS
  <2> HIDE DEF A, N
  <2> QED BY <1>6, <2>1, FS_Subset
<1>10. CountedOut = Cardinality(A) BY CountTypes
<1> HIDE DEF D, A, N
<1>11. Cardinality(D) \in Nat BY <1>1, FS_CardinalityType
<1> QED BY <1>3, <1>5, <1>8, <1>9, <1>10, <1>11 DEF D

LEMMA SettleStep ==
    ASSUME IInv, TypeInv', NEW w \in Threads, Settle(w), UNCHANGED multiVars
    PROVE  IInv'
<1>1. /\ pc[w] = "settle"
      /\ settled' = settled \cup tasks_done[w]
      /\ tasks_done' = [tasks_done EXCEPT ![w] = {}]
      /\ tasks' = WrappingSub(tasks, Cardinality(tasks_done[w]))
      /\ \E to \in {"dead", "drained", "start"} : pc' = [pc EXCEPT ![w] = to]
  BY DEF Settle
<1>2. /\ pc \in [Threads -> WorkerPCs] /\ tasks_done \in [Threads -> SUBSET Tasks]
  BY DEF IInv, TypeInv, TypeOK
<1>3. /\ pc'[w] \in {"dead", "drained", "start"} /\ tasks_done'[w] = {}
      /\ \A v \in Threads \ {w} : pc'[v] = pc[v] /\ tasks_done'[v] = tasks_done[v]
  BY <1>1, <1>2
<1>4. UNCHANGED <<injector, deque, running, main, dispatched, dependency_gate, deps, pushq,
                  to_push, completed, runs, synced>>
  BY DEF Settle, multiVars
<1>5. Conservation'
  <2>1. Dispatched' = Dispatched BY <1>4 DEF Dispatched
  <2>2. /\ Dispatched = injector \cup settled \cup UNION {Held(v) : v \in Threads}
        /\ injector \cap settled = {}
        /\ \A v \in Threads : Held(v) \cap injector = {} /\ Held(v) \cap settled = {}
        /\ \A v \in Threads : \A u \in Threads \ {v} : Held(v) \cap Held(u) = {}
        /\ \A v \in Threads : deque[v] \cap running[v] = {} /\ deque[v] \cap tasks_done[v] = {}
                              /\ running[v] \cap tasks_done[v] = {}
    BY DEF IInv, Conservation, Held
  <2>3. /\ Held(w)' = Held(w) \ tasks_done[w] /\ tasks_done[w] \subseteq Held(w)
        /\ \A v \in Threads \ {w} : Held(v)' = Held(v)
    BY <1>3, <1>4, <2>2 DEF Held
  <2>4. Dispatched = injector \cup (settled \cup tasks_done[w]) \cup UNION {Held(v)' : v \in Threads}
    BY <2>2, <2>3
  <2>5. \A v \in Threads : Held(v)' \cap injector = {} /\ Held(v)' \cap settled' = {}
    BY <1>1, <2>2, <2>3
  <2>6. \A v \in Threads : \A u \in Threads \ {v} : Held(v)' \cap Held(u)' = {}
    BY <2>2, <2>3
  <2>7. injector \cap settled' = {} BY <1>1, <2>2, <2>3
  <2>8. \A v \in Threads : tasks_done'[v] \subseteq tasks_done[v] BY <1>3
  <2>9. \A v \in Threads : deque'[v] \cap running'[v] = {} /\ deque'[v] \cap tasks_done'[v] = {}
                           /\ running'[v] \cap tasks_done'[v] = {}
    BY <1>4, <2>2, <2>8
  <2> QED BY <1>1, <1>4, <2>1, <2>4, <2>5, <2>6, <2>7, <2>9 DEF Conservation, Held
<1>6. RunsInv'
  <2>1. synced => tasks_done[w] = {}
    <3>1. tasks_done[w] \subseteq Dispatched \ settled /\ Dispatched \subseteq RunTasks(runs)
      BY PlaceFacts, TaskFacts DEF IInv
    <3>2. synced => settled = RunTasks(runs) BY DEF IInv, RunsInv
    <3> QED BY <3>1, <3>2
  <2> QED BY <1>1, <1>4, <2>1 DEF IInv, RunsInv, RunTasks
<1>7. RootInv' BY <1>4 DEF IInv, RootInv, Released
<1>8. WorkerInv'
  <2> SUFFICES ASSUME NEW v \in Threads
      PROVE  /\ pc'[v] \in {"system", "gate", "push", "returning"} =>
                   \E s \in Systems : running[v] = {Current(s)}
             /\ pc'[v] \notin {"system", "gate", "push", "returning", "dead"} => running[v] = {}
             /\ pc'[v] \in {"gate", "push"} =>
                   \E s, u \in Systems : running[v] = {Current(s)} /\ dependents[s] = <<u>> /\ deps[v] = <<u>>
             /\ pc'[v] \in {"start", "drained", "ready", "wake", "park", "exited"} => tasks_done'[v] = {}
    BY <1>4 DEF WorkerInv, Current
  <2>1. CASE v = w BY <1>1, <1>3, <2>1 DEF IInv, WorkerInv
  <2>2. CASE v # w BY <1>3, <2>2 DEF IInv, WorkerInv
  <2> QED BY <2>1, <2>2
<1>9. CompletedInv'
  <2>1. \A v \in Threads : Finishing(v)' <=> Finishing(v) BY <1>1, <1>3 DEF Finishing
  <2>2. tasks_done[w] \subseteq completed BY DEF IInv, CompletedInv
  <2>3. \A v \in Threads : tasks_done'[v] \subseteq completed BY <1>3 DEF IInv, CompletedInv
  <2> QED BY <1>1, <1>4, <2>1, <2>2, <2>3 DEF IInv, CompletedInv, Dispatched
<1>10. GateInv' /\ UngatedInv' BY <1>1, <1>3, <1>4, GateSame DEF IInv
<1>11. CounterOK'
  <2> DEFINE n == Cardinality(tasks_done[w])
             a == CountedIn - CountedOut
  <2>1. n \in Nat /\ CountedOut' = CountedOut + n /\ CountedOut' <= Cardinality(Systems)
    BY <1>1, <1>4, CountsOut
  <2>2. CountedIn' = CountedIn BY <1>4 DEF CountedIn
  <2>3. tasks = a % Usize BY DEF IInv, CounterOK, WrappingSub
  <2>4. tasks' = ((a % Usize) + (-n)) % Usize
    <3>1. a \in Int /\ n \in Int BY <2>1, CountTypes
    <3>2. a % Usize \in Int BY <3>1, UsizeAssumption
    <3>3. (a % Usize) - n = (a % Usize) + (-n) BY <3>1, <3>2
    <3> QED BY <1>1, <2>3, <3>3 DEF WrappingSub
  <2>5. /\ Usize \in Nat \ {0} /\ a \in Int /\ -n \in Int
        /\ -Usize < a /\ a < Usize /\ -Usize < a + (-n) /\ a + (-n) < Usize
        /\ -Usize < -n /\ -n < Usize
    BY <2>1, CountTypes, UsizeAssumption, WidthAssumption, OrderTypes
  <2>6. a + (-n) = CountedIn' - CountedOut' BY <2>1, <2>2, CountTypes
  <2> HIDE DEF a, n
  <2>7. tasks' = (a + (-n)) % Usize BY <2>4, <2>5, ModShift
  <2> QED BY <2>6, <2>7 DEF CounterOK, WrappingSub
<1> QED BY <1>5, <1>6, <1>7, <1>8, <1>9, <1>10, <1>11 DEF IInv

-----------------------------------------------------------------------------
(* Inside a task. *)

\* What a worker that is inside a task holds.
LEMMA InSystem ==
    ASSUME IInv, NEW w \in Threads, pc[w] \in InTask
    PROVE  \E s \in Systems :
              /\ running[w] = {Current(s)} /\ Current(s) \in Dispatched
              /\ runs > 0 /\ runs \in Nat
              /\ Current(s) \notin injector /\ Current(s) \notin settled
              /\ \A v \in Threads : /\ Current(s) \notin deque[v]
                                    /\ Current(s) \notin tasks_done[v]
                                    /\ v # w => Current(s) \notin running[v]
<1>1. PICK s \in Systems : running[w] = {Current(s)}
  BY DEF IInv, WorkerInv, InTask
<1>2. Current(s) \in Dispatched /\ Current(s) \notin settled
  BY <1>1, PlaceFacts DEF IInv
<1>3. runs > 0 /\ runs \in Nat
  <2>1. Released(s) <=> dispatched[s] = runs /\ runs > 0 BY TaskFacts DEF IInv
  <2>2. Released(s) <=> Current(s) \in Dispatched BY TaskFacts DEF IInv
  <2>3. runs \in Nat BY DEF IInv, TypeInv, TypeOK
  <2> QED BY <1>2, <2>1, <2>2, <2>3
<1>4. Current(s) \notin injector BY <1>1 DEF IInv, Conservation
<1>5. ASSUME NEW v \in Threads
      PROVE  /\ Current(s) \notin deque[v]
             /\ Current(s) \notin tasks_done[v]
             /\ v # w => Current(s) \notin running[v]
  <2>1. CASE v = w BY <1>1, <2>1 DEF IInv, Conservation
  <2>2. CASE v # w
    <3>1. (deque[w] \cup running[w] \cup tasks_done[w])
             \cap (deque[v] \cup running[v] \cup tasks_done[v]) = {}
      BY <2>2 DEF IInv, Conservation
    <3> QED BY <1>1, <3>1
  <2> QED BY <2>1, <2>2
<1> QED BY <1>1, <1>2, <1>3, <1>4, <1>5

\* A worker at a gate, or pushing behind one.
LEMMA AtGate ==
    ASSUME IInv, NEW w \in Threads, pc[w] \in {"gate", "push"}
    PROVE  \E s \in Systems, t \in Gated :
              /\ running[w] = {Current(s)} /\ Current(s) \in completed
              /\ s \in Preds(t) /\ dependents[s] = <<t>> /\ deps[w] = <<t>>
              /\ Head(deps[w]) = t /\ Tail(deps[w]) = <<>>
<1>1. PICK s, t \in Systems :
         running[w] = {Current(s)} /\ dependents[s] = <<t>> /\ deps[w] = <<t>>
  BY DEF IInv, WorkerInv
<1>2. s \in Preds(t) /\ t \in Gated BY <1>1, DependentsOne
<1>3. running[w] \subseteq completed BY DEF IInv, CompletedInv, Finishing
<1>4. Head(<<t>>) = t /\ Tail(<<t>>) = <<>> OBVIOUS
<1> QED BY <1>1, <1>2, <1>3, <1>4

\* What a task leaves alone until it returns.
LEMMA PlacesSame ==
    ASSUME IInv, UNCHANGED <<queueVars, tasks, main, dispatched, to_push, runs, synced>>
    PROVE  Conservation' /\ RunsInv' /\ RootInv' /\ CounterOK'
<1> USE DEF IInv, queueVars
<1>1. Conservation' BY DEF Conservation, Dispatched
<1>2. RunsInv' BY DEF RunsInv, RunTasks
<1>3. RootInv' BY DEF RootInv, Released
<1>4. CounterOK' BY DEF CounterOK, CountedIn, CountedOut
<1> QED BY <1>1, <1>2, <1>3, <1>4

LEMMA SystemReturnsStep ==
    ASSUME IInv, TypeInv', NEW w \in Threads, SystemReturns(w)
    PROVE  IInv'
<1>1. PICK t \in running[w] : /\ completed' = completed \cup {t}
                              /\ CountAtNext(w, dependents[t[1]])
  BY DEF SystemReturns
<1>2. pc[w] = "system" BY DEF SystemReturns
<1>3. PICK s \in Systems :
         /\ running[w] = {Current(s)} /\ Current(s) \in Dispatched
         /\ runs > 0 /\ runs \in Nat
         /\ Current(s) \notin injector /\ Current(s) \notin settled
         /\ \A v \in Threads : /\ Current(s) \notin deque[v]
                               /\ Current(s) \notin tasks_done[v]
                               /\ v # w => Current(s) \notin running[v]
  BY <1>2, InSystem DEF InTask
<1>4. t = Current(s) /\ t[1] = s BY <1>3 DEF Current
<1>5. /\ pc \in [Threads -> WorkerPCs] /\ deps \in [Threads -> Seq(Systems)]
  BY DEF IInv, TypeInv, TypeOK
<1>6. /\ pc'[w] = (IF dependents[s] = <<>> THEN "returning" ELSE "gate")
      /\ deps'[w] = dependents[s]
      /\ \A v \in Threads \ {w} : pc'[v] = pc[v] /\ deps'[v] = deps[v]
  BY <1>1, <1>4, <1>5 DEF CountAtNext
<1>7. UNCHANGED <<queueVars, tasks, main, dispatched, dependency_gate, pushq, to_push, runs, synced>>
  BY DEF SystemReturns, sharedVars
<1>8. UNCHANGED <<injector, deque, running, tasks_done, settled>> BY <1>7 DEF queueVars
<1>9. completed' = completed \cup {Current(s)} BY <1>1, <1>4
<1>10. WorkerInv'
  <2> SUFFICES ASSUME NEW v \in Threads
      PROVE  /\ pc'[v] \in {"system", "gate", "push", "returning"} =>
                   \E r \in Systems : running[v] = {Current(r)}
             /\ pc'[v] \notin {"system", "gate", "push", "returning", "dead"} => running[v] = {}
             /\ pc'[v] \in {"gate", "push"} =>
                   \E r, u \in Systems : running[v] = {Current(r)} /\ dependents[r] = <<u>> /\ deps'[v] = <<u>>
             /\ pc'[v] \in {"start", "drained", "ready", "wake", "park", "exited"} => tasks_done[v] = {}
    BY <1>7, <1>8 DEF WorkerInv, Current
  <2>1. CASE v = w
    <3>1. dependents[s] = <<>> \/ \E u \in Systems : dependents[s] = <<u>>
      BY DependentsOne, BatchFacts
    <3> QED BY <1>3, <1>6, <2>1, <3>1
  <2>2. CASE v # w BY <1>6, <2>2 DEF IInv, WorkerInv
  <2> QED BY <2>1, <2>2
<1>11. CompletedInv'
  <2>1. \A v \in Threads : v # w => (Finishing(v)' <=> Finishing(v)) BY <1>6 DEF Finishing
  <2>2. Finishing(w)' BY <1>6 DEF Finishing
  <2>3. Dispatched' = Dispatched BY <1>7 DEF Dispatched
  <2>4. \A v \in Threads : Finishing(v)' => running[v] \subseteq completed'
    BY <1>3, <1>9, <2>1 DEF IInv, CompletedInv
  <2>5. \A v \in Threads : ~Finishing(v)' => running[v] \cap completed' = {}
    BY <1>3, <1>9, <2>1, <2>2 DEF IInv, CompletedInv
  <2>6. \A v \in Threads : tasks_done[v] \subseteq completed' /\ deque[v] \cap completed' = {}
    BY <1>3, <1>9 DEF IInv, CompletedInv
  <2>7. /\ settled \subseteq completed' /\ injector \cap completed' = {}
        /\ completed' \subseteq Dispatched
    BY <1>3, <1>9 DEF IInv, CompletedInv
  <2> QED BY <1>8, <2>3, <2>4, <2>5, <2>6, <2>7 DEF CompletedInv
<1>12. GateInv' /\ UngatedInv'
  <2>1. ASSUME NEW u \in Gated PROVE Counted(u)' = Counted(u)
    <3> SUFFICES ASSUME NEW p \in Preds(u)
        PROVE  (/\ Current(p) \in completed'
                /\ \A v \in Threads : pc'[v] = "gate" => Current(p) \notin running[v])
               <=> (/\ Current(p) \in completed
                    /\ \A v \in Threads : pc[v] = "gate" => Current(p) \notin running[v])
      BY <1>7, <1>8 DEF Counted, Current
    <3>1. CASE p = s
      <4>1. Current(s) \notin completed
        BY <1>2, <1>3 DEF IInv, CompletedInv, Finishing
      <4>2. dependents[s] = <<u>> BY <3>1, DependentsOne, BatchFacts
      <4>3. pc'[w] = "gate" BY <1>6, <4>2
      <4> QED BY <1>3, <3>1, <4>1, <4>3
    <3>2. CASE p # s
      <4>1. Current(p) # Current(s) BY <3>2 DEF Current
      <4>2. Current(p) \notin running[w] BY <1>3, <4>1
      <4> QED BY <1>6, <1>9, <4>1, <4>2
    <3> QED BY <3>1, <3>2
  <2>2. \A u \in Gated : Opened(u)' <=> Opened(u) BY <2>1 DEF Opened
  <2>3. \A v \in Threads : \A u \in Gated : Pushing(v, u)' <=> Pushing(v, u)
    BY <1>2, <1>6 DEF Pushing
  <2>4. GateInv' BY <1>7, <2>1, <2>2, <2>3 DEF IInv, GateInv, Released
  <2> QED BY <1>7, <2>4 DEF IInv, UngatedInv
<1> QED BY <1>7, <1>10, <1>11, <1>12, PlacesSame DEF IInv

-----------------------------------------------------------------------------
(* The gate. *)

\* A worker that leaves the gate it stood at has counted there, and nowhere
\* else; until then the gate was shut and nobody was pushing behind it.
LEMMA GateCounted ==
    ASSUME IInv, NEW w \in Threads, pc[w] = "gate", NEW s \in Systems, NEW t \in Gated,
           running[w] = {Current(s)}, Current(s) \in completed, s \in Preds(t),
           UNCHANGED <<queueVars, runs, completed>>,
           pc'[w] # "gate", \A v \in Threads \ {w} : pc'[v] = pc[v]
    PROVE  /\ \A u \in Gated \ {t} : Counted(u)' = Counted(u)
           /\ ~Opened(t)
           /\ dependency_gate[t] = Cardinality(Counted(t))
           /\ Cardinality(Counted(t)') = dependency_gate[t] + 1
           /\ Opened(t)' <=> dependency_gate[t] + 1 = dependency_count[t]
           /\ \A v \in Threads : ~Pushing(v, t)
<1>1. UNCHANGED <<running, runs, completed>> BY DEF queueVars
<1>2. ASSUME NEW v \in Threads, v # w PROVE Current(s) \notin running[v]
  <2>1. (deque[w] \cup running[w] \cup tasks_done[w])
             \cap (deque[v] \cup running[v] \cup tasks_done[v]) = {}
    BY <1>2 DEF IInv, Conservation
  <2> QED BY <2>1
<1>3. ASSUME NEW p \in Systems, p # s
      PROVE  (\A v \in Threads : pc'[v] = "gate" => Current(p)' \notin running'[v])
             <=> (\A v \in Threads : pc[v] = "gate" => Current(p) \notin running[v])
  <2>1. Current(p)' = Current(p) /\ Current(p) \notin running[w] BY <1>1, <1>3 DEF Current
  <2> QED BY <1>1, <2>1
<1>4. \A v \in Threads : pc'[v] = "gate" => Current(s)' \notin running'[v]
  BY <1>1, <1>2 DEF Current
<1>5. \A u \in Gated \ {t} : Counted(u)' = Counted(u)
  <2> SUFFICES ASSUME NEW u \in Gated \ {t}, NEW p \in Preds(u) PROVE p \in Counted(u)' <=> p \in Counted(u)
    BY DEF Counted
  <2>1. p # s /\ p \in Systems
    <3>1. u \in Systems /\ t \in Systems BY BatchFacts
    <3>2. p \in Systems BY DEF Preds
    <3>3. dependents[p] = <<u>> /\ dependents[s] = <<t>> BY <3>1, <3>2, DependentsOne
    <3>4. <<u>> # <<t>> OBVIOUS
    <3> QED BY <3>2, <3>3, <3>4
  <2>2. Current(p)' = Current(p) BY <1>1 DEF Current
  <2> QED BY <1>1, <1>3, <2>1, <2>2 DEF Counted
<1>6. Counted(t)' = Counted(t) \cup {s} /\ s \notin Counted(t)
  <2>1. s \notin Counted(t) BY DEF Counted
  <2>2. s \in Counted(t)' BY <1>1, <1>4 DEF Counted, Current
  <2>3. \A p \in Preds(t) : p # s => (p \in Counted(t)' <=> p \in Counted(t))
    BY <1>1, <1>3 DEF Counted, Current, Preds
  <2>4. Counted(t) \subseteq Preds(t) /\ Counted(t)' \subseteq Preds(t) BY DEF Counted
  <2> QED BY <2>1, <2>2, <2>3, <2>4
<1>7. ~Opened(t) BY <1>6 DEF Opened
<1>8. dependency_gate[t] = Cardinality(Counted(t)) BY <1>7 DEF IInv, GateInv
<1>9. IsFiniteSet(Preds(t)) /\ dependency_count[t] = Cardinality(Preds(t)) BY GateCounts
<1>10. Counted(t) \subseteq Preds(t) /\ Counted(t)' \subseteq Preds(t) BY DEF Counted
<1>11. IsFiniteSet(Counted(t)) BY <1>9, <1>10, FS_Subset
<1>12. Cardinality(Counted(t)') = dependency_gate[t] + 1
  BY <1>6, <1>8, <1>11, FS_AddElement
<1>13. Opened(t)' <=> dependency_gate[t] + 1 = dependency_count[t]
  <2>1. Counted(t)' = Preds(t) <=> Cardinality(Counted(t)') = Cardinality(Preds(t))
    BY <1>9, <1>10, FS_Subset
  <2> QED BY <1>9, <1>12, <2>1 DEF Opened
<1>14. \A v \in Threads : ~Pushing(v, t) BY <1>7 DEF IInv, GateInv
<1> QED BY <1>5, <1>7, <1>8, <1>12, <1>13, <1>14

LEMMA GateStaysShutStep ==
    ASSUME IInv, TypeInv', NEW w \in Threads, GateStaysShut(w)
    PROVE  IInv'
<1>1. pc[w] = "gate" BY DEF GateStaysShut
<1>2. PICK s \in Systems, t \in Gated :
         /\ running[w] = {Current(s)} /\ Current(s) \in completed
         /\ s \in Preds(t) /\ dependents[s] = <<t>> /\ deps[w] = <<t>>
         /\ Head(deps[w]) = t /\ Tail(deps[w]) = <<>>
  BY <1>1, AtGate
<1>3. /\ dependency_gate[t] + 1 # dependency_count[t]
      /\ dependency_gate' = [dependency_gate EXCEPT ![t] = @ + 1]
      /\ CountAtNext(w, <<>>)
  BY <1>2 DEF GateStaysShut
<1>4. /\ pc \in [Threads -> WorkerPCs] /\ deps \in [Threads -> Seq(Systems)]
      /\ dependency_gate \in [Systems -> Nat]
  BY DEF IInv, TypeInv, TypeOK
<1>5. t \in Systems BY BatchFacts
<1>6. /\ pc'[w] = "returning"
      /\ \A v \in Threads \ {w} : pc'[v] = pc[v] /\ deps'[v] = deps[v]
      /\ dependency_gate'[t] = dependency_gate[t] + 1
      /\ \A u \in Systems \ {t} : dependency_gate'[u] = dependency_gate[u]
  BY <1>3, <1>4, <1>5 DEF CountAtNext
<1>7. UNCHANGED <<queueVars, tasks, main, dispatched, pushq, to_push, completed, runs, synced>>
  BY DEF GateStaysShut, sharedVars
<1>8. UNCHANGED <<injector, deque, running, tasks_done, settled>> BY <1>7 DEF queueVars
<1>9. /\ \A u \in Gated \ {t} : Counted(u)' = Counted(u)
      /\ Cardinality(Counted(t)') = dependency_gate[t] + 1
      /\ Opened(t)' <=> dependency_gate[t] + 1 = dependency_count[t]
      /\ ~Opened(t) /\ \A v \in Threads : ~Pushing(v, t)
  <2>1. pc'[w] # "gate" /\ \A v \in Threads \ {w} : pc'[v] = pc[v] BY <1>6
  <2>2. UNCHANGED <<queueVars, runs, completed>> BY <1>7
  <2> QED BY <1>1, <1>2, <2>1, <2>2, GateCounted
<1>10. WorkerInv'
  <2> SUFFICES ASSUME NEW v \in Threads
      PROVE  /\ pc'[v] \in {"system", "gate", "push", "returning"} =>
                   \E r \in Systems : running[v] = {Current(r)}
             /\ pc'[v] \notin {"system", "gate", "push", "returning", "dead"} => running[v] = {}
             /\ pc'[v] \in {"gate", "push"} =>
                   \E r, u \in Systems : running[v] = {Current(r)} /\ dependents[r] = <<u>> /\ deps'[v] = <<u>>
             /\ pc'[v] \in {"start", "drained", "ready", "wake", "park", "exited"} => tasks_done[v] = {}
    BY <1>7, <1>8 DEF WorkerInv, Current
  <2>1. CASE v = w BY <1>2, <1>6, <2>1
  <2>2. CASE v # w BY <1>6, <2>2 DEF IInv, WorkerInv
  <2> QED BY <2>1, <2>2
<1>11. CompletedInv'
  <2>1. \A v \in Threads : Finishing(v)' <=> Finishing(v) BY <1>1, <1>6 DEF Finishing
  <2> QED BY <1>7, <1>8, <2>1 DEF IInv, CompletedInv, Dispatched
<1>12. GateInv'
  <2>1. ~Opened(t)' BY <1>3, <1>9
  <2>2. \A v \in Threads : \A u \in Gated : Pushing(v, u)' <=> Pushing(v, u)
    BY <1>1, <1>6 DEF Pushing
  <2>3. \A u \in Gated \ {t} : Opened(u)' <=> Opened(u) BY <1>9 DEF Opened
  <2>4. \A r \in Systems : Released(r)' <=> Released(r) BY <1>7 DEF Released
  <2>5. Gated \subseteq Systems /\ \A u \in Gated : Batch(u) \subseteq Systems
    BY BatchFacts DEF Gated
  <2> SUFFICES ASSUME NEW u \in Gated
      PROVE  /\ ~Opened(u)' => /\ dependency_gate'[u] = Cardinality(Counted(u)')
                               /\ \A r \in Batch(u) : ~Released(r)'
             /\ \A v \in Threads : Pushing(v, u)' =>
                   /\ Opened(u)'
                   /\ dependency_gate'[u] = dependency_count[u]
                   /\ IsInjective(pushq[v])
                   /\ Range(pushq[v]) = {r \in Batch(u) : ~Released(r)'}
                   /\ \A x \in Threads : Pushing(x, u)' => x = v
             /\ Opened(u)' /\ (\A v \in Threads : ~Pushing(v, u)') =>
                   /\ dependency_gate'[u] = 0
                   /\ \A r \in Batch(u) : Released(r)'
    BY <1>7 DEF GateInv
  <2>6. CASE u = t
    <3>1. \A r \in Batch(t) : ~Released(r) BY <1>9 DEF IInv, GateInv
    <3> QED BY <1>6, <1>9, <2>1, <2>2, <2>4, <2>5, <2>6, <3>1
  <2>7. CASE u # t BY <1>6, <1>9, <2>2, <2>3, <2>4, <2>5, <2>7 DEF IInv, GateInv
  <2> QED BY <2>6, <2>7
<1>13. UngatedInv' BY <1>6 DEF IInv, UngatedInv
<1> QED BY <1>7, <1>10, <1>11, <1>12, <1>13, PlacesSame DEF IInv

LEMMA GateOpensStep ==
    ASSUME IInv, TypeInv', NEW w \in Threads, GateOpens(w)
    PROVE  IInv'
<1>1. pc[w] = "gate" /\ pc' = [pc EXCEPT ![w] = "push"] BY DEF GateOpens, Goto
<1>2. PICK s \in Systems, t \in Gated :
         /\ running[w] = {Current(s)} /\ Current(s) \in completed
         /\ s \in Preds(t) /\ dependents[s] = <<t>> /\ deps[w] = <<t>>
         /\ Head(deps[w]) = t /\ Tail(deps[w]) = <<>>
  BY <1>1, AtGate
<1>3. /\ dependency_gate[t] + 1 = dependency_count[t]
      /\ dependency_gate' = [dependency_gate EXCEPT ![t] = @ + 1]
      /\ pushq' = [pushq EXCEPT ![w] = DispatchOrder(t)]
  BY <1>2 DEF GateOpens
<1>4. /\ pc \in [Threads -> WorkerPCs] /\ pushq \in [Threads -> Seq(Systems)]
      /\ dependency_gate \in [Systems -> Nat]
  BY DEF IInv, TypeInv, TypeOK
<1>5. t \in Systems BY BatchFacts
<1>6. /\ pc'[w] = "push" /\ pushq'[w] = DispatchOrder(t)
      /\ \A v \in Threads \ {w} : pc'[v] = pc[v] /\ pushq'[v] = pushq[v]
      /\ dependency_gate'[t] = dependency_count[t]
      /\ \A u \in Systems \ {t} : dependency_gate'[u] = dependency_gate[u]
  BY <1>1, <1>3, <1>4, <1>5
<1>7. UNCHANGED <<queueVars, tasks, main, dispatched, deps, to_push, completed, runs, synced>>
  BY DEF GateOpens, sharedVars
<1>8. UNCHANGED <<injector, deque, running, tasks_done, settled>> BY <1>7 DEF queueVars
<1>9. /\ \A u \in Gated \ {t} : Counted(u)' = Counted(u)
      /\ Opened(t)' <=> dependency_gate[t] + 1 = dependency_count[t]
      /\ ~Opened(t) /\ \A v \in Threads : ~Pushing(v, t)
  <2>1. pc'[w] # "gate" /\ \A v \in Threads \ {w} : pc'[v] = pc[v] BY <1>6
  <2>2. UNCHANGED <<queueVars, runs, completed>> BY <1>7
  <2> QED BY <1>1, <1>2, <2>1, <2>2, GateCounted
<1>10. WorkerInv'
  <2> SUFFICES ASSUME NEW v \in Threads
      PROVE  /\ pc'[v] \in {"system", "gate", "push", "returning"} =>
                   \E r \in Systems : running[v] = {Current(r)}
             /\ pc'[v] \notin {"system", "gate", "push", "returning", "dead"} => running[v] = {}
             /\ pc'[v] \in {"gate", "push"} =>
                   \E r, u \in Systems : running[v] = {Current(r)} /\ dependents[r] = <<u>> /\ deps[v] = <<u>>
             /\ pc'[v] \in {"start", "drained", "ready", "wake", "park", "exited"} => tasks_done[v] = {}
    BY <1>7, <1>8 DEF WorkerInv, Current
  <2>1. CASE v = w BY <1>2, <1>5, <1>6, <2>1
  <2>2. CASE v # w BY <1>6, <2>2 DEF IInv, WorkerInv
  <2> QED BY <2>1, <2>2
<1>11. CompletedInv'
  <2>1. \A v \in Threads : Finishing(v)' <=> Finishing(v) BY <1>1, <1>6 DEF Finishing
  <2> QED BY <1>7, <1>8, <2>1 DEF IInv, CompletedInv, Dispatched
<1>12. GateInv'
  <2>1. Opened(t)' BY <1>3, <1>9
  <2>2. \A v \in Threads : \A u \in Gated : Pushing(v, u)' <=> (Pushing(v, u) \/ (v = w /\ u = t))
    <3>1. ASSUME NEW u \in Gated PROVE Pushing(w, u)' <=> u = t
      <4>1. Pushing(w, u)' <=> <<t>> = <<u>> BY <1>2, <1>6, <1>7 DEF Pushing
      <4>2. <<t>> = <<u>> <=> u = t OBVIOUS
      <4> QED BY <4>1, <4>2
    <3>2. \A u \in Gated : ~Pushing(w, u) BY <1>1 DEF Pushing
    <3>3. \A v \in Threads \ {w} : \A u \in Gated : Pushing(v, u)' <=> Pushing(v, u)
      BY <1>6, <1>7 DEF Pushing
    <3> QED BY <3>1, <3>2, <3>3
  <2>3. \A u \in Gated \ {t} : Opened(u)' <=> Opened(u) BY <1>9 DEF Opened
  <2>4. \A r \in Systems : Released(r)' <=> Released(r) BY <1>7 DEF Released
  <2>5. Gated \subseteq Systems /\ \A u \in Gated : Batch(u) \subseteq Systems
    BY BatchFacts DEF Gated
  <2> SUFFICES ASSUME NEW u \in Gated
      PROVE  /\ ~Opened(u)' => /\ dependency_gate'[u] = Cardinality(Counted(u)')
                               /\ \A r \in Batch(u) : ~Released(r)'
             /\ \A v \in Threads : Pushing(v, u)' =>
                   /\ Opened(u)'
                   /\ dependency_gate'[u] = dependency_count[u]
                   /\ IsInjective(pushq'[v])
                   /\ Range(pushq'[v]) = {r \in Batch(u) : ~Released(r)'}
                   /\ \A x \in Threads : Pushing(x, u)' => x = v
             /\ Opened(u)' /\ (\A v \in Threads : ~Pushing(v, u)') =>
                   /\ dependency_gate'[u] = 0
                   /\ \A r \in Batch(u) : Released(r)'
    BY <1>7 DEF GateInv
  <2>6. CASE u = t
    <3>1. \A r \in Batch(t) : ~Released(r) BY <1>9 DEF IInv, GateInv
    <3>2. \A v \in Threads : Pushing(v, t)' <=> v = w BY <1>9, <2>2
    <3>3. IsInjective(pushq'[w]) /\ Range(pushq'[w]) = Batch(t) BY <1>6, DispatchOrders
    <3>4. Range(pushq'[w]) = {r \in Batch(t) : ~Released(r)'} BY <2>4, <2>5, <3>1, <3>3
    <3> QED BY <1>6, <2>1, <2>6, <3>2, <3>3, <3>4
  <2>7. CASE u # t
    <3>1. \A v \in Threads : Pushing(v, u)' <=> Pushing(v, u) BY <2>2, <2>7
    <3>2. \A v \in Threads : Pushing(v, u) => v # w BY <1>1 DEF Pushing
    <3>3. dependency_gate'[u] = dependency_gate[u] /\ Counted(u)' = Counted(u)
      BY <1>6, <1>9, <2>5, <2>7
    <3>4. Opened(u)' <=> Opened(u) BY <2>3, <2>7
    <3>5. \A r \in Batch(u) : Released(r)' <=> Released(r) BY <2>4, <2>5
    <3>6. \A v \in Threads : Pushing(v, u) => pushq'[v] = pushq[v] BY <1>6, <3>2
    <3> QED BY <3>1, <3>3, <3>4, <3>5, <3>6 DEF IInv, GateInv
  <2> QED BY <2>6, <2>7
<1>13. UngatedInv' BY <1>6 DEF IInv, UngatedInv
<1> QED BY <1>7, <1>10, <1>11, <1>12, <1>13, PlacesSame DEF IInv

-----------------------------------------------------------------------------
(* Pushing a batch. *)

\* A system that has yet to be dispatched in this run has no task of this run
\* anywhere: pushing one loses and duplicates nothing.
LEMMA DispatchStep ==
    ASSUME IInv, NEW e \in Systems, ~Released(e), runs > 0, DispatchSystem(e),
           UNCHANGED <<deque, running, tasks_done, settled, completed, runs>>
    PROVE  /\ Conservation'
           /\ \A r \in Systems : Released(r)' <=> Released(r) \/ r = e
           /\ \A r \in Systems : dispatched'[r] <= runs /\ runs <= dispatched'[r] + 1
           /\ injector' \cap completed = {}
           /\ completed \subseteq Dispatched'
<1>1. /\ dispatched \in [Systems -> Nat] /\ runs \in Nat
      /\ \A r \in Systems : dispatched[r] <= runs /\ runs <= dispatched[r] + 1
  BY DEF IInv, TypeInv, TypeOK, RunsInv
<1>2. dispatched[e] + 1 = runs /\ Current(e) \notin Dispatched
  BY TaskFacts DEF IInv
<1>3. /\ injector' = injector \cup {Current(e)}
      /\ dispatched'[e] = runs
      /\ \A r \in Systems \ {e} : dispatched'[r] = dispatched[r]
  BY <1>1, <1>2 DEF DispatchSystem, Current
<1>4. \A r \in Systems : dispatched'[r] <= runs /\ runs <= dispatched'[r] + 1
  BY <1>1, <1>3
<1>5. \A r \in Systems : Released(r)' <=> Released(r) \/ r = e
  BY <1>1, <1>3 DEF Released
<1>6. Dispatched' = Dispatched \cup {Current(e)}
  <2>1. \A r \in Systems : \A k : <<r, k>> \in Dispatched <=> k \in 1..dispatched[r]
    BY DEF Dispatched
  <2>2. \A r \in Systems : \A k : <<r, k>> \in Dispatched' <=> k \in 1..dispatched'[r]
    BY DEF Dispatched
  <2>3. /\ \A t \in Dispatched : \E r \in Systems : \E k : t = <<r, k>>
        /\ \A t \in Dispatched' : \E r \in Systems : \E k : t = <<r, k>>
    BY DEF Dispatched
  <2>4. \A k : k \in 1..dispatched'[e] <=> k \in 1..dispatched[e] \/ k = runs
    <3>1. dispatched[e] \in Nat /\ dispatched'[e] = dispatched[e] + 1 /\ runs = dispatched[e] + 1
      BY <1>1, <1>2, <1>3
    <3> QED BY <3>1
  <2>5. \A r \in Systems : \A k : <<r, k>> \in Dispatched' <=> <<r, k>> \in Dispatched \cup {Current(e)}
    <3> TAKE r \in Systems
    <3> TAKE k
    <3>1. CASE r = e BY <2>1, <2>2, <2>4, <3>1 DEF Current
    <3>2. CASE r # e BY <1>3, <2>1, <2>2, <3>2 DEF Current
    <3> QED BY <3>1, <3>2
  <2>6. Current(e) \in Dispatched' BY <2>5 DEF Current
  <2> QED BY <2>3, <2>5, <2>6
<1>7. /\ settled \subseteq Dispatched
      /\ \A v \in Threads : /\ deque[v] \subseteq Dispatched /\ running[v] \subseteq Dispatched
                            /\ tasks_done[v] \subseteq Dispatched
  BY PlaceFacts DEF IInv
<1>8. Conservation'
  <2>1. Dispatched' = injector' \cup settled
                         \cup UNION {deque[v] \cup running[v] \cup tasks_done[v] : v \in Threads}
    BY <1>3, <1>6 DEF IInv, Conservation
  <2>2. injector' \cap settled = {} BY <1>2, <1>3, <1>7 DEF IInv, Conservation
  <2>3. \A v \in Threads : injector' \cap deque[v] = {} /\ injector' \cap running[v] = {}
                           /\ injector' \cap tasks_done[v] = {}
    BY <1>2, <1>3, <1>7 DEF IInv, Conservation
  <2> QED BY <2>1, <2>2, <2>3 DEF IInv, Conservation
<1>9. completed \subseteq Dispatched /\ injector \cap completed = {} BY DEF IInv, CompletedInv
<1>10. injector' \cap completed = {} /\ completed \subseteq Dispatched'
  BY <1>2, <1>3, <1>6, <1>9
<1> QED BY <1>4, <1>5, <1>8, <1>10

LEMMA PushDependentStep ==
    ASSUME IInv, TypeInv', NEW w \in Threads, PushDependent(w)
    PROVE  IInv'
<1>1. pc[w] = "push" /\ pushq[w] # <<>> BY DEF PushDependent
<1>2. PICK s \in Systems, t \in Gated :
         /\ running[w] = {Current(s)} /\ Current(s) \in completed
         /\ s \in Preds(t) /\ dependents[s] = <<t>> /\ deps[w] = <<t>>
         /\ Head(deps[w]) = t /\ Tail(deps[w]) = <<>>
  BY <1>1, AtGate
<1>3. Pushing(w, t) BY <1>1, <1>2 DEF Pushing
<1>4. /\ Opened(t)
      /\ dependency_gate[t] = dependency_count[t]
      /\ IsInjective(pushq[w])
      /\ Range(pushq[w]) = {r \in Batch(t) : ~Released(r)}
      /\ \A v \in Threads : Pushing(v, t) => v = w
  BY <1>3 DEF IInv, GateInv
<1> DEFINE e == Head(pushq[w])
<1>5. pushq \in [Threads -> Seq(Systems)] BY DEF IInv, TypeInv, TypeOK
<1>6. /\ e \in Range(pushq[w])
      /\ IsInjective(Tail(pushq[w]))
      /\ Range(Tail(pushq[w])) = Range(pushq[w]) \ {e}
  <2>1. pushq[w] \in Seq(Systems) BY <1>5
  <2> QED BY <1>1, <1>4, <2>1, TailRange
<1>7. e \in Batch(t) /\ ~Released(e) BY <1>4, <1>6
<1>8. e \in Systems BY <1>7, BatchFacts DEF Gated
<1>9. runs > 0 BY <1>1, InSystem DEF InTask
<1>10. /\ pushq'[w] = Tail(pushq[w])
       /\ \A v \in Threads \ {w} : pushq'[v] = pushq[v]
  BY <1>5 DEF PushDependent
<1>11. /\ DispatchSystem(e)
       /\ UNCHANGED <<deque, running, tasks_done, settled, tasks, pc, main, dependency_gate, deps,
                      to_push, completed, runs, synced>>
  BY DEF PushDependent, sharedVars
<1> HIDE DEF e
<1>12. /\ Conservation'
       /\ \A r \in Systems : Released(r)' <=> Released(r) \/ r = e
       /\ \A r \in Systems : dispatched'[r] <= runs /\ runs <= dispatched'[r] + 1
       /\ injector' \cap completed = {}
       /\ completed \subseteq Dispatched'
  BY <1>7, <1>8, <1>9, <1>11, DispatchStep
<1>13. RunsInv' BY <1>11, <1>12 DEF IInv, RunsInv, RunTasks
<1>14. RootInv'
  <2>1. Batch(root) \subseteq Systems BY BatchFacts DEF Triggers
  <2>2. e \notin Batch(root) BY <1>7, BatchFacts
  <2>3. \A r \in Batch(root) : Released(r)' <=> Released(r) BY <1>12, <2>1, <2>2
  <2> QED BY <1>11, <2>3 DEF IInv, RootInv
<1>15. WorkerInv' BY <1>11 DEF IInv, WorkerInv, Current
<1>16. CompletedInv' BY <1>11, <1>12 DEF IInv, CompletedInv, Finishing
<1>17. GateInv'
  <2>1. \A u \in Gated : Counted(u)' = Counted(u) BY <1>11 DEF Counted, Current
  <2>2. \A u \in Gated : Opened(u)' <=> Opened(u) BY <2>1 DEF Opened
  <2>3. \A v \in Threads : \A u \in Gated : Pushing(v, u)' <=> Pushing(v, u)
    BY <1>11 DEF Pushing
  <2>4. \A u \in Gated : Batch(u) \subseteq Systems BY BatchFacts DEF Gated
  <2> SUFFICES ASSUME NEW u \in Gated
      PROVE  /\ ~Opened(u)' => /\ dependency_gate[u] = Cardinality(Counted(u)')
                               /\ \A r \in Batch(u) : ~Released(r)'
             /\ \A v \in Threads : Pushing(v, u)' =>
                   /\ Opened(u)'
                   /\ dependency_gate[u] = dependency_count[u]
                   /\ IsInjective(pushq'[v])
                   /\ Range(pushq'[v]) = {r \in Batch(u) : ~Released(r)'}
                   /\ \A x \in Threads : Pushing(x, u)' => x = v
             /\ Opened(u)' /\ (\A v \in Threads : ~Pushing(v, u)') =>
                   /\ dependency_gate[u] = 0
                   /\ \A r \in Batch(u) : Released(r)'
    BY <1>11 DEF GateInv
  <2>5. CASE u = t
    <3>1. Range(pushq'[w]) = {r \in Batch(t) : ~Released(r)'}
      BY <1>4, <1>6, <1>10, <1>12, <2>4
    <3> QED BY <1>3, <1>4, <1>6, <1>10, <2>2, <2>3, <2>5, <3>1
  <2>6. CASE u # t
    <3>1. e \notin Batch(u) BY <1>7, <2>6, BatchFacts
    <3>2. \A r \in Batch(u) : Released(r)' <=> Released(r) BY <1>12, <2>4, <3>1
    <3>3. ~Pushing(w, u)
      <4>1. <<t>> # <<u>> BY <2>6
      <4> QED BY <1>2, <4>1 DEF Pushing
    <3>4. \A v \in Threads : Pushing(v, u) => pushq'[v] = pushq[v] BY <1>10, <3>3
    <3> QED BY <2>1, <2>2, <2>3, <3>2, <3>4 DEF IInv, GateInv
  <2> QED BY <2>5, <2>6
<1>18. UngatedInv' BY <1>11 DEF IInv, UngatedInv
<1>19. CounterOK' BY <1>11 DEF IInv, CounterOK, CountedIn, CountedOut
<1> QED BY <1>12, <1>13, <1>14, <1>15, <1>16, <1>17, <1>18, <1>19 DEF IInv

LEMMA ResetGateStep ==
    ASSUME IInv, TypeInv', NEW w \in Threads, ResetGate(w)
    PROVE  IInv'
<1>1. pc[w] = "push" /\ pushq[w] = <<>> BY DEF ResetGate
<1>2. PICK s \in Systems, t \in Gated :
         /\ running[w] = {Current(s)} /\ Current(s) \in completed
         /\ s \in Preds(t) /\ dependents[s] = <<t>> /\ deps[w] = <<t>>
         /\ Head(deps[w]) = t /\ Tail(deps[w]) = <<>>
  BY <1>1, AtGate
<1>3. Pushing(w, t) BY <1>1, <1>2 DEF Pushing
<1>4. /\ Opened(t)
      /\ Range(pushq[w]) = {r \in Batch(t) : ~Released(r)}
      /\ \A v \in Threads : Pushing(v, t) => v = w
  BY <1>3 DEF IInv, GateInv
<1>5. \A r \in Batch(t) : Released(r) BY <1>1, <1>4, EmptyRange
<1>6. /\ dependency_gate' = [dependency_gate EXCEPT ![t] = 0]
      /\ CountAtNext(w, <<>>)
  BY <1>2 DEF ResetGate
<1>7. /\ pc \in [Threads -> WorkerPCs] /\ deps \in [Threads -> Seq(Systems)]
      /\ dependency_gate \in [Systems -> Nat]
  BY DEF IInv, TypeInv, TypeOK
<1>8. t \in Systems BY BatchFacts
<1>9. /\ pc'[w] = "returning"
      /\ \A v \in Threads \ {w} : pc'[v] = pc[v] /\ deps'[v] = deps[v]
      /\ dependency_gate'[t] = 0
      /\ \A u \in Systems \ {t} : dependency_gate'[u] = dependency_gate[u]
  BY <1>6, <1>7, <1>8 DEF CountAtNext
<1>10. UNCHANGED <<queueVars, tasks, main, dispatched, pushq, to_push, completed, runs, synced>>
  BY DEF ResetGate, sharedVars
<1>11. UNCHANGED <<injector, deque, running, tasks_done, settled>> BY <1>10 DEF queueVars
<1>12. WorkerInv'
  <2> SUFFICES ASSUME NEW v \in Threads
      PROVE  /\ pc'[v] \in {"system", "gate", "push", "returning"} =>
                   \E r \in Systems : running[v] = {Current(r)}
             /\ pc'[v] \notin {"system", "gate", "push", "returning", "dead"} => running[v] = {}
             /\ pc'[v] \in {"gate", "push"} =>
                   \E r, u \in Systems : running[v] = {Current(r)} /\ dependents[r] = <<u>> /\ deps'[v] = <<u>>
             /\ pc'[v] \in {"start", "drained", "ready", "wake", "park", "exited"} => tasks_done[v] = {}
    BY <1>10, <1>11 DEF WorkerInv, Current
  <2>1. CASE v = w BY <1>2, <1>9, <2>1
  <2>2. CASE v # w BY <1>9, <2>2 DEF IInv, WorkerInv
  <2> QED BY <2>1, <2>2
<1>13. CompletedInv'
  <2>1. \A v \in Threads : Finishing(v)' <=> Finishing(v) BY <1>1, <1>9 DEF Finishing
  <2> QED BY <1>10, <1>11, <2>1 DEF IInv, CompletedInv, Dispatched
<1>14. GateInv'
  <2>1. \A u \in Gated : Counted(u)' = Counted(u)
    <3>1. \A v \in Threads : pc'[v] = "gate" <=> pc[v] = "gate" BY <1>1, <1>9
    <3> QED BY <1>10, <1>11, <3>1 DEF Counted, Current
  <2>2. \A u \in Gated : Opened(u)' <=> Opened(u) BY <2>1 DEF Opened
  <2>3. \A r \in Systems : Released(r)' <=> Released(r) BY <1>10 DEF Released
  <2>4. \A u \in Gated : Batch(u) \subseteq Systems /\ u \in Systems BY BatchFacts DEF Gated
  <2>5. \A v \in Threads : \A u \in Gated : Pushing(v, u)' <=> Pushing(v, u) /\ u # t
    <3>1. \A u \in Gated : ~Pushing(w, u)' BY <1>9 DEF Pushing
    <3>2. \A u \in Gated : Pushing(w, u) => u = t
      <4>1. \A u \in Gated : <<t>> = <<u>> => u = t OBVIOUS
      <4> QED BY <1>2, <4>1 DEF Pushing
    <3>3. \A v \in Threads \ {w} : \A u \in Gated : Pushing(v, u)' <=> Pushing(v, u)
      BY <1>9 DEF Pushing
    <3> QED BY <1>4, <3>1, <3>2, <3>3
  <2> SUFFICES ASSUME NEW u \in Gated
      PROVE  /\ ~Opened(u)' => /\ dependency_gate'[u] = Cardinality(Counted(u)')
                               /\ \A r \in Batch(u) : ~Released(r)'
             /\ \A v \in Threads : Pushing(v, u)' =>
                   /\ Opened(u)'
                   /\ dependency_gate'[u] = dependency_count[u]
                   /\ IsInjective(pushq[v])
                   /\ Range(pushq[v]) = {r \in Batch(u) : ~Released(r)'}
                   /\ \A x \in Threads : Pushing(x, u)' => x = v
             /\ Opened(u)' /\ (\A v \in Threads : ~Pushing(v, u)') =>
                   /\ dependency_gate'[u] = 0
                   /\ \A r \in Batch(u) : Released(r)'
    BY <1>10 DEF GateInv
  <2>6. CASE u = t BY <1>4, <1>5, <1>9, <2>2, <2>3, <2>4, <2>5, <2>6
  <2>7. CASE u # t
    <3>1. \A r \in Batch(u) : Released(r)' <=> Released(r) BY <2>3, <2>4
    <3>2. \A v \in Threads : Pushing(v, u)' <=> Pushing(v, u) BY <2>5, <2>7
    <3>3. dependency_gate'[u] = dependency_gate[u] BY <1>9, <2>4, <2>7
    <3> QED BY <2>1, <2>2, <3>1, <3>2, <3>3 DEF IInv, GateInv
  <2> QED BY <2>6, <2>7
<1>15. UngatedInv' BY <1>9 DEF IInv, UngatedInv
<1> QED BY <1>10, <1>12, <1>13, <1>14, <1>15, PlacesSame DEF IInv
===============================================================================
