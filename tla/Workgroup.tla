------------------------------- MODULE Workgroup -------------------------------
(***************************************************************************)
(* A work-stealing workgroup (workgroups.rs): its worker threads, the      *)
(* injector and local deques they take tasks from, the counter of          *)
(* unfinished tasks, the park / unpark protocol between the workers and    *)
(* the main thread, full_sync and full_shutdown.                           *)
(*                                                                         *)
(* Tasks are opaque here; what a task does while it runs (pc = "system"    *)
(* until the worker is "returning") belongs to the module that pushes      *)
(* tasks, MultiExecutor.  The queues are crossbeam's: they are sets,       *)
(* because no property depends on their order, and tasks have an identity, *)
(* so a set loses none.  Values are sequentially consistent; what a thread *)
(* sees of the others' writes is in MultiExecutorMemory.                   *)
(***************************************************************************)
EXTENDS Integers, FiniteSets

CONSTANTS
    NumThreads,      \* the threads argument of add_workgroup
    Usize,           \* how many values the tasks counter has
    OverflowChecks   \* whether `-` panics on overflow (a debug build)

ASSUME NumThreadsAssumption == NumThreads \in Nat
ASSUME UsizeAssumption == Usize \in Nat \ {0}
ASSUME OverflowChecksAssumption == OverflowChecks \in BOOLEAN

Threads == 1..NumThreads

\* WorkerStatus
Ready == 0
Working == 1
Shutdown == 2

VARIABLES
    injector,     \* Workgroup.injector: the shared queue
    deque,        \* deque[w]: the local queue of worker w, open to stealers
    running,      \* running[w]: the task worker w is in, {} if none
    tasks_done,   \* tasks_done[w]: the tasks its local counter has counted
    settled,      \* history: the tasks subtracted from the counter
    tasks,        \* Workgroup.tasks, the counter of unfinished tasks
    shutdown,     \* Workgroup.shutdown
    statuses,     \* Workgroup.statuses
    token,        \* token[w]: an unpark the worker has not consumed
    main_token,   \* the same for the main thread
    pc,           \* pc[w]: where worker_logic is
    main,         \* where the main thread is
    next          \* the worker its loop over thread_pool has come to

queueVars  == <<injector, deque, running, tasks_done, settled>>
sharedVars == <<tasks, shutdown, statuses, token, main_token>>
workgroupVars == <<queueVars, sharedVars, pc, main, next>>

WorkerPCs == {"start", "pop", "inject", "load", "steal", "system", "gate", "push",
              "returning", "settle", "drained", "ready", "wake", "park", "exited", "dead"}
MainPCs == {"idle", "push", "ready", "sync", "parked", "unpark", "join", "panicked"}

\* Mutant of WrappingSub: a counter that goes below zero.
PlainSub(a, b) == a - b

\* AtomicUsize::fetch_add and fetch_sub wrap around.
WrappingAdd(a, b) == (a + b) % Usize
WrappingSub(a, b) == (a - b) % Usize

-----------------------------------------------------------------------------
\* add_workgroup: threads are spawned, none has run yet.
WorkgroupInit ==
    /\ injector = {} /\ settled = {}
    /\ deque      = [w \in Threads |-> {}]
    /\ running    = [w \in Threads |-> {}]
    /\ tasks_done = [w \in Threads |-> {}]
    /\ tasks = 0
    /\ shutdown = FALSE
    /\ statuses = [w \in Threads |-> Ready]
    /\ token = [w \in Threads |-> FALSE]
    /\ main_token = FALSE
    /\ pc = [w \in Threads |-> "start"]
    /\ main = "idle"
    /\ next = 1

-----------------------------------------------------------------------------
(* worker_logic *)

Goto(w, from, to) == pc[w] = from /\ pc' = [pc EXCEPT ![w] = to]

\* The head of the outer loop: status Working, tasks_done = 0.
WorkerStarts(w) ==
    /\ Goto(w, "start", "pop")
    /\ statuses' = [statuses EXCEPT ![w] = Working]
    /\ tasks_done' = [tasks_done EXCEPT ![w] = {}]
    /\ UNCHANGED <<injector, deque, running, settled, tasks, shutdown,
                   token, main_token, main, next>>

\* worker.pop() finds a task ...
PopLocal(w) ==
    /\ Goto(w, "pop", "system")
    /\ \E t \in deque[w] :
          /\ running' = [running EXCEPT ![w] = {t}]
          /\ deque' = [deque EXCEPT ![w] = @ \ {t}]
    /\ UNCHANGED <<injector, tasks_done, settled, sharedVars, main, next>>

\* ... or the local queue is empty.
PopNothing(w) ==
    /\ Goto(w, "pop", "inject")
    /\ deque[w] = {}
    /\ UNCHANGED <<queueVars, sharedVars, main, next>>

\* The batches steal_batch_with_limit_and_pop can take from a queue: at least
\* one task and at most half of them, rounded up.  (The limit in the code is
\* computed from a length read earlier, so it may be anything; Retry repeats
\* the loop and changes nothing.)
BatchesOf(queue) == {B \in SUBSET queue : B # {} /\ 2 * Cardinality(B) <= Cardinality(queue) + 1}

\* A batch from the injector: one task runs, the rest go to the local queue.
StealFromInjector(w) ==
    /\ Goto(w, "inject", "system")
    /\ \E B \in BatchesOf(injector) : \E t \in B :
          /\ running' = [running EXCEPT ![w] = {t}]
          /\ deque' = [deque EXCEPT ![w] = @ \cup (B \ {t})]
          /\ injector' = injector \ B
    /\ UNCHANGED <<tasks_done, settled, sharedVars, main, next>>

InjectorEmpty(w) ==
    /\ Goto(w, "inject", "load")
    /\ injector = {}
    /\ UNCHANGED <<queueVars, sharedVars, main, next>>

\* tasks.load(): leave the inner loop when nothing is unfinished.
LoadTasks(w) ==
    /\ pc[w] = "load"
    /\ pc' = [pc EXCEPT ![w] = IF tasks = 0 THEN "settle" ELSE "steal"]
    /\ UNCHANGED <<queueVars, sharedVars, main, next>>

\* Mutant of the operator below: the victim keeps what it did not run.
StealFromVictim_Copy(w) ==
    /\ Goto(w, "steal", "system")
    /\ \E v \in Threads \ {w} : \E B \in BatchesOf(deque[v]) : \E t \in B :
          /\ running' = [running EXCEPT ![w] = {t}]
          /\ deque' = [deque EXCEPT ![w] = @ \cup (B \ {t})]
    /\ UNCHANGED <<injector, tasks_done, settled, sharedVars, main, next>>

\* A batch from a victim.  The scan for one starts anywhere and tests the
\* queues at different moments, so any worker can come out of it.
StealFromVictim(w) ==
    /\ Goto(w, "steal", "system")
    /\ \E v \in Threads \ {w} : \E B \in BatchesOf(deque[v]) : \E t \in B :
          /\ running' = [running EXCEPT ![w] = {t}]
          /\ deque' = [deque EXCEPT ![v] = @ \ B, ![w] = @ \cup (B \ {t})]
    /\ UNCHANGED <<injector, tasks_done, settled, sharedVars, main, next>>

\* The victim's queue (w's own, or one emptied since) is empty: break.
VictimEmpty(w) ==
    /\ Goto(w, "steal", "settle")
    /\ \E v \in Threads : deque[v] = {}
    /\ UNCHANGED <<queueVars, sharedVars, main, next>>

\* task.0() has returned: tasks_done += 1.
TaskReturns(w) ==
    /\ Goto(w, "returning", "pop")
    /\ tasks_done' = [tasks_done EXCEPT ![w] = @ \cup running[w]]
    /\ running' = [running EXCEPT ![w] = {}]
    /\ UNCHANGED <<injector, deque, settled, sharedVars, main, next>>

\* Mutant of the operator below: the shutdown flag is heeded before the
\* counter is zero.
Settle_ShutdownFirst(w) ==
    LET n == Cardinality(tasks_done[w])
        left == WrappingSub(tasks, n)
    IN  /\ pc[w] = "settle"
        /\ tasks' = left
        /\ settled' = settled \cup tasks_done[w]
        /\ tasks_done' = [tasks_done EXCEPT ![w] = {}]
        /\ pc' = [pc EXCEPT ![w] = IF left = 0 \/ shutdown THEN "drained" ELSE "start"]
        /\ UNCHANGED <<injector, deque, running, shutdown, statuses, token, main_token,
                       main, next>>

\* fetch_sub(tasks_done), then `prev - tasks_done == 0`.  With overflow checks
\* that subtraction panics when prev < tasks_done, and the thread is gone.  The
\* local counter is spent: it is not read again before the head of the loop.
Settle(w) ==
    LET n == Cardinality(tasks_done[w])
        left == WrappingSub(tasks, n)
    IN  /\ pc[w] = "settle"
        /\ tasks' = left
        /\ settled' = settled \cup tasks_done[w]
        /\ tasks_done' = [tasks_done EXCEPT ![w] = {}]
        /\ pc' = [pc EXCEPT ![w] = IF OverflowChecks /\ tasks < n THEN "dead"
                                   ELSE IF left = 0 THEN "drained" ELSE "start"]
        /\ UNCHANGED <<injector, deque, running, shutdown, statuses,
                       token, main_token, main, next>>

\* The shutdown flag is set: status Shutdown, the thread returns.
WorkerExits(w) ==
    /\ Goto(w, "drained", "exited")
    /\ shutdown
    /\ statuses' = [statuses EXCEPT ![w] = Shutdown]
    /\ UNCHANGED <<queueVars, tasks, shutdown, token, main_token, main, next>>

\* Not shut down: on to the status store ...
WorkerStays(w) ==
    /\ Goto(w, "drained", "ready")
    /\ ~shutdown
    /\ UNCHANGED <<queueVars, sharedVars, main, next>>

\* ... status Ready ...
WorkerReady(w) ==
    /\ Goto(w, "ready", "wake")
    /\ statuses' = [statuses EXCEPT ![w] = Ready]
    /\ UNCHANGED <<queueVars, tasks, shutdown, token, main_token, main, next>>

\* Mutant of the operator below: main_thread.unpark() is forgotten.
WorkerWakesMain_Skip(w) ==
    /\ Goto(w, "wake", "park")
    /\ UNCHANGED <<queueVars, sharedVars, main, next>>

\* ... main_thread.unpark() ...
WorkerWakesMain(w) ==
    /\ Goto(w, "wake", "park")
    /\ main_token' = TRUE
    /\ UNCHANGED <<queueVars, tasks, shutdown, statuses, token, main, next>>

\* ... and park(), which returns once there is a token and takes it,
WorkerUnparked(w) ==
    /\ Goto(w, "park", "start")
    /\ token[w]
    /\ token' = [token EXCEPT ![w] = FALSE]
    /\ UNCHANGED <<queueVars, tasks, shutdown, statuses, main_token, main, next>>

\* or for no reason at all, as park() is allowed to.
WorkerWakesSpuriously(w) ==
    /\ Goto(w, "park", "start")
    /\ UNCHANGED <<queueVars, sharedVars, main, next>>

\* A thread that unwinds out of the task it was running.
WorkerDies(w) ==
    /\ Goto(w, "system", "dead")
    /\ UNCHANGED <<queueVars, sharedVars, main, next>>

\* Every step of a worker outside the task it runs, except spurious wakeups.
WorkerStep(w) ==
    \/ WorkerStarts(w) \/ PopLocal(w) \/ PopNothing(w)
    \/ StealFromInjector(w) \/ InjectorEmpty(w) \/ LoadTasks(w)
    \/ StealFromVictim(w) \/ VictimEmpty(w)
    \/ TaskReturns(w) \/ Settle(w)
    \/ WorkerExits(w) \/ WorkerStays(w) \/ WorkerReady(w)
    \/ WorkerWakesMain(w) \/ WorkerUnparked(w)

-----------------------------------------------------------------------------
(* The main thread: full_sync and full_shutdown. *)

FullSync ==
    /\ main = "idle" /\ ~shutdown
    /\ main' = "sync"
    /\ UNCHANGED <<queueVars, sharedVars, pc, next>>

\* while tasks.load() != 0: done ...
SyncReturns ==
    /\ main = "sync" /\ tasks = 0
    /\ main' = "idle"
    /\ UNCHANGED <<queueVars, sharedVars, pc, next>>

\* ... or not: park ...
SyncParks ==
    /\ main = "sync" /\ tasks # 0
    /\ main' = "parked"
    /\ UNCHANGED <<queueVars, sharedVars, pc, next>>

\* ... and load again when unparked,
MainUnparked ==
    /\ main = "parked" /\ main_token
    /\ main' = "sync"
    /\ main_token' = FALSE
    /\ UNCHANGED <<queueVars, tasks, shutdown, statuses, token, pc, next>>

\* or spuriously.
MainWakesSpuriously ==
    /\ main = "parked"
    /\ main' = "sync"
    /\ UNCHANGED <<queueVars, sharedVars, pc, next>>

\* Shutting down is the last call the tests and the benchmark make, so the
\* JoinHandles it takes are all there, and no call follows it.
FullShutdown ==
    /\ main = "idle" /\ ~shutdown
    /\ main' = "unpark"
    /\ shutdown' = TRUE
    /\ next' = 1
    /\ UNCHANGED <<queueVars, tasks, statuses, token, main_token, pc>>

\* Mutant of the operator below: the worker is joined while it is parked.
ShutdownUnparks_Skip ==
    /\ main = "unpark" /\ next \in Threads
    /\ main' = "join"
    /\ UNCHANGED <<queueVars, sharedVars, pc, next>>

\* The next worker: take() its handle and unpark() it ...
ShutdownUnparks ==
    /\ main = "unpark" /\ next \in Threads
    /\ main' = "join"
    /\ token' = [token EXCEPT ![next] = TRUE]
    /\ UNCHANGED <<queueVars, tasks, shutdown, statuses, main_token, pc, next>>

\* ... then join(), which waits for the thread to return ...
ShutdownJoins ==
    /\ main = "join" /\ pc[next] = "exited"
    /\ main' = "unpark"
    /\ next' = next + 1
    /\ UNCHANGED <<queueVars, sharedVars, pc>>

\* ... and whose expect() panics if it panicked.
ShutdownPanics ==
    /\ main = "join" /\ pc[next] = "dead"
    /\ main' = "panicked"
    /\ UNCHANGED <<queueVars, sharedVars, pc, next>>

ShutdownReturns ==
    /\ main = "unpark" /\ next > NumThreads
    /\ main' = "idle"
    /\ UNCHANGED <<queueVars, sharedVars, pc, next>>
=============================================================================
