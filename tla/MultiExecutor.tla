----------------------------- MODULE MultiExecutor -----------------------------
(***************************************************************************)
(* The multithreaded executor (schedule/executors/multi.rs) on one         *)
(* workgroup: the main thread pushes the root batch, counts the systems of *)
(* the schedule into the workgroup's counter and unparks ready workers;    *)
(* each task runs its system, counts at the gate of its dependent and, if  *)
(* it is the last to, pushes the dependent's batch.                        *)
(*                                                                         *)
(* The task of a dispatch is <<s, k>>: system s, dispatched for the k-th   *)
(* time.                                                                   *)
(***************************************************************************)
EXTENDS Workgroup, DepGraph

CONSTANTS
    MaxRuns,  \* bound on the number of runs
    Panics    \* the systems that may panic

ASSUME GraphAssumption == GraphOK
ASSUME WidthAssumption == Cardinality(Systems) < Usize
ASSUME MaxRunsAssumption == MaxRuns \in Nat
ASSUME PanicsAssumption == Panics \subseteq Systems

VARIABLES
    dispatched,       \* dispatched[s]: how often s has been pushed
    dependency_gate,  \* SystemEntry.dependency_gate
    deps,             \* deps[w]: the dependents the task in w has yet to count at
    pushq,            \* pushq[w]: the rest of the batch it is pushing
    to_push,          \* the rest of the root batch execute() is pushing
    woken,            \* the local `threads` of execute()
    completed,        \* history: the tasks whose system has returned
    runs,             \* history: how many runs have begun
    synced            \* history: no run since the last full_sync returned

multiVars == <<dispatched, dependency_gate, deps, pushq, to_push, woken, completed, runs, synced>>
vars == <<workgroupVars, multiVars>>

Tasks == Systems \X Nat

\* The tasks pushed so far.
Dispatched == UNION {{s} \X (1..dispatched[s]) : s \in Systems}

\* All tasks of the first n runs.
RunTasks(n) == Systems \X (1..n)

-----------------------------------------------------------------------------
Init ==
    /\ WorkgroupInit
    /\ dispatched = [s \in Systems |-> 0]
    /\ dependency_gate = [s \in Systems |-> 0]
    /\ deps  = [w \in Threads |-> <<>>]
    /\ pushq = [w \in Threads |-> <<>>]
    /\ to_push = <<>>
    /\ woken = 0
    /\ completed = {}
    /\ runs = 0
    /\ synced = TRUE

\* dispatch_system: one more task of s in the injector.
DispatchSystem(s) ==
    /\ injector' = injector \cup {<<s, dispatched[s] + 1>>}
    /\ dispatched' = [dispatched EXCEPT ![s] = @ + 1]

-----------------------------------------------------------------------------
(* execute(), on the main thread *)

ExecuteBegins ==
    /\ main = "idle" /\ ~shutdown
    /\ runs < MaxRuns
    /\ main' = "push"
    /\ runs' = runs + 1
    /\ synced' = FALSE
    /\ to_push' = RootOrder
    /\ UNCHANGED <<queueVars, sharedVars, pc, next, dispatched, dependency_gate,
                   deps, pushq, woken, completed>>

\* app.run() once the run before has been synced, as the tests do in a loop.
Run == synced /\ ExecuteBegins

\* app.run() with the run before still under way, which nothing prevents.
RunUnsynced == ~synced /\ ExecuteBegins

PushRoot ==
    /\ main = "push" /\ to_push # <<>>
    /\ DispatchSystem(Head(to_push))
    /\ to_push' = Tail(to_push)
    /\ UNCHANGED <<deque, running, tasks_done, settled, sharedVars, pc, main, next,
                   dependency_gate, deps, pushq, woken, completed, runs, synced>>

\* Mutant of the operator below: only the root batch is counted in.
AddTasks_RootBatch ==
    /\ main = "push" /\ to_push = <<>>
    /\ tasks' = WrappingAdd(tasks, Len(RootOrder))
    /\ main' = "ready"
    /\ next' = 1
    /\ woken' = 0
    /\ UNCHANGED <<queueVars, shutdown, statuses, token, main_token, pc, dispatched,
                   dependency_gate, deps, pushq, to_push, completed, runs, synced>>

\* tasks.fetch_add(systems.len())
AddTasks ==
    /\ main = "push" /\ to_push = <<>>
    /\ tasks' = WrappingAdd(tasks, Cardinality(Systems))
    /\ main' = "ready"
    /\ next' = 1
    /\ woken' = 0
    /\ UNCHANGED <<queueVars, shutdown, statuses, token, main_token, pc, dispatched,
                   dependency_gate, deps, pushq, to_push, completed, runs, synced>>

MoreToReady == next \in Threads /\ woken < Cardinality(Systems)

\* One turn of the loop over thread_pool: unpark the worker if it is Ready.
\* (The load and the unpark are one step: a worker that does something between
\* them does no more than one that wakes spuriously.)
ReadyThread ==
    /\ main = "ready" /\ MoreToReady
    /\ next' = next + 1
    /\ IF statuses[next] = Ready
       THEN /\ token' = [token EXCEPT ![next] = TRUE]
            /\ woken' = woken + 1
       ELSE UNCHANGED <<token, woken>>
    /\ UNCHANGED <<queueVars, tasks, shutdown, statuses, main_token, pc, main, dispatched,
                   dependency_gate, deps, pushq, to_push, completed, runs, synced>>

ExecuteReturns ==
    /\ main = "ready" /\ ~MoreToReady
    /\ main' = "idle"
    /\ UNCHANGED <<queueVars, sharedVars, pc, next, multiVars>>

-----------------------------------------------------------------------------
(* The task pushed by dispatch_system, on a worker *)

\* Where a task goes with dependents `rest` left to count at.
CountAtNext(w, rest) ==
    /\ deps' = [deps EXCEPT ![w] = rest]
    /\ pc' = [pc EXCEPT ![w] = IF rest = <<>> THEN "returning" ELSE "gate"]

SystemReturns(w) ==
    /\ pc[w] = "system"
    /\ \E t \in running[w] :
          /\ completed' = completed \cup {t}
          /\ CountAtNext(w, dependents[t[1]])
    /\ UNCHANGED <<queueVars, sharedVars, main, next, dispatched, dependency_gate,
                   pushq, to_push, woken, runs, synced>>

SystemPanics(w) ==
    /\ WorkerDies(w)
    /\ \E t \in running[w] : t[1] \in Panics
    /\ UNCHANGED multiVars

\* The gate of the next dependent is short of its count ...
GateStaysShut(w) ==
    /\ pc[w] = "gate"
    /\ LET d == Head(deps[w])
       IN  /\ dependency_gate[d] + 1 # dependency_count[d]
           /\ dependency_gate' = [dependency_gate EXCEPT ![d] = @ + 1]
    /\ CountAtNext(w, Tail(deps[w]))
    /\ UNCHANGED <<queueVars, sharedVars, main, next, dispatched, pushq, to_push, woken,
                   completed, runs, synced>>

\* Mutant of the operator below: the first count opens the gate.
GateOpens_First(w) ==
    /\ Goto(w, "gate", "push")
    /\ LET d == Head(deps[w])
       IN  /\ dependency_gate[d] = 0
           /\ dependency_gate' = [dependency_gate EXCEPT ![d] = @ + 1]
           /\ pushq' = [pushq EXCEPT ![w] = DispatchOrder(d)]
    /\ UNCHANGED <<queueVars, sharedVars, main, next, dispatched, deps, to_push, woken,
                   completed, runs, synced>>

\* ... or this was the last count it waited for: push its batch.
GateOpens(w) ==
    /\ Goto(w, "gate", "push")
    /\ LET d == Head(deps[w])
       IN  /\ dependency_gate[d] + 1 = dependency_count[d]
           /\ dependency_gate' = [dependency_gate EXCEPT ![d] = @ + 1]
           /\ pushq' = [pushq EXCEPT ![w] = DispatchOrder(d)]
    /\ UNCHANGED <<queueVars, sharedVars, main, next, dispatched, deps, to_push, woken,
                   completed, runs, synced>>

PushDependent(w) ==
    /\ pc[w] = "push" /\ pushq[w] # <<>>
    /\ DispatchSystem(Head(pushq[w]))
    /\ pushq' = [pushq EXCEPT ![w] = Tail(@)]
    /\ UNCHANGED <<deque, running, tasks_done, settled, sharedVars, pc, main, next,
                   dependency_gate, deps, to_push, woken, completed, runs, synced>>

\* Mutant of the operator below: the gate is left as it is.
ResetGate_Skip(w) ==
    /\ pc[w] = "push" /\ pushq[w] = <<>>
    /\ CountAtNext(w, Tail(deps[w]))
    /\ UNCHANGED <<queueVars, sharedVars, main, next, dispatched, dependency_gate, pushq,
                   to_push, woken, completed, runs, synced>>

\* count.store(0)
ResetGate(w) ==
    /\ pc[w] = "push" /\ pushq[w] = <<>>
    /\ dependency_gate' = [dependency_gate EXCEPT ![Head(deps[w])] = 0]
    /\ CountAtNext(w, Tail(deps[w]))
    /\ UNCHANGED <<queueVars, sharedVars, main, next, dispatched, pushq, to_push, woken,
                   completed, runs, synced>>

-----------------------------------------------------------------------------
\* What worker w does by itself.
Worker(w) ==
    \/ WorkerStep(w) /\ UNCHANGED multiVars
    \/ SystemReturns(w) \/ GateStaysShut(w) \/ GateOpens(w)
    \/ PushDependent(w) \/ ResetGate(w)

\* full_sync returning is what makes the next run a synced one.
SyncedReturns ==
    /\ SyncReturns
    /\ synced' = TRUE
    /\ UNCHANGED <<dispatched, dependency_gate, deps, pushq, to_push, woken, completed, runs>>

\* The steps of a call the main thread is in.
Main ==
    \/ PushRoot \/ AddTasks \/ ReadyThread \/ ExecuteReturns
    \/ SyncedReturns
    \/ (SyncParks \/ MainUnparked) /\ UNCHANGED multiVars
    \/ (ShutdownUnparks \/ ShutdownJoins \/ ShutdownPanics \/ ShutdownReturns)
       /\ UNCHANGED multiVars

\* The calls the application makes when it is in none.
Client ==
    \/ Run
    \/ (FullSync \/ FullShutdown) /\ UNCHANGED multiVars

\* What may happen but never has to.
Environment ==
    \/ MainWakesSpuriously /\ UNCHANGED multiVars
    \/ \E w \in Threads : \/ WorkerWakesSpuriously(w) /\ UNCHANGED multiVars
                          \/ SystemPanics(w)

Next == (\E w \in Threads : Worker(w)) \/ Main \/ Client \/ Environment

Safety == Init /\ [][Next]_vars

\* The scheduler lets every thread that can step do so in the end, and
\* systems return; nothing makes the application call, a system panic or a
\* parked thread wake by itself.
Fairness == WF_vars(Main) /\ \A w \in Threads : WF_vars(Worker(w))

Spec == Safety /\ Fairness

\* The same when the application may also run without a full_sync between.
UnsyncedSpec == Init /\ [][Next \/ RunUnsynced]_vars

-----------------------------------------------------------------------------
(* Type correctness. *)
TypeOK ==
    /\ injector \subseteq Tasks /\ settled \subseteq Tasks /\ completed \subseteq Tasks
    /\ deque \in [Threads -> SUBSET Tasks]
    /\ running \in [Threads -> SUBSET Tasks]
    /\ tasks_done \in [Threads -> SUBSET Tasks]
    /\ tasks \in 0..Usize - 1
    /\ shutdown \in BOOLEAN
    /\ statuses \in [Threads -> {Ready, Working, Shutdown}]
    /\ token \in [Threads -> BOOLEAN] /\ main_token \in BOOLEAN
    /\ pc \in [Threads -> WorkerPCs] /\ main \in MainPCs
    /\ next \in 1..NumThreads + 1
    /\ dispatched \in [Systems -> Nat]
    /\ dependency_gate \in [Systems -> Nat]
    /\ deps \in [Threads -> Seq(Systems)] /\ pushq \in [Threads -> Seq(Systems)]
    /\ to_push \in Seq(Systems)
    /\ woken \in Nat /\ runs \in Nat /\ synced \in BOOLEAN

(* Work stealing loses and duplicates nothing: every task pushed is in      *)
(* exactly one place, the injector, a local queue, a worker, or a batch a   *)
(* worker has counted or already subtracted.                                *)
Conservation ==
    /\ Dispatched = injector \cup settled
                       \cup UNION {deque[w] \cup running[w] \cup tasks_done[w] : w \in Threads}
    /\ injector \cap settled = {}
    /\ \A w \in Threads :
          /\ deque[w] \cap (injector \cup settled \cup running[w] \cup tasks_done[w]) = {}
          /\ running[w] \cap (injector \cup settled \cup tasks_done[w]) = {}
          /\ tasks_done[w] \cap (injector \cup settled) = {}
          /\ \A v \in Threads \ {w} :
                (deque[w] \cup running[w] \cup tasks_done[w])
                  \cap (deque[v] \cup running[v] \cup tasks_done[v]) = {}

\* The systems of this run that fetch_add has counted in, and the number of
\* them that workers have subtracted.
CountedIn == IF runs = 0 \/ main = "push" THEN 0 ELSE Cardinality(Systems)
CountedOut == Cardinality({s \in Systems : <<s, runs>> \in settled})

(* The counter is the number of systems of this run that no worker has      *)
(* subtracted yet; it is below zero, wrapped around, while the workers are  *)
(* ahead of the fetch_add that follows the pushes (multi.rs:38).            *)
CounterOK == tasks = WrappingSub(CountedIn, CountedOut)

(* full_sync never returns early: once it has, every system of every run    *)
(* has returned, no task is queued or running anywhere, and every gate is   *)
(* closed again for the next run.                                           *)
SyncSound ==
    (synced /\ main = "idle") =>
        /\ completed = RunTasks(runs)
        /\ injector = {}
        /\ \A w \in Threads : deque[w] = {} /\ running[w] = {} /\ tasks_done[w] = {}
        /\ \A s \in Systems : dependency_gate[s] = 0

(* full_shutdown without full_sync, as tests/basic_quick_0.rs calls it: it  *)
(* returns with the last run complete or with none of it begun, never with  *)
(* a run cut short.                                                         *)
ShutdownAllOrNothing ==
    (shutdown /\ main = "idle") =>
        \/ completed = RunTasks(runs)
        \/ completed = RunTasks(runs - 1) /\ \A w \in Threads : running[w] = {}

(* The executor runs a schedule as OrderedRun promises.                     *)
Ordered == INSTANCE OrderedRun WITH
    After    <- Before,
    started  <- completed \cup UNION {running[w] : w \in Threads},
    finished <- completed
RunsInOrder == Ordered!OrderedSpec

(* single.rs:66-67: "if the atomic count equals it that means all           *)
(* dependencies have ran": a task in progress or done follows, in its own    *)
(* run, everything ordered before it.                                       *)
DependenciesHaveRun ==
    \A t \in completed \cup UNION {running[w] : w \in Threads} :
        \A p \in Before[t[1]] : <<p, t[2]>> \in completed

(* A worker thread never dies of anything but a panicking system:           *)
(* workgroups.rs:60, `worker.join().expect("Error")`, takes a join error to *)
(* be one.                                                                  *)
WorkersSurvive == \A w \in Threads : pc[w] = "dead" => running[w] # {}

(* full_sync returns (tests/basic_workflow.rs:127-131, "run", "full_sync"). *)
SyncTerminates == (main = "sync") ~> (main = "idle")

\* Work is left, and every worker is parked with no unpark on its way.
Asleep == tasks # 0 /\ \A w \in Threads : pc[w] = "park" /\ ~token[w]

(* full_sync returns unless every worker was between its last look at the   *)
(* counter and its Ready store when execute() decided whom to unpark.       *)
SyncTerminatesUnlessAsleep == (main = "sync") ~> (main = "idle" \/ Asleep)

(* full_shutdown returns: its unpark wakes each worker after the flag is    *)
(* set, and a worker that is awake works until the counter is zero.         *)
ShutdownTerminates == (main = "unpark") ~> (main = "idle")
=============================================================================
