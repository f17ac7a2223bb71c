-------------------------- MODULE MultiExecutorMemory --------------------------
(***************************************************************************)
(* What the threads of MultiExecutor see of each other's systems, by the   *)
(* happens-before of the orderings the code asks for.  A view is the set   *)
(* of tasks whose system happens before: each thread has one, and so has   *)
(* what one thread releases for another to acquire, namely a queued task,  *)
(* a gate and the counter.                                                 *)
(*                                                                         *)
(* Values stay those of MultiExecutor: only read-modify-writes decide      *)
(* anything there, and those never see an old value.  An acquire that can  *)
(* return one (workgroups.rs:169), and the edges of park and unpark, are   *)
(* left out: they could only add to a view.                                *)
(***************************************************************************)
EXTENDS MultiExecutorInv

VARIABLES
    sees,        \* sees[w]: the view of worker w
    main_sees,   \* the view of the main thread
    carries,     \* carries[s]: the view the last dispatch of s was pushed with
    gate_view,   \* gate_view[s]: what the last store(0, Release) to its gate released
    tasks_view   \* what the release sequence of the counter has released

views == <<sees, main_sees, carries, gate_view, tasks_view>>
memoryVars == <<vars, views>>

MemoryInit ==
    /\ Init
    /\ sees = [w \in Threads |-> {}]
    /\ main_sees = {}
    /\ carries   = [s \in Systems |-> {}]
    /\ gate_view = [s \in Systems |-> {}]
    /\ tasks_view = {}

Learns(w, view) == sees' = [sees EXCEPT ![w] = @ \cup view]

-----------------------------------------------------------------------------
\* The systems dispatched by this step are pushed with a view: crossbeam
\* releases a slot that is pushed and acquires one that is taken.
Carry(view) ==
    carries' = [s \in Systems |-> IF dispatched'[s] # dispatched[s] THEN view ELSE carries[s]]

\* Mutant of the operator below: queues that do not acquire what they take.
Takes_Relaxed(w) ==
    /\ PopLocal(w) \/ StealFromInjector(w) \/ StealFromVictim(w)
    /\ UNCHANGED <<multiVars, views>>

\* A task is taken out of a queue.
Takes(w) ==
    /\ PopLocal(w) \/ StealFromInjector(w) \/ StealFromVictim(w)
    /\ Learns(w, UNION {carries[t[1]] : t \in running'[w]})
    /\ UNCHANGED <<multiVars, main_sees, carries, gate_view, tasks_view>>

\* A system runs: what it did is seen by its own thread.
Ran(w) ==
    /\ SystemReturns(w)
    /\ Learns(w, running[w])
    /\ UNCHANGED <<main_sees, carries, gate_view, tasks_view>>

\* fetch_add(1, Acquire): what the gate's last store(0, Release) released is
\* acquired, but nothing is released to those that count after it.
Counts(w) ==
    /\ GateStaysShut(w) \/ GateOpens(w)
    /\ Learns(w, gate_view[Head(deps[w])])
    /\ UNCHANGED <<main_sees, carries, gate_view, tasks_view>>

Pushes(w) ==
    /\ PushDependent(w)
    /\ Carry(sees[w])
    /\ UNCHANGED <<sees, main_sees, gate_view, tasks_view>>

\* count.store(0, Release)
Resets(w) ==
    /\ ResetGate(w)
    /\ gate_view' = [gate_view EXCEPT ![Head(deps[w])] = sees[w]]
    /\ UNCHANGED <<sees, main_sees, carries, tasks_view>>

\* Mutant of the operator below: fetch_sub(tasks_done, Acquire).
Settles_Acquire(w) ==
    /\ Settle(w)
    /\ Learns(w, tasks_view)
    /\ UNCHANGED <<multiVars, main_sees, carries, gate_view, tasks_view>>

\* fetch_sub(tasks_done, AcqRel)
Settles(w) ==
    /\ Settle(w)
    /\ Learns(w, tasks_view)
    /\ tasks_view' = tasks_view \cup sees[w]
    /\ UNCHANGED <<multiVars, main_sees, carries, gate_view>>

\* The steps of a worker that order nothing.
Quiet(w) ==
    /\ \/ WorkerStarts(w) \/ PopNothing(w) \/ InjectorEmpty(w) \/ LoadTasks(w)
       \/ VictimEmpty(w) \/ TaskReturns(w) \/ WorkerExits(w) \/ WorkerStays(w)
       \/ WorkerReady(w) \/ WorkerWakesMain(w) \/ WorkerUnparked(w)
    /\ UNCHANGED <<multiVars, views>>

WorkerOrders(w) ==
    Takes(w) \/ Ran(w) \/ Counts(w) \/ Pushes(w) \/ Resets(w) \/ Settles(w) \/ Quiet(w)

-----------------------------------------------------------------------------
MainPushes ==
    /\ PushRoot
    /\ Carry(main_sees)
    /\ UNCHANGED <<sees, main_sees, gate_view, tasks_view>>

\* Mutant of the operator below: tasks.load(Relaxed).
MainLoads_Relaxed ==
    /\ SyncedReturns \/ (SyncParks /\ UNCHANGED multiVars)
    /\ UNCHANGED views

\* tasks.load(Acquire) in full_sync, whether it finds zero or not.  It cannot
\* return a value from before the main thread's own fetch_add.
MainLoads ==
    /\ SyncedReturns \/ (SyncParks /\ UNCHANGED multiVars)
    /\ main_sees' = main_sees \cup tasks_view
    /\ UNCHANGED <<sees, carries, gate_view, tasks_view>>

\* join() acquires all the thread has done.
MainJoins ==
    /\ ShutdownJoins /\ UNCHANGED multiVars
    /\ main_sees' = main_sees \cup sees[next]
    /\ UNCHANGED <<sees, carries, gate_view, tasks_view>>

\* Its other steps; fetch_add(systems.len(), Relaxed) goes on with the
\* counter's release sequence.
MainQuiet ==
    /\ \/ AddTasks \/ ReadyThread \/ ExecuteReturns
       \/ (MainUnparked \/ ShutdownUnparks \/ ShutdownPanics \/ ShutdownReturns) /\ UNCHANGED multiVars
       \/ Client
    /\ UNCHANGED views

MemoryNext ==
    \/ \E w \in Threads : WorkerOrders(w)
    \/ MainPushes \/ MainLoads \/ MainJoins \/ MainQuiet
    \/ Environment /\ UNCHANGED views

MemorySpec == MemoryInit /\ [][MemoryNext]_memoryVars

-----------------------------------------------------------------------------
(* When full_sync has returned, the main thread sees everything the systems *)
(* of every run have done, and after full_shutdown everything that the      *)
(* threads it has joined have: between runs it may use the resources.       *)
MainSees ==
    main = "idle" /\ (synced \/ shutdown) => completed \subseteq main_sees

(* A system sees what all systems of the runs before its own have done.     *)
RunsVisible ==
    \A w \in Threads : \A t \in running[w] : RunTasks(t[2] - 1) \subseteq sees[w]

(* A system sees what one of the systems ordered before it has done, the    *)
(* one that counted last: an .order() of single systems is safe to write    *)
(* with, as tests/basic_quick_0.rs:106-107 does.                            *)
LastVisible ==
    \A w \in Threads : \A t \in running[w] :
        Before[t[1]] # {} => \E p \in Before[t[1]] : <<p, t[2]>> \in sees[w]

(* single.rs:66-67: "if the atomic count equals it that means all           *)
(* dependencies have ran": a system sees what all of them have done.        *)
DependenciesVisible ==
    \A w \in Threads : \A t \in running[w] :
        \A p \in Before[t[1]] : <<p, t[2]>> \in sees[w]
=============================================================================
