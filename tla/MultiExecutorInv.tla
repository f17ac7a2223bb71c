---------------------------- MODULE MultiExecutorInv ----------------------------
(***************************************************************************)
(* The inductive invariant behind the properties of MultiExecutor: why a   *)
(* gate opens exactly once per run, and why that keeps the runs apart.     *)
(* TLC checks it on an instance of MCMultiExecutor; the proof modules      *)
(* prove it for every schedule, number of threads and width.               *)
(***************************************************************************)
EXTENDS MultiExecutor

\* The task of system s in the run under way.
Current(s) == <<s, runs>>

\* s has been dispatched in the run under way.
Released(s) == runs \in 1..dispatched[s]

\* Everything worker w holds.
Held(w) == deque[w] \cup running[w] \cup tasks_done[w]

\* What keeps the counter's arithmetic meaningful.
QueuesFinite ==
    /\ IsFiniteSet(injector)
    /\ \A w \in Threads : IsFiniteSet(deque[w]) /\ IsFiniteSet(running[w]) /\ IsFiniteSet(tasks_done[w])

\* A task in the middle of its dependents has one, and full_shutdown joins a
\* worker there is.
InProgress ==
    /\ \A w \in Threads : pc[w] \in {"gate", "push"} => deps[w] # <<>>
    /\ main = "join" => next \in Threads

TypeInv == TypeOK /\ QueuesFinite /\ InProgress

\* A system is dispatched at most once per run, and in every run.
RunsInv ==
    /\ \A s \in Systems : dispatched[s] <= runs /\ runs <= dispatched[s] + 1
    /\ RunTasks(runs - 1) \subseteq settled
    /\ synced => settled = RunTasks(runs) /\ main \notin {"push", "ready"}
    /\ main = "push" => runs > 0

\* While execute() pushes, to_push is what is left of the root batch.
RootInv ==
    /\ main = "push" => /\ IsInjective(to_push)
                        /\ Range(to_push) = {s \in Batch(root) : ~Released(s)}
    /\ main # "push" /\ runs > 0 => \A s \in Batch(root) : Released(s)

\* A worker is inside one task of this run, or inside none.
WorkerInv == \A w \in Threads :
    /\ pc[w] \in {"system", "gate", "push", "returning"} =>
          \E s \in Systems : running[w] = {Current(s)}
    /\ pc[w] \notin {"system", "gate", "push", "returning", "dead"} => running[w] = {}
    /\ pc[w] \in {"gate", "push"} =>
          \E s, t \in Systems : running[w] = {Current(s)} /\ dependents[s] = <<t>> /\ deps[w] = <<t>>
    /\ pc[w] \in {"start", "drained", "ready", "wake", "park", "exited"} => tasks_done[w] = {}

\* A worker that has left its system but not finished its task.
Finishing(w) == pc[w] \in {"gate", "push", "returning"}

\* A system has returned once its task is settled, counted or finishing.
CompletedInv ==
    /\ \A w \in Threads : Finishing(w) => running[w] \subseteq completed
    /\ \A w \in Threads : ~Finishing(w) => running[w] \cap completed = {}
    /\ \A w \in Threads : tasks_done[w] \subseteq completed /\ deque[w] \cap completed = {}
    /\ settled \subseteq completed /\ injector \cap completed = {}
    /\ completed \subseteq Dispatched

\* The systems that have counted at the gate of t in this run, and whether
\* that is all it waits for.
Counted(t) ==
    {p \in Preds(t) : /\ Current(p) \in completed
                      /\ \A w \in Threads : pc[w] = "gate" => Current(p) \notin running[w]}
Opened(t) == Counted(t) = Preds(t)

\* w is pushing the batch of t.
Pushing(w, t) == pc[w] = "push" /\ deps[w] = <<t>>

\* The systems that have a gate: the triggers of all batches but the first.
Gated == Triggers \ {root}

\* A gate holds the number of systems that have counted at it until the last
\* of them has pushed the batch; then it is zero for the rest of the run.
GateInv == \A t \in Gated :
    /\ ~Opened(t) => /\ dependency_gate[t] = Cardinality(Counted(t))
                     /\ \A s \in Batch(t) : ~Released(s)
    /\ \A w \in Threads : Pushing(w, t) =>
          /\ Opened(t)
          /\ dependency_gate[t] = dependency_count[t]
          /\ IsInjective(pushq[w])
          /\ Range(pushq[w]) = {s \in Batch(t) : ~Released(s)}
          /\ \A v \in Threads : Pushing(v, t) => v = w
    /\ Opened(t) /\ (\A w \in Threads : ~Pushing(w, t)) =>
          /\ dependency_gate[t] = 0
          /\ \A s \in Batch(t) : Released(s)

\* Nobody counts at a system that has no gate.
UngatedInv == \A s \in Systems \ Gated : dependency_gate[s] = 0

IInv ==
    /\ TypeInv
    /\ Conservation
    /\ RunsInv /\ RootInv /\ WorkerInv /\ CompletedInv /\ GateInv /\ UngatedInv
    /\ CounterOK

\* Where full_shutdown is: it has joined the workers below next.
JoinedInv ==
    /\ main \in {"unpark", "join"} => shutdown
    /\ shutdown => main \in {"idle", "unpark", "join", "panicked"}
    /\ shutdown /\ main = "idle" => next > NumThreads
    /\ shutdown => \A w \in Threads : w < next => pc[w] = "exited"

\* The places a worker is at once it has found the counter at zero.
Resting == {"drained", "ready", "wake", "park", "exited"}

\* When the last worker that works comes to rest, it has taken the counter to
\* zero itself: the run is settled then, or none of it was.
RestInv ==
    (\A w \in Threads : pc[w] \in Resting) => CountedOut \in {0, Cardinality(Systems)}

\* IInv with what full_shutdown without a full_sync relies on.
ShutInv == IInv /\ JoinedInv /\ RestInv
=============================================================================
