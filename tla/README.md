# Tachyon3D: specifications of the scheduler, the resources and the ECS world

Tachyon3D is a small game-engine core in Rust: an application holds resources
and schedules, a schedule is a plan of systems, and an executor runs the plan
on one thread or on a work-stealing workgroup; a small ECS world hands out
entities. This directory holds TLA+ modules of its scheduler, its resources and
its world, the TLC configurations that check them, and TLAPS proofs about them.

Paths below are relative to `tachyon3d_internal/src/` unless they start with
`tests/`.

## 1. The system

| Part | Source | State | Operations | Modelled in |
|---|---|---|---|---|
| Schedule builder | `schedule/mod.rs`, `schedule/graph.rs`, `systems/variadics/*`, `systems/entry.rs` | `systems` (with `dependency_count`, `dependency_gate`), `dep_graph` (`edges`, `root`) | `add_systems`, `Destructure` for systems, `()`, tuples and `.order()` sequences | `DepGraph`, `Schedule`, `ScheduleBuilder`, `BuilderSteps` |
| Single threaded executor | `schedule/executors/single.rs`, `Schedule::run` | `executor`, a local stack, the gates | `run`, `execute` | `SingleExecutor` |
| Workgroup | `workgroups.rs` | the groups by label; of each its injector, local deques, `tasks`, `statuses`, `shutdown`, park tokens, one thread per worker | `add_workgroup`, `worker_logic`, `full_sync`, `full_shutdown` | `Workgroup`, `Workgroups` |
| Multithreaded executor | `schedule/executors/multi.rs` | the gates, the task closures | `execute`, `dispatch_system` | `MultiExecutor`, `MultiExecutorMemory` |
| Resource store, argument cache | `resources/*`, `Schedule::cache_pointers` | boxes by type, cached raw pointers | `insert`, `remove`, `fetch_args(_unchecked)`, `cache_pointers` | `Resources` |
| ECS world | `ecs/mod.rs` | entities, sparse pointers, archetypes | `spawn`, `despawn`, `add_comp` | `EntityWorld`, `World` |
| App, plugins | `app/*` | a registry of the above | `add_schedule`, `add_systems`, `add_resource`, `add_plugins`, `install`, `run_owned`, `cache_inputs`, `run` | `Resources`, with the parts they reach |
| Dot export, derive macro, facade crates | `edges_to_dot`, `tachyon3d_macros`, `src/lib.rs` | none | | no behaviour to check |

### How the parts interact

`add_systems` destructures a plan into a graph of *batches*. The first system of
a parallel block is its *trigger*; the others hang off it as `associates`; every
system of the block before points at the trigger as its one `dependents` entry.
A gate (`dependency_gate`) at the trigger counts the systems of that block as
they return, and when it reaches `dependency_count` the batch is dispatched and
the gate reset.

The single threaded executor does this over a local stack. The multithreaded
one pushes the root batch into the workgroup's injector as closures, adds the
number of systems to `tasks`, unparks the workers whose status is Ready and
returns. A worker pops or steals tasks, each of which runs its system, counts
at the gate of its dependent and, if it is the last, pushes the next batch. A
worker that finds nothing subtracts what it has done from `tasks`; if that
leaves zero it exits (shutdown) or stores Ready, unparks the main thread and
parks. `full_sync` parks the main thread until `tasks` is zero; `full_shutdown`
sets the flag and unparks and joins one worker after the other.

All groups share the one main thread: `full_sync` and `full_shutdown` go from
group to group, and any worker's unpark may wake it.

A system's arguments are raw pointers into the boxes of the resource store. The
task fetches them when it runs, unless `cache_inputs` has stored them with the
system before. Nothing checks that a box is still there, or that two systems at
work do not write the same one: the first is left to the order of the client's
calls, the second to the plan's `.order()`.

The ECS world stands apart: it is installed like a resource and called by one
system at a time. `spawn` gives out the first free entity of a dense vector or
a new one; `despawn` compares the entity passed with the one its sparse entry
leads to, gives it its next generation and swaps it behind the living ones.
`add_comp` finds the archetype of two component types, or makes one, and pushes
a row.

What makes each part correct: the builder's graph orders exactly what
`.order()` says and is one both executors can run; a run starts every system
once, after what is ordered before it, and ends; `full_sync` returns when
everything has run and only then, `full_shutdown` returns; no task is lost or
run twice; what a system wrote is visible to whoever was to wait for it; an
argument points at the resource of its type that the app has now; writers are
alone with what they write; a despawned handle is refused for ever after; rows
of components stay together.

### What is hard about it

* The pushes come before the `fetch_add`, so `tasks` is below zero (wrapped
  around) while workers are ahead of the main thread.
* Status, counter, park tokens and queues are four separate pieces of shared
  state; who is unparked depends on a status read at one moment.
* The gate of a batch is reset after the batch has been pushed, that is while
  its tasks may already be running.
* Nothing but the client's `full_sync` keeps two runs apart.
* Systems are arbitrary closures and may panic; so does fetching a resource that
  is not there.
* What one thread sees of another's writes hangs on a few Acquire and Release
  orderings, some of which are weaker than they look.
* Cached arguments outlive the boxes they point at.
* Groups may share a label, have no threads, be shut down twice or be given work
  after that, while one main thread waits for all of them.
* The trigger and the "rank before" are threaded by reference through nested
  tuples and sequences.
* The world's two vectors are swapped at different indices, across a moving
  partition, while handles to any of their entries are out.

`PROJECT.json` lists these, and what else is hard to test, under `hazards`,
each at its line and with the properties that watch it.

## 2. The modules

| Module | What it is |
|---|---|
| `DepGraph` | The graph as constants; batches, predecessors, dispatch orders; `GraphOK`, what both executors rely on |
| `Schedule` | the schedule, what adding one system does to it, and what must hold of it |
| `ScheduleBuilder` | extends it with `add_systems` as one step that recurses over a plan (records for systems, `()`, tuples, sequences) |
| `BuilderSteps` | extends it with `add_systems` piece by piece: a system, the beginning, the next item, the end of an `.order()` |
| `BuilderProofs` | proofs about `BuilderSteps` |
| `SingleExecutor` | extends `BuilderSteps` with `run` and the single threaded `execute` |
| `SingleExecutorProofs` | proofs about it |
| `OrderedRun` | the abstract promise: every run starts each system once, after what is ordered before it, and runs do not overlap |
| `Workgroup` | workers, queues, counter, parking, `full_sync`, `full_shutdown` |
| `MultiExecutor` | composes `Workgroup` and `DepGraph`: `execute`, the tasks, the specification, its properties, the refinement of `OrderedRun` |
| `MultiExecutorInv` | the inductive invariant |
| `MultiExecutorWorker` | proofs: type correctness; what `GraphOK` says of batches, triggers and predecessors; where tasks are, that taking, stealing and settling them keep the invariant, and so do a task's return, the gates, the pushes and the reset |
| `MultiExecutorSafety` | proofs: `execute`, `full_sync`, `full_shutdown`, the theorems, and shutting down without a sync |
| `MultiExecutorMemory` | extends it with what each thread sees of the systems the others ran: a view per thread, task, gate and counter |
| `MultiExecutorMemoryProofs` | proofs about the views |
| `Workgroups` | the handler with all its groups: labels, runs on any group, `full_sync` and `full_shutdown` over all |
| `WorkgroupsProofs` | proofs about them |
| `Resources` | boxes, arguments, the cache, and runs as `OrderedRun` has them |
| `ResourcesProofs` | proofs about them |
| `EntityHandles` | the abstract promise of the world: no handle is given twice or taken back twice |
| `EntityWorld` | `spawn` and `despawn`, the refinement of `EntityHandles` |
| `World` | extends it with `add_comp`, archetypes and columns |
| `WorldProofs` | proofs about both |
| `MCBuilder` | `SingleExecutor`, and so `BuilderSteps`, with a history of the plans that are read, and the refinement of `ScheduleBuilder` |
| `MCScheduleBuilder`, `MCMultiExecutor`, `MCMemory`, `MCResources`, `MCWorkgroups`, `MCWorld` | instances for TLC |

### Correspondence with the code

*Plans and keys.* A plan is a tree; a system with arguments behaves as one
without for the graph. Keys are 1, 2, ... in insertion order (slotmap hands them
out that way while nothing is removed, and nothing ever is). `Destructure`
passes the four arguments the code passes by reference as one record and
returns it.

*Pieces of plans.* `BuilderSteps` reads the same plan from left to right. The
calls of `destructure` nest as the plan does, but a tuple hands all it got to
its items and keeps nothing, so what the call stack holds is one frame per
`.order()` that is being read: `last`, `current` and `old` are the
`last_rank`, `current_rank` and `old_current_trigger_node` of
`destructure_seq!`, and the variables `last`, `current` and `trigger` what the
innermost call sees. Any sequence of steps is a plan, so what holds in every
state holds for every plan, without induction over plans; that is what the
proofs need, and why `SingleExecutor` is built on it. `declared` is what the
plan says, kept apart from the graph: when a system is read, `earlier` has all
the systems of the items before, of all the `.order()`s around it. The steps of
`NextItem` and `EndSequence` ask for an item with a system in it (`Count >
start`): a `()`, or a tuple of them, as an item of an `.order()` is left to
`ScheduleBuilder`, as its graph is not well formed (`builder_empty`). A `()`
anywhere else does nothing and needs no step. `add_systems` is called between
runs; a run begins when no call is being read.

*Tasks.* A dispatch of system `s` is the task `<<s, k>>`, the `k`-th dispatch
of `s`. This identity is the model's; the code's closures have none. It lets
sets stand for the crossbeam queues without losing a duplicate: a system
dispatched twice in a run is two tasks.

*Queues.* The order within a queue matters to no property, so `injector` and
`deque[w]` are sets. One steal moves any batch of at most half of a queue
(rounded up, at least one) and pops one of it. crossbeam's own correctness is
assumed; `Retry` is a repeated loop and needs no step. `victim.len()`, the scan
and the steal happen at different moments, so any worker can come out of the
scan, and the break after an empty steal is possible whenever some queue is
empty (the worker's own included, which the code may pick).

*Steps.* Each atomic access and each park, unpark and join is a step of its
own (`pc[w]` and `main` say where a thread is), with two exceptions: loading a
worker's status and unparking it (the comment at `ReadyThread` says why that
loses nothing), and a load of the shutdown flag with the status store after it.
Gate increments, pushes of single tasks and the gate reset are separate steps.

*Settling.* `tasks_done[w]` is the set of tasks the local counter has counted.
`Settle` is `fetch_sub` and the comparison `prev - tasks_done == 0`, which with
overflow checks panics when `prev < tasks_done`.

*Panics.* A system in `Panics` may unwind; its worker is then `dead` with its
count unsettled, as in the code.

*Client.* The application calls `run` (after a `full_sync`, as the loop of
`tests/basic_workflow.rs:127-131` and the benchmark do), `full_sync`, and
`full_shutdown` at any moment it is in no call, as its last call.
`RunUnsynced` adds runs without a `full_sync` between, and only `UnsyncedSpec`
has it.

*Values* of atomics are sequentially consistent, and `AtomicUsize` wraps at
`Usize`. That is what the code gets: the gates and the counter are only changed
by read-modify-writes, which never act on an old value, a worker whose status
the main thread reads too early is one that stored it later, and the loads of
the counter in the loops are repeated or lead to a `fetch_sub`.

*Views* (`MultiExecutorMemory`). Visibility of what the systems themselves write
is another matter, and follows happens-before. A view is a set of tasks whose
system has run. A thread's view grows by what it runs and by what it acquires: a
task taken from a queue, with the view it was pushed with (crossbeam pushes with
release, takes with acquire); the counter, whose `fetch_sub(AcqRel)` passes on
what all before it released and adds the worker's own (`execute`'s Relaxed
`fetch_add` goes on with the release sequence); a gate, which only
`store(0, Release)` releases and `fetch_add(Acquire)` acquires; `join`. Each
action is one of `MultiExecutor` with its effect on the views, so all that holds
there holds here.

*Groups* (`Workgroups`). A worker here takes tasks in one step and subtracts
them in another, and queues and counters are numbers; what happens inside a
group is `Workgroup`'s business. What it adds is the handler: `Attached` are the
groups a label leads to, `thread_pool` the workers whose `JoinHandle` is there.
A group whose label is used again, or whose handler is replaced, is not attached
any more, but its threads run on. `main_token` is the one park token of the main
thread that all groups set. The order in which the loops visit the groups is
that of a hash map: any.

*Resources.* A type is what `TypeId` tells apart, a box a number never used
again: a pointer to a freed box is wrong whatever is allocated there next.
`cache[s]` and `holds[s]` are the pointers the entry and its last call have.
Runs are the steps of `OrderedRun`, which the multithreaded executor is proved
to implement, and whose order the single threaded one keeps
(`RunsDeclaredOrder`). The client changes the store and the schedule only between
runs that have been synced: the closures of a run hold raw pointers to both
(multi.rs:23-25). `add_plugins` and `install` insert the plugin as a resource.
`run_owned` takes one out. `fetch_args`, the checked variant, is called from
nowhere; its duplicates check is the operator `Disjoint`.

*Entities.* The key `id << 32 | generation` is the pair of the two, and the
generation is modulo `Generations`. A place is an index of the code, one less
than the index of the sequence. Handles carry, instead of the generation, how
often the id had been despawned (`reuses`); `Key` is the entity the code sees.
`given` and `live` are the handles `spawn` has returned and those not yet
despawned. `despawn` is called with any handle ever given, stale ones included,
except an `Expired` one: a handle kept while its id was despawned as often as
there are generations (2^32 in the code) compares equal to a later one, and
nothing but its rarity speaks against it. The `else` of `despawn`, an error that
changes nothing, is a stutter.

*Components.* A component is its type and the number of the `add_comp` call
that brought it, a column the sequence of its components, a bitset its set
bits, `sparse` a function from the component ids it was made for. The code's
`sparse` has zeros below those ids; as an archetype is only found by exactly its
bitset, they are never read.

## 3. The runs

| Run | What it checks | Result |
|---|---|---|
| `schedule` | All plans of at most 4 systems and 3 levels of `.order()` in two `add_systems` calls, read piece by piece, with two single threaded runs before, between and after them, and panics: at every moment the graph is well formed (`GraphOK`) and the order it enforces is exactly the declared one; the pieces add up to what `ScheduleBuilder` does in one step; systems run in the order written, after what they are declared after, completely, gates closed before every run | holds |
| `builder_empty` | The builder with `()` among the items of sequences, against single.rs:16-17, "a single root to start from" | violated |
| `multi_safety` | `(a, b, c)` then `d`, two workers, two runs, `d` may panic: stealing conserves tasks, counter, gates, `full_sync`, `full_shutdown`, refinement of `OrderedRun` | holds |
| `multi_memory` | `(a, b)` then `c`, two runs, with views: what `full_sync` and `full_shutdown` make visible, from run to run and from system to system | holds |
| `multi_gate_visibility` | The same join: "if the atomic count equals it that means all dependencies have ran" (single.rs:66-67), as to what `c` sees | violated |
| `multi_liveness` | `a` then `(b, c)`, two runs, fair: `full_sync` returns or all workers sleep with nobody to unpark them; `full_shutdown` returns; and the inductive invariant of the proofs | holds |
| `multi_lost_wakeup` | The same for `full_sync` alone | violated |
| `multi_debug` | With overflow checks: workers die only of panicking systems (workgroups.rs:60) | violated |
| `multi_overlap` | Runs without `full_sync` between: the sentence of single.rs:66-67 again, as to order | violated |
| `resources` | A schedule as that of `tests/basic_quick_0.rs:101-109`, two resource types, two runs, with resources inserted, replaced, removed, systems added and cached in any order between: types, freshness and exclusiveness of pointers | holds |
| `workgroups` | Two labels, two groups of no thread or one, two runs, any order of calls, fair: what `full_sync` and `full_shutdown` wait for, and that they end | holds |
| `world` | Three entities, each despawned up to three times, generations of one bit, capacity 1, two `add_comp` calls over two types: sparse and dense inverse, partition, stale handles, refinement of `EntityHandles`, archetypes and columns | holds |

### Bounds, and why they are enough

* Four systems (`MaxSystems`) and three levels (`MaxDepth`) give every way a
  tuple or sequence can sit before, inside and after another; the second call
  gives schedules whose root batch is joined later, also after a run. Four
  are also a gate of two before a batch of two. The single threaded executor is
  deterministic but for panics and calls; two runs find a gate left wrong. What
  more systems would do is a matter of the proofs, which have no bound.
* Two workers are the least that race at a gate, steal, and disagree about the
  counter; the second run is what finds a gate or a counter left wrong by the
  first. Stealing from a deque needs three systems in the root batch: the
  stolen batch leaves one behind, hence the plan of `multi_safety`. Views need a
  join, of two. Liveness needs a gate that opens a batch of two, one for each
  worker.
* `Usize` = 8 is more than any run has systems (`WidthAssumption`), in
  `workgroups` more than all runs have, and small enough that below zero is not
  a number TLC could mistake for a large count.
* Five boxes are two types twice replaced and one once; the plan of `resources`
  has a reader beside a chain writer, reader, writer, so that the writers are
  only ordered through the reader between them.
* Two groups are the least of which one is unparked for by the other, or takes
  its label. One thread each, or none: what two threads of a group do to each
  other is in `Workgroup`. Two runs give each group one, or one group two.
* Three entities are the least where the despawned, the last living and a
  bystander differ. Two generations and three despawns wrap the generation
  once with a handle of every age out. `Capacity` 1 has `insert` both write and
  push. Two `add_comp` calls are one that makes an archetype and one that finds
  it, with the types in either order, or makes another; a third only repeats
  the second.
* `CHECK_DEADLOCK FALSE` where the system may really stop: the bound on calls
  or runs is reached, the client has shut down, or everything sleeps.

### Fairness

`Spec` has weak fairness of the main thread's steps inside a call and of each
worker: the operating system schedules every runnable thread. Nothing is fair
about spurious wakeups, panics or the client's calls. A worker that is between
its loops is always enabled, so weak fairness is enough; in particular the
probabilistic choice of a victim needs none, as a worker that breaks out with
`tasks # 0` starts again. `WorkgroupsSpec` assumes the same of the main thread
and of the workers of all groups. `ResourcesSpec`, `MemorySpec` and the world
state safety only.

### What the violations show

1. **Lost wakeup** (multi.rs:44, workgroups.rs:194-204). A worker stores Ready
   after it has seen the counter at zero. If every worker is between the two
   when `execute` looks for workers to unpark, it unparks none; each parks with
   the run's tasks in the injector, and `full_sync` never returns.
   `SyncTerminatesUnlessAsleep` shows that this state, `Asleep`, is the only
   way it can fail to.
2. **Subtraction underflow** (multi.rs:32-38, workgroups.rs:194). A worker that
   settles before the `fetch_add` computes `prev - tasks_done` with
   `prev < tasks_done`: a panic under overflow checks, a wrapped and harmless
   value without (`CounterOK`).
3. **Overlapping runs** share the gates, so a batch can be released by two
   counts of one system.
4. **Visibility at a join** (multi.rs:79). The gate's `fetch_add(1, Acquire)`
   releases nothing, so the worker that counts last has no happens-before edge
   from those that counted earlier, and the batch it pushes is not guaranteed
   to see what they wrote. One release makes it right (AcqRel). `LastVisible`
   shows what is left: the one that counted last is seen, so a chain of single
   systems is safe; `MainSees` and `RunsVisible` show that nothing is lost past
   a `full_sync`.
5. **An item without systems in an `.order()`** cuts the rest of the sequence
   off: the next trigger waits for nobody and nobody points at it.

`tests/basic_quick_0.rs:29-31` calls `full_shutdown` right after `run`. The
workers may then all exit before they have looked at the injector again, so
that the run never happens; `ShutdownAllOrNothing` says that this or a complete
run are the only outcomes.

`SyncEndsUnlessStuck` names the ways in which `full_sync` waits for ever over
several groups: the group it is at has tasks left and its threads are none, have
ended, or sleep with no unpark on its way. `SyncCoversAttached` and
`ShutdownCoversAttached` are about attached groups only, as the code knows of no
others: with a label used again, or a second `WorkgroupHandler` installed, work
may be under way, and threads alive, after both have returned.

## 4. The proofs

TLAPS checks every leaf of the proofs, for every value of the constants that
satisfies the assumptions named in the modules.

### The builder

From `BoundsAssumption` (any natural bounds), of `StepsSpec`:

| Theorem | States |
|---|---|
| `BuilderTypeCorrect` | `BuilderTypeOK` |
| `BuilderWellFormed` | `WellFormed`: the graph of every plan is one both executors can run |
| `BuilderOrderExact` | `OrderExact`: it orders what `.order()` says, and nothing else |

`BuilderInv`, the inductive invariant, has two parts. The first is about the
graph as it is, in the middle of a call too. Edges lead to larger keys, one
dependent each, and the vector of associates is in key order (`EdgesInv`);
batches partition the systems (`BatchInv`); the gate of a trigger `t` waits for
as many systems as point at it, and the system before it, `t - 1`, is one of
them (`GateInv`); a batch that goes on after a later trigger does so only after
all the batch of that trigger (`NestedInv`). `DeclaredInv` says that every
system of a batch is declared after the same systems: those that open its gate
and what those are declared after (`Cover`). From there `OrderExact` is an
induction over keys, as everything points upwards.

The second part, `CallInv`, is why the next piece keeps the first. Each `.order()`
that is being read is a level with its rank, its trigger and what it is ordered
after. A rank is of systems that nothing waits for yet, each in it once, and its
cover is all that its item has read so far, with what that is ordered after
(`RankInv`): so a trigger that waits for the rank waits for the whole item. The
trigger of a level has no batch around it that goes on after it (`Outermost`),
triggers grow from level to level (`LevelInv`, `CallInv`), and between two items
the last system of all is in the last rank, which no enclosing rank shares
(`LastInv`).

### The single threaded executor

From the same and `RunsAssumption`, of `SingleSpec`, for any plans added at any
time between runs, and any systems that panic:

| Theorem | States |
|---|---|
| `SingleTypeCorrect` | `SingleTypeOK`; with it, that no gate counts further than it waits for |
| `SystemsRunInKeyOrder` | `RunsInKeyOrder` |
| `SystemsRunAsDeclared` | `RunsDeclaredOrder`, an action property |
| `RunsAreComplete` | `RunIsComplete` |
| `GatesAreClosed` | `GatesClosedBetweenRuns` |
| `RunsKeepTheGraph` | `WellFormed` and `OrderExact`, with runs between the calls |

None of these is inductive without the others. `RunInv` adds to `BuilderInv` that
a run has run `1..n`, that the stack has exactly the systems of the batches whose
trigger is at most `n + 1` and that have not run, in descending order
(`QueueInv`), and that a gate still closed has counted those of its systems that
are at most `n` (`Counted`). As the last system to open the gate of `t` is
`t - 1`, the gate opens when `t` is the smallest key left, and by `NestedInv`
the batch pushed then is below whatever else is on the stack. So the next system
to pop is `n + 1`, and the stack is empty only when there is none.

### The multithreaded executor

From `GraphAssumption` (the graph is well formed, which `BuilderWellFormed` proves
of what the builder makes), `NumThreadsAssumption` (any
number of threads, zero included), `UsizeAssumption` and `WidthAssumption` (the
counter's width exceeds the number of systems), and any set of panicking
systems:

| Theorem | States |
|---|---|
| `TypeCorrect`, `UnsyncedTypeCorrect` | `TypeOK`, with and without `full_sync` between runs |
| `GatesOpenOncePerRun` | `IInv`, the inductive invariant |
| `TasksConserved` | `Conservation`: stealing loses and duplicates nothing |
| `CounterCorrect` | `CounterOK`: what the counter holds, modulo its width |
| `SyncIsSound` | `SyncSound`: when `full_sync` returns, everything has run, and the gates are zero |
| `DependenciesRunFirst` | `DependenciesHaveRun`, which holds with a `full_sync` between runs and is violated without (`multi_overlap`) |
| `ShutdownNeverCutsShort` | `ShutdownAllOrNothing`: shutting down without a sync loses a whole run or nothing of it |
| `ImplementsOrderedRun` | `RunsInOrder`: the executor refines `OrderedRun` |
| `MainSeesAll` | `MainSees`, of `MemorySpec` |
| `RunsBeforeSeen` | `RunsVisible`, of `MemorySpec` |
| `LastToCountSeen` | `LastVisible`, of `MemorySpec` |

The theorems but the last three are of `Safety`, that is of `Spec` without its
fairness.

None of these is inductive alone: that a gate opens once needs that nobody
counts at it twice, which needs that no system is dispatched twice in a run,
which needs that no gate opens twice, and that the previous run is over. `IInv`
(module `MultiExecutorInv`) closes the circle:

* `RunsInv`: a system is dispatched at most once per run, and everything of the
  run before is settled. A new run may begin only when all is settled, because
  the main thread has seen zero: `CounterOK` and `WidthAssumption` turn that
  into "nothing is left", as fewer tasks than the width are ever unsettled.
* `GateInv`, the heart: `Counted(t)` is defined from who has returned, not from
  the gate. Until all predecessors have counted, the gate holds their number
  and no system of the batch is released; while one worker pushes, the gate
  holds the full count, that worker has exactly the rest of the batch in hand,
  and no other pushes the same batch; after that the gate is zero and the whole
  batch released. `SystemReturns`, `CountAtNext`, `PushDependent` and
  `ResetGate` each move one gate from one of these to the next.
* `WorkerInv` and `CompletedInv` tie a worker's place in the code to the task it
  holds, `RootInv` the main thread's to what is left of the root batch.
* `Conservation` says that every dispatched task is in exactly one place, so a
  batch stolen is a batch gone; it lets the counter's sums be of disjoint sets.

`MultiExecutorWorker` proves once (`QuietStep`) that a step which moves tasks but
neither dispatches, runs nor counts any keeps all of it; the stealing, parking
and waking steps are instances. The refinement maps `started` of `OrderedRun` to the
tasks that a worker is in or whose system has returned, and `finished` to the
latter; a step of `OrderedRun` is a worker taking a task to run, a system
returning or a run beginning.

`ShutInv` adds what shutting down without a sync relies on. `RestInv`: when no
worker is at work any more (all are past a counter of zero), what has been
counted out is either nothing or the whole run. A worker only rests if its
`fetch_sub` left zero, so the last to rest has seen the counter at zero when
nobody else held a task; by `CounterOK` the run is then either all settled, or
not counted in yet and not begun. `JoinedInv` says that the workers already
joined have exited, so that when the call returns all rest.

`MInv`, over the views, says of each place what it carries: a worker has seen
all it holds (`OwnSeen`), the counter all that is settled (`SettledSeen`), a
dispatched task all runs before it and one of the systems it waits for, the one
whose worker pushed it (`CarriedOn`). The steps are those of `MultiExecutor`, so
`ShutInv` holds of `MemorySpec` as well; views only grow, which takes care of
every step that pushes nothing (`SteadyStep`).

### The resources

From `ArgsAssumption` and `AfterAssumption`, of `ResourcesSpec`, for any systems,
arguments and order between them:

| Theorem | States |
|---|---|
| `ResourcesTypesCorrect` | `ResourcesTypeOK`: a pointer is to a box of the type it is cast to, though `fetch_data` checks nothing |
| `CacheFresh` | `ArgumentsLive`: it is the box in the store now, unless its type was inserted or removed after the last whole `cache_inputs` |
| `WritersExclusive` | `Exclusive`, for a plan that orders systems that conflict, directly or through others |

The invariant keeps, for every cached pointer, that it is its type's box or that
the type has been touched since, and for every system in progress that its
pointers are those of its cache or of the store, which does not change while
anything runs. Exclusiveness is a matter of order: by induction over `After` in
the form of a set closed under it (`Upstream`), two systems in progress are
ordered neither way, so they share no type that one of them writes, and boxes of
different types differ.

### The ECS world

From `CapacityAssumption`, `GenerationsAssumption` (at least one) and natural
bounds on entities and despawns, of `EntitySpec`:

| Theorem | States |
|---|---|
| `EntityInvariant`, `EntityTypeCorrect` | the inductive invariant `EInv`, `EntityTypeOK` |
| `SparseIsInverse` | `PointersInverse` |
| `StaleHandlesRefused` | `StaleRefused` |
| `PartitionIsLiving` | `PartitionSound` |
| `ImplementsEntityHandles` | `EntityStep`: the refinement of `EntityHandles` |
| `WorldHasEntities` | `EntitySpec`, of `WorldSpec`: the five above hold there too |
| `WorldTypeCorrect` | `WorldTypeOK`, of `WorldSpec` |
| `RowsBelongTogether` | `RowsAligned`, of `WorldSpec` |
| `ArchetypesAreDistinct` | `ArchetypesDistinct`, of `WorldSpec` |

`EInv` adds to the properties that every dense entry, free or living, has the
generation of its id's despawns (`Placed`), and that a handle is at most as old
as its id and alive if as old (`GivenAged`). A stale handle then differs from
its id's entry by at least one and fewer than all generations, so not modulo
their number (`SameGeneration`).

`WInv` is about ids, bitsets and columns. Ids are injective and below the number
of registered types (`IdsOK`), so a new type never gets a bit that an archetype
has, and what is known of an archetype outlives the ids (`ArchetypeKeeps`).
`sparse` leads each bit of an archetype to a column of its own, in which all
components are of that bit's type (`Sorted`) and, in an archetype of two types,
row `r` came with the `r`-th entity (`Rows`); every call in an archetype left a
component of each type (`Whole`). Two archetypes with components of the same
types would have the same bitset, and `FindArchetype` makes none that is there.

### All workgroups

From `WorkgroupsAssumption` (any labels, numbers of threads, groups and runs; a
schedule of at least one system and fewer than the counter's width), of
`WorkgroupsSpec`:

| Theorem | States |
|---|---|
| `WorkgroupsTypeCorrect` | `WorkgroupsTypeOK` |
| `ShutdownReachesAll` | `ShutdownCoversAttached` |
| `SyncReachesAll` | `SyncCoversAttached`, if `MaxRuns * Systems < Usize`: all that is ever run does not fill the counter |

`StopInv` says that `full_shutdown` has left no handle in the groups it has been
at, and `ThreadsOK` that a thread without handle has ended. For `full_sync`,
`Units(g)` are the tasks of a group, in its queues or with its workers, as a set:
`WorkerUnits` shows that taking tasks moves them and settling takes away as many
as it subtracts. `CountInv` then ties the counter to their number, less those
`execute` has pushed and not counted in yet, so that a counter seen at zero
outside of `execute` means that nothing is left. `SyncInv` is what the loop
gains: the groups it has been at have no tasks, and get none while the main
thread is in the loop, since only `run` pushes.

### Only model-checked

* Liveness (`SyncTerminatesUnlessAsleep`, `ShutdownTerminates`,
  `SyncEndsUnlessStuck`, `ShutdownEnds`), which is out of the prover's reach.
* `BuilderImplements`: `ScheduleBuilder` recurses over plans, and what a recursive
  definition computes cannot be proved here. The proofs are about
  `BuilderSteps`, which never looks at a plan as a whole.

## 5. Not modelled

* What follows undefined behaviour: the app changed, or dropped, while a run is
  not synced; a stale cached pointer that is used; two systems that write one
  resource unordered. The modules say when each can be excluded.
* Several schedules in one app: their groups are in `Workgroups`, but a resource
  shared by two schedules that run at once is ordered by nothing.
* A schedule with no systems on the multithreaded executor (`root.unwrap()` on
  `None`), and runs on labels that are not there: a panic in the caller's thread
  that changes nothing. `Executor::Custom`, which is client code.
* Of `add_comp`: entities that are not alive (the code does not look; neither
  does the model) are added like others, and rows of despawned entities stay,
  as in the code. With one type twice, `add_comp::<T, T>`, an archetype gets two
  columns of which later calls fill only the second; the model does the same,
  and `RowsAligned` speaks of archetypes of two types. Nothing reads columns.
* More than 64 component types (`1 << off` overflows): `TypesAssumption`.
* `edges_to_dot`, the derive macro and the facade crates, which have no state.

## 6. Plan

1. *Core* (done): builder, single threaded executor, workgroup, multithreaded
   executor, their composition, and the first proofs.
2. *ECS world* (done): handles, the dense and the sparse vector, archetypes,
   the refinement of `EntityHandles` and its proof.
3. *Resources and cache* (done): boxes, arguments, the cache, exclusiveness over
   the order of `OrderedRun`, with proofs; the registry of `App`.
4. *Memory* (done): views per thread, what the Acquire-only gate lets be seen,
   with proofs.
5. *All workgroups* (done): labels, replaced groups and handlers, calls after
   `full_shutdown`.
6. *Proofs* (done): the safety properties of all of these, for every value of
   the constants.
7. Left: the single threaded executor as an implementation of `OrderedRun`
   (whose systems would have to change between runs); of the resources, the
   steps of a run as an action property; a resource shared by two schedules that run at once, which needs the
   client's own ordering stated first.
