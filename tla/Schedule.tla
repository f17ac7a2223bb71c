-------------------------------- MODULE Schedule --------------------------------
(***************************************************************************)
(* The schedule that Schedule::add_systems builds and the executors run:   *)
(* its systems with their gates and the dependency graph                   *)
(* (schedule/mod.rs, schedule/graph.rs, systems/entry.rs), what adding one *)
(* system does to it, and what must hold of it.  Two modules say how a     *)
(* plan becomes a schedule: ScheduleBuilder reads the whole plan by        *)
(* recursion, BuilderSteps reads it one piece at a time.                   *)
(*                                                                         *)
(* Keys are 1, 2, ... in insertion order, as slotmap hands them out when   *)
(* nothing is ever removed; the vectors of a schedule are indexed by key.  *)
(***************************************************************************)
EXTENDS Naturals, Sequences, FiniteSets, SequencesExt

CONSTANT MaxCalls  \* bound on the number of add_systems calls

None == 0  \* no key: the root of an empty schedule, a missing trigger

VARIABLES schedule,  \* systems (dependency_count, dependency_gate) and dep_graph
          calls,     \* history: how many times add_systems was called
          declared   \* history: the pairs <<a, b>> the plans put in order
builderVars == <<schedule, calls, declared>>

NewSchedule == [dependency_count |-> <<>>, dependency_gate |-> <<>>,
                dependents |-> <<>>, associates |-> <<>>, root |-> None]

BuilderInit ==
    /\ schedule = NewSchedule
    /\ calls = 0
    /\ declared = {}

-----------------------------------------------------------------------------
(* One system.  `env` holds the arguments destructure() passes down by      *)
(* reference: schedule, last (last_rank), current (current_rank) and        *)
(* trigger (current_trigger_node).                                          *)

\* Mutant of the operator below: the gate count ignores the size of the rank before.
RegisterSystem_CountOne(env) ==
    LET s   == env.schedule
        key == Len(s.dependency_count) + 1
        Push(edges, nodes) == [n \in DOMAIN edges |->
                                 IF n \in nodes THEN Append(edges[n], key) ELSE edges[n]]
        isTrigger == env.trigger = None
    IN  [env EXCEPT !.schedule = [s EXCEPT
            !.dependency_count = Append(@, IF env.last = <<>> THEN 0 ELSE 1),
            !.dependency_gate  = Append(@, 0),
            !.root       = IF isTrigger /\ @ = None THEN key ELSE @,
            !.associates = Append(IF isTrigger THEN @ ELSE Push(@, {env.trigger}), <<>>),
            !.dependents = Append(IF isTrigger THEN Push(@, Range(env.last)) ELSE @, <<>>)],
                    !.current = Append(@, key),
                    !.trigger = IF isTrigger THEN key ELSE @]

\* A system: insert its entry and connect it to the trigger or, as the new
\* trigger, to every system of the rank before.
RegisterSystem(env) ==
    LET s    == env.schedule
        key  == Len(s.dependency_count) + 1
        Push(edges, nodes) == [n \in DOMAIN edges |->
                                 IF n \in nodes THEN Append(edges[n], key) ELSE edges[n]]
        isTrigger == env.trigger = None
        grown == [s EXCEPT
            !.dependency_count = Append(@, Len(env.last)),
            !.dependency_gate  = Append(@, 0),
            !.root       = IF isTrigger /\ @ = None THEN key ELSE @,
            !.associates = Append(IF isTrigger THEN @ ELSE Push(@, {env.trigger}), <<>>),
            !.dependents = Append(IF isTrigger THEN Push(@, Range(env.last)) ELSE @, <<>>)]
    IN  [env EXCEPT !.schedule = grown,
                    !.current  = Append(@, key),
                    !.trigger  = IF isTrigger THEN key ELSE @]

-----------------------------------------------------------------------------
Keys == DOMAIN schedule.dependency_count

\* The graph of the schedule, as the executors read it.
G == INSTANCE DepGraph WITH
        Systems          <- Keys,
        root             <- schedule.root,
        dependents       <- schedule.dependents,
        associates       <- schedule.associates,
        dependency_count <- schedule.dependency_count

\* The systems made to run, directly or not, before s.
Ancestors[s \in Keys] == G!Before[s] \cup UNION {Ancestors[p] : p \in G!Before[s]}

\* The pairs <<a, b>> where a is made to run before b.
Precedes == UNION {Ancestors[s] \X {s} : s \in Keys}

(* Type correctness: the vectors grow together, and declared only names     *)
(* systems there are.                                                       *)
BuilderTypeOK ==
    /\ calls \in 0..MaxCalls
    /\ schedule.root \in Keys \cup {None}
    /\ schedule.dependency_count \in Seq(Nat)
    /\ DOMAIN schedule.dependency_gate = Keys
    /\ DOMAIN schedule.dependents = Keys
    /\ DOMAIN schedule.associates = Keys
    /\ declared \subseteq Keys \X Keys

(* What both executors assume of a graph holds of every graph add_systems   *)
(* builds: batches partition the systems and are reachable, the gate count  *)
(* of a trigger is the number of systems that will increment it, and, as    *)
(* single.rs:62-63 puts it, every system has at most one dependent.         *)
WellFormed == Keys # {} => G!GraphOK

(* The graph orders exactly the pairs of systems the plans put in .order(): *)
(* nothing declared is lost when sequences and tuples nest, and no system   *)
(* outside an .order() is made to wait (macros.rs:41-48).                   *)
OrderExact == Precedes = declared

(* single.rs:16-17: "The dependency graph builder provides you with a       *)
(* slotmap, directed acyclic graph, and a single root to start from": every *)
(* system is in a batch that the root leads to.                             *)
SingleRoot == \A s \in Keys : \E t \in G!Triggers : s \in G!Batch(t)
=============================================================================
