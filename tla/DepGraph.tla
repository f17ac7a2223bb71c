------------------------------- MODULE DepGraph -------------------------------
(***************************************************************************)
(* The dependency graph of one schedule (schedule/graph.rs, the            *)
(* dependency_count of systems/entry.rs), and what the two executors       *)
(* expect of it.                                                           *)
(*                                                                         *)
(* A plan's parallel blocks become batches: the first system of a block is *)
(* its trigger, the others hang off it as associates, and only the trigger *)
(* is a dependent of the systems the block waits for.  The constants are   *)
(* the fields the executors read.  Schedule instantiates this module with  *)
(* the graphs that are built, of which BuilderProofs proves GraphOK; the   *)
(* multithreaded executor assumes it.                                      *)
(***************************************************************************)
EXTENDS Naturals, Sequences, FiniteSets, SequencesExt

CONSTANTS
    Systems,          \* the keys of Schedule.systems
    root,             \* DependencyGraph.root, after the unwrap() of multi.rs
    dependents,       \* edges[s].dependents, a sequence of keys
    associates,       \* edges[s].associates, a sequence of keys
    dependency_count  \* SystemEntry.dependency_count

-----------------------------------------------------------------------------
\* A trigger and its associates: what one opened gate releases.
Batch(t) == {t} \cup Range(associates[t])

\* The order in which dispatch_system is called for a batch when its gate
\* opens: the associates in reverse, then the trigger.
DispatchOrder(t) == Reverse(associates[t]) \o <<t>>

\* The root batch is dispatched the other way round: the root, then its
\* associates in order.
RootOrder == <<root>> \o associates[root]

\* The systems whose last gate increment releases t.
Preds(t) == {p \in Systems : t \in Range(dependents[p])}

\* The batches of a schedule are named by their triggers.
Triggers == {root} \cup UNION {Range(dependents[s]) : s \in Systems}

\* The systems that must have run before s may start: those its batch waits
\* for.
Before == [s \in Systems |-> UNION {Preds(t) : t \in {u \in Triggers : s \in Batch(u)}}]

-----------------------------------------------------------------------------
(* What an executor relies on. *)

\* Keys only name systems, and no vector names one twice.
EdgesOK ==
    /\ root \in Systems
    /\ dependents \in [Systems -> Seq(Systems)]
    /\ associates \in [Systems -> Seq(Systems)]
    /\ \A s \in Systems : IsInjective(dependents[s]) /\ IsInjective(associates[s])

\* Every system is in exactly one batch, and the root is in none but its own.
BatchesOK ==
    /\ \A s \in Systems : \E t \in Triggers : s \in Batch(t)
    /\ \A t, u \in Triggers : t # u => Batch(t) \cap Batch(u) = {}
    /\ \A t \in Triggers : t \notin Range(associates[t])

\* The gate of a trigger opens after as many increments as there are systems
\* pointing at it; nothing points at the root.
CountsOK ==
    /\ Preds(root) = {}
    /\ \A t \in Triggers \ {root} :
          /\ dependency_count[t] = Cardinality(Preds(t))
          /\ dependency_count[t] > 0

\* single.rs:62-63: "technically there should only be one dependent pointer".
OneDependent == \A s \in Systems : Len(dependents[s]) <= 1

GraphOK ==
    /\ IsFiniteSet(Systems)
    /\ dependency_count \in [Systems -> Nat]
    /\ EdgesOK
    /\ BatchesOK
    /\ CountsOK
    /\ OneDependent
=============================================================================
