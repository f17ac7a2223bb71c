-------------------------- MODULE MCScheduleBuilder --------------------------
(***************************************************************************)
(* ScheduleBuilder on every plan that nests tuples and sequences of two or *)
(* three items with at most MaxLeaves systems and MaxDepth (up to two)     *)
(* levels, with () among the leaves.                                       *)
(***************************************************************************)
EXTENDS ScheduleBuilder

CONSTANTS MaxLeaves, MaxDepth

ItemsOf(plans, n) ==
    UNION {{<<a, b>> : a \in plans[i], b \in plans[n - i]} : i \in 0..n}
    \cup UNION {{<<a, b, c>> : a \in plans[i], b \in plans[j], c \in plans[n - i - j]} :
                <<i, j>> \in {p \in (0..n) \X (0..n) : p[1] + p[2] <= n}}

\* Plans by their number of systems: those of level d, made of plans with less.
Level(d, plans) ==
    IF d > MaxDepth THEN plans
    ELSE [n \in 0..MaxLeaves |->
            plans[n] \cup {[kind |-> k, items |-> items] : k \in {"tuple", "order"},
                                                           items \in ItemsOf(plans, n)}]

Plans0 == [n \in 0..MaxLeaves |-> CASE n = 1 -> {[kind |-> "system"]}
                                    [] n = 0 -> {[kind |-> "empty"]}
                                    [] OTHER -> {}]
Plans1 == Level(1, Plans0)
Plans2 == Level(2, Plans1)

MCPlans == UNION {Plans2[n] : n \in 1..MaxLeaves}
=============================================================================
