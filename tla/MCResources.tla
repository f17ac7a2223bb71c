------------------------------ MODULE MCResources ------------------------------
(***************************************************************************)
(* Resources on a schedule like that of tests/basic_quick_0.rs:101-109:    *)
(* a reader beside an .order() of a writer, a reader of what it writes and *)
(* another writer, so that the writers are only ordered through the reader.*)
(***************************************************************************)
EXTENDS Resources

B == INSTANCE ScheduleBuilder
        WITH Plans <- {}, MaxCalls <- 0, schedule <- {}, calls <- 0, declared <- {}

System == [kind |-> "system"]
Plan == [kind |-> "tuple", items |->
            <<System, [kind |-> "order", items |-> <<System, System, System>>]>>]
Built == B!Added(B!NewSchedule, Plan)

Graph == INSTANCE DepGraph WITH
            Systems          <- DOMAIN Built.dependency_count,
            root             <- Built.root,
            dependents       <- Built.dependents,
            associates       <- Built.associates,
            dependency_count <- Built.dependency_count

MCSystems == DOMAIN Built.dependency_count
MCAfter == Graph!Before
MCTypes == {"ReadResource", "WriteResource"}

Arg(access, type) == [access |-> access, type |-> type]
MCArgs == <<<<Arg(Ref, "ReadResource")>>,
            <<Arg(Ref, "ReadResource"), Arg(Mut, "WriteResource")>>,
            <<Arg(Ref, "WriteResource")>>,
            <<Arg(Mut, "WriteResource")>>>>

\* What Exclusive asks of a plan: each system passes the check of fetch_args,
\* and the plan declares an order for those that conflict.
ASSUME PlanAssumption ==
    /\ \A s \in MCSystems : Disjoint(s)
    /\ \A s, u \in MCSystems : s < u /\ Conflict(s, u) => <<s, u>> \in B!OrderPairs(Plan, 0)
=============================================================================
