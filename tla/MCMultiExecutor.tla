---------------------------- MODULE MCMultiExecutor ----------------------------
(***************************************************************************)
(* Instances of MultiExecutor on schedules that ScheduleBuilder builds:    *)
(* the constants of DepGraph are the graph add_systems makes of a plan.    *)
(***************************************************************************)
EXTENDS MultiExecutorInv

B == INSTANCE ScheduleBuilder
        WITH Plans <- {}, MaxCalls <- 0, schedule <- {}, calls <- 0, declared <- {}

System == [kind |-> "system"]
Tuple(items) == [kind |-> "tuple", items |-> items]
Order(items) == [kind |-> "order", items |-> items]
Pair == Tuple(<<System, System>>)

Build(plan) == B!Added(B!NewSchedule, plan)

\* (a, b), then c: a batch of two and a join.
Join == Build(Order(<<Pair, System>>))

JoinSystems == DOMAIN Join.dependency_count
JoinRoot == Join.root
JoinDependents == Join.dependents
JoinAssociates == Join.associates
JoinCount == Join.dependency_count

\* (a, b, c), then d: enough in the injector for a batch to be stolen.
Fork == Build(Order(<<Tuple(<<System, System, System>>), System>>))

ForkSystems == DOMAIN Fork.dependency_count
ForkRoot == Fork.root
ForkDependents == Fork.dependents
ForkAssociates == Fork.associates
ForkCount == Fork.dependency_count

\* a, then (b, c): a gate that opens a batch of two.
Fan == Build(Order(<<System, Pair>>))

FanSystems == DOMAIN Fan.dependency_count
FanRoot == Fan.root
FanDependents == Fan.dependents
FanAssociates == Fan.associates
FanCount == Fan.dependency_count
=============================================================================
