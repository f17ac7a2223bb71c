---------------------------- MODULE ScheduleBuilder ----------------------------
(***************************************************************************)
(* How Schedule::add_systems turns a plan, a nest of tuples and .order()   *)
(* sequences with systems at the leaves, into the dependency graph the     *)
(* executors run (schedule/mod.rs, systems/variadics): the whole call as   *)
(* one step that recurses over the plan.                                   *)
(*                                                                         *)
(* A plan is a record: [kind |-> "system"], [kind |-> "empty"] for (), and *)
(* [kind |-> "tuple" or "order", items |-> a sequence of plans].           *)
(***************************************************************************)
EXTENDS Schedule

CONSTANT Plans  \* the arguments add_systems is called with

-----------------------------------------------------------------------------
(* What a plan says: the meaning of tuples and .order(), by itself. *)

RECURSIVE Size(_)
Size(plan) ==
    CASE plan.kind = "system" -> 1
      [] plan.kind = "empty"  -> 0
      [] OTHER -> FoldLeft(LAMBDA n, item : n + Size(item), 0, plan.items)

\* The pairs of systems that plan orders, when its leaves get the keys after
\* base: every leaf of an earlier item of an .order() precedes every leaf of
\* a later one.
RECURSIVE OrderPairs(_, _)
OrderPairs(plan, base) ==
    IF plan.kind \in {"system", "empty"} THEN {}
    ELSE LET Start(i) == base + FoldLeft(LAMBDA n, item : n + Size(item), 0,
                                         SubSeq(plan.items, 1, i - 1))
             KeysOf(i) == Start(i) + 1 .. Start(i) + Size(plan.items[i])
             Inner == UNION {OrderPairs(plan.items[i], Start(i)) : i \in DOMAIN plan.items}
             Across == UNION {KeysOf(i) \X KeysOf(j) :
                              <<i, j>> \in {p \in (DOMAIN plan.items) \X (DOMAIN plan.items) : p[1] < p[2]}}
         IN  IF plan.kind = "order" THEN Inner \cup Across ELSE Inner

-----------------------------------------------------------------------------
(* Destructure, by recursion over the plan. *)

RECURSIVE Destructure(_, _)

\* A tuple threads everything through its items.
DestructureTuple(items, env) == FoldLeft(LAMBDA e, item : Destructure(item, e), env, items)

\* Mutant of the operator below: the trigger of an item survives into the
\* next one, which then joins its batch instead of waiting for it.
SequenceItem_KeepTrigger(acc, item) ==
    LET out == Destructure(item, acc.env)
    IN  [env |-> [out EXCEPT !.last = out.current, !.current = <<>>],
         old |-> IF acc.old = None THEN out.trigger ELSE acc.old]

\* One item of a sequence: its rank becomes the last rank of the next item,
\* and the first trigger seen is the one the enclosing block keeps.
SequenceItem(acc, item) ==
    LET out == Destructure(item, acc.env)
    IN  [env |-> [out EXCEPT !.last = out.current, !.current = <<>>, !.trigger = None],
         old |-> IF acc.old = None THEN out.trigger ELSE acc.old]

DestructureSequence(items, env) ==
    LET end == FoldLeft(SequenceItem, [env |-> [env EXCEPT !.current = <<>>], old |-> env.trigger],
                        items)
    IN  [env EXCEPT !.schedule = end.env.schedule,
                    !.current  = @ \o end.env.last,
                    !.trigger  = end.old]

Destructure(plan, env) ==
    CASE plan.kind = "system" -> RegisterSystem(env)
      [] plan.kind = "empty"  -> env
      [] plan.kind = "tuple"  -> DestructureTuple(plan.items, env)
      [] plan.kind = "order"  -> DestructureSequence(plan.items, env)

-----------------------------------------------------------------------------
\* The schedule after add_systems(plan): the root is the standing trigger.
Added(s, plan) ==
    Destructure(plan, [schedule |-> s, last |-> <<>>, trigger |-> s.root,
                       current |-> IF s.root = None THEN <<>> ELSE <<s.root>>]).schedule

AddSystems(plan) ==
    /\ calls < MaxCalls
    /\ calls' = calls + 1
    /\ schedule' = Added(schedule, plan)
    /\ declared' = declared \cup OrderPairs(plan, Len(schedule.dependency_count))

BuilderSpec == BuilderInit /\ [][\E plan \in Plans : AddSystems(plan)]_builderVars
=============================================================================
