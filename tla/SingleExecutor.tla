----------------------------- MODULE SingleExecutor -----------------------------
(***************************************************************************)
(* Schedule::run with the single threaded executor                         *)
(* (schedule/executors/single.rs): a stack of ready systems, and the gates *)
(* that release a batch once everything before it has run.  Runs           *)
(* interleave with add_systems calls, so the schedule that runs is one     *)
(* that BuilderSteps built.                                                *)
(***************************************************************************)
EXTENDS BuilderSteps

CONSTANTS MaxRuns,  \* bound on the number of runs
          MayPanic  \* whether a system may panic (and the caller catch it)

VARIABLES executor,  \* Schedule.executor is Some: run() takes it and puts it back
          queue,     \* the local queue of execute(), a stack of keys
          running,   \* whether execute() is on the call stack
          ran,       \* history: the systems the current or last run has run
          runs       \* history: how many runs have begun
runVars == <<executor, queue, running, ran, runs>>
singleVars == <<builderVars, stepVars, runVars>>

ASSUME RunsAssumption == MaxRuns \in Nat /\ MayPanic \in BOOLEAN

-----------------------------------------------------------------------------
SingleInit ==
    /\ StepsInit
    /\ executor = TRUE
    /\ queue = <<>>
    /\ running = FALSE
    /\ ran = <<>>
    /\ runs = 0

\* app.add_systems between two runs.
AddSystemsIdle ==
    /\ ~running
    /\ StepsNext
    /\ UNCHANGED runVars

\* Schedule::run up to the loop of execute().  With no executor it panics
\* before it changes anything; with no root the queue stays empty.
Run ==
    /\ ~running /\ executor /\ ~adding
    /\ runs < MaxRuns
    /\ runs' = runs + 1
    /\ executor' = FALSE
    /\ running' = TRUE
    /\ ran' = <<>>
    /\ queue' = IF schedule.root = None THEN <<>> ELSE G!DispatchOrder(schedule.root)
    /\ UNCHANGED <<builderVars, stepVars>>

\* Mutant of the operator below: the gate is not reset for the next run.
CountGate_NoReset(acc, i) ==
    LET count == acc.gate[i] + 1
    IN  [gate  |-> [acc.gate EXCEPT ![i] = count],
         queue |-> IF count = schedule.dependency_count[i]
                   THEN acc.queue \o G!DispatchOrder(i) ELSE acc.queue]

\* Mutant of the operator below: the trigger is pushed under its associates.
CountGate_TriggerFirst(acc, i) ==
    LET count == acc.gate[i] + 1
        open  == count = schedule.dependency_count[i]
    IN  [gate  |-> [acc.gate EXCEPT ![i] = IF open THEN 0 ELSE count],
         queue |-> IF open THEN acc.queue \o <<i>> \o Reverse(schedule.associates[i]) ELSE acc.queue]

\* Mutant of the operator below: the first to count opens the gate.
CountGate_First(acc, i) ==
    LET count == acc.gate[i] + 1
        open  == count <= schedule.dependency_count[i]
    IN  [gate  |-> [acc.gate EXCEPT ![i] = IF open THEN 0 ELSE count],
         queue |-> IF open THEN acc.queue \o G!DispatchOrder(i) ELSE acc.queue]

\* The finished system counts at the gate of dependent i; the last one to
\* count pushes the batch and resets the gate.
CountGate(acc, i) ==
    LET count == acc.gate[i] + 1
        open  == count = schedule.dependency_count[i]
    IN  [gate  |-> [acc.gate EXCEPT ![i] = IF open THEN 0 ELSE count],
         queue |-> IF open THEN acc.queue \o G!DispatchOrder(i) ELSE acc.queue]

\* One turn of the loop: pop a system, run it, count it at its dependents.
RunSystem ==
    /\ running /\ queue # <<>>
    /\ LET key == Last(queue)
           end == FoldLeft(CountGate, [gate |-> schedule.dependency_gate, queue |-> Front(queue)],
                           schedule.dependents[key])
       IN  /\ ran' = Append(ran, key)
           /\ queue' = end.queue
           /\ schedule' = [schedule EXCEPT !.dependency_gate = end.gate]
    /\ UNCHANGED <<executor, running, runs, calls, declared, stepVars>>

\* Mutant of the operator below: the executor survives the unwinding.
SystemPanics_KeepExecutor ==
    /\ MayPanic /\ running /\ queue # <<>>
    /\ executor' = TRUE
    /\ running' = FALSE
    /\ queue' = <<>>
    /\ UNCHANGED <<ran, runs, builderVars, stepVars>>

\* The popped system panics: execute() and run() unwind, so the executor is
\* never put back and the gates stay as they are.
SystemPanics ==
    /\ MayPanic /\ running /\ queue # <<>>
    /\ running' = FALSE
    /\ queue' = <<>>
    /\ UNCHANGED <<executor, ran, runs, builderVars, stepVars>>

\* The queue is empty: execute() returns and run() puts the executor back.
RunReturns ==
    /\ running /\ queue = <<>>
    /\ running' = FALSE
    /\ executor' = TRUE
    /\ UNCHANGED <<queue, ran, runs, builderVars, stepVars>>

SingleNext == AddSystemsIdle \/ Run \/ RunSystem \/ SystemPanics \/ RunReturns

SingleSpec == SingleInit /\ [][SingleNext]_singleVars

-----------------------------------------------------------------------------
(* Type correctness; the executor is out exactly while a run is on the      *)
(* stack or after one has unwound.                                          *)
SingleTypeOK ==
    /\ BuilderTypeOK
    /\ executor \in BOOLEAN /\ running \in BOOLEAN
    /\ runs \in 0..MaxRuns
    /\ queue \in Seq(Keys) /\ ran \in Seq(Keys)
    /\ running => ~executor
    /\ \A s \in Keys : schedule.dependency_gate[s] \in 0..schedule.dependency_count[s]

(* single.rs:37-40: "everything is nominal if all schedule run orderly",    *)
(* "1v1 -> 2v1 -> 3v1", "There is a bug if it is jumping around": whatever   *)
(* the plans, the systems run in the order they were written.               *)
RunsInKeyOrder == ran = [i \in 1..Len(ran) |-> i]

(* A run that returns has run every system the schedule had when it began   *)
(* exactly once (with RunsInKeyOrder), none left behind a gate.             *)
RunIsComplete == (running /\ queue = <<>>) => ToSet(ran) = Keys

(* A step that runs a system runs one that this run has not run yet, after  *)
(* everything the plans put before it: a gate that opens has been counted   *)
(* at by all that its batch is declared after (single.rs:66-67).            *)
RunsDeclaredOrder ==
    [][\A s \in Keys : ran' = Append(ran, s) =>
          /\ s \notin ToSet(ran)
          /\ \A a \in Keys : <<a, s>> \in declared => a \in ToSet(ran)]_singleVars

(* A schedule that can be run has all its gates closed: a run leaves no     *)
(* count behind for the next one, and one that unwound cannot be followed   *)
(* by another.                                                              *)
GatesClosedBetweenRuns == executor => \A s \in Keys : schedule.dependency_gate[s] = 0
=============================================================================
