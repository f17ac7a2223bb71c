------------------------------ MODULE BuilderSteps ------------------------------
(***************************************************************************)
(* Schedule::add_systems, one step per piece of the plan it reads.  The    *)
(* calls of destructure() nest as the plan does; a tuple hands everything  *)
(* it got to its items, so it takes no step of its own, and what is left   *)
(* is a stack with one frame per enclosing .order().  What holds in all    *)
(* behaviours holds for all plans, which is how BuilderProofs proves it;   *)
(* MCBuilder checks that the steps of a call add up to ScheduleBuilder's.  *)
(*                                                                         *)
(* Left to ScheduleBuilder is a () that is an item of an .order(): the     *)
(* code forgets the rank before it.                                        *)
(***************************************************************************)
EXTENDS Schedule

CONSTANTS MaxSystems,  \* bound on the number of systems
          MaxDepth     \* bound on how deep .order() nests

VARIABLES adding,   \* whether an add_systems call is on the stack
          last,     \* last_rank, as the innermost destructure() sees it
          current,  \* current_rank
          trigger,  \* current_trigger_node
          frames,   \* the enclosing .order()s: what each keeps while an item is read
          earlier,  \* history: the systems that all that is read now is ordered after
          start     \* history: how many systems there were when this item began
stepVars == <<adding, last, current, trigger, frames, earlier, start>>

ASSUME BoundsAssumption ==
    MaxCalls \in Nat /\ MaxSystems \in Nat /\ MaxDepth \in Nat

\* How many systems the schedule has.
Count == Len(schedule.dependency_count)

StepsInit ==
    /\ BuilderInit
    /\ adding = FALSE
    /\ last = <<>> /\ current = <<>> /\ trigger = None
    /\ frames = <<>> /\ earlier = {} /\ start = 0

-----------------------------------------------------------------------------
\* add_systems: the root is the standing trigger and the standing rank.
BeginCall ==
    /\ ~adding /\ calls < MaxCalls
    /\ adding' = TRUE
    /\ calls' = calls + 1
    /\ trigger' = schedule.root
    /\ current' = IF schedule.root = None THEN <<>> ELSE <<schedule.root>>
    /\ last' = <<>>
    /\ earlier' = {}
    /\ start' = Count
    /\ UNCHANGED <<schedule, declared, frames>>

\* A system among the items.
ReadSystem ==
    /\ adding /\ Count < MaxSystems
    /\ LET env == RegisterSystem([schedule |-> schedule, last |-> last,
                                  current |-> current, trigger |-> trigger])
       IN  /\ schedule' = env.schedule
           /\ current' = env.current
           /\ trigger' = env.trigger
    /\ declared' = declared \cup (earlier \X {Count + 1})
    /\ UNCHANGED <<calls, adding, last, frames, earlier, start>>

\* An .order() begins: it keeps the caller's ranks and trigger and reads its
\* first item with no current rank.  `base` is a history: the count here.
BeginSequence ==
    /\ adding /\ Len(frames) < MaxDepth
    /\ frames' = Append(frames, [last |-> last, current |-> current, old |-> trigger,
                                 earlier |-> earlier, start |-> start, base |-> Count])
    /\ current' = <<>>
    /\ start' = Count
    /\ UNCHANGED <<schedule, calls, declared, adding, last, trigger, earlier>>

\* Mutant of the action below: the trigger of an item survives into the next
\* one, which then joins its batch instead of waiting for it.
NextItem_KeepTrigger ==
    /\ adding /\ frames # <<>> /\ Count > start
    /\ frames' = [frames EXCEPT ![Len(frames)].old = IF @ = None THEN trigger ELSE @]
    /\ last' = current
    /\ current' = <<>>
    /\ earlier' = earlier \cup (start + 1 .. Count)
    /\ start' = Count
    /\ UNCHANGED <<schedule, calls, declared, adding, trigger>>

\* An item of the .order() ends and another one follows: what the item ranked
\* becomes the last rank, and the next system is a trigger.
NextItem ==
    /\ adding /\ frames # <<>> /\ Count > start
    /\ frames' = [frames EXCEPT ![Len(frames)].old = IF @ = None THEN trigger ELSE @]
    /\ last' = current
    /\ current' = <<>>
    /\ trigger' = None
    /\ earlier' = earlier \cup (start + 1 .. Count)
    /\ start' = Count
    /\ UNCHANGED <<schedule, calls, declared, adding>>

\* Mutant of the action below: the enclosing block forgets the first trigger.
EndSequence_LastTrigger ==
    /\ adding /\ frames # <<>> /\ Count > start
    /\ LET frame == Last(frames)
       IN  /\ trigger' = trigger
           /\ current' = frame.current \o current
           /\ last' = frame.last
           /\ earlier' = frame.earlier
           /\ start' = frame.start
    /\ frames' = Front(frames)
    /\ UNCHANGED <<schedule, calls, declared, adding>>

\* The last item of the .order() ends, and with it the .order(): its last rank
\* joins the caller's, who goes on with the first trigger there was.
EndSequence ==
    /\ adding /\ frames # <<>> /\ Count > start
    /\ LET frame == Last(frames)
       IN  /\ trigger' = IF frame.old = None THEN trigger ELSE frame.old
           /\ current' = frame.current \o current
           /\ last' = frame.last
           /\ earlier' = frame.earlier
           /\ start' = frame.start
    /\ frames' = Front(frames)
    /\ UNCHANGED <<schedule, calls, declared, adding>>

\* add_systems returns; its locals are gone.
EndCall ==
    /\ adding /\ frames = <<>>
    /\ adding' = FALSE
    /\ last' = <<>> /\ current' = <<>> /\ trigger' = None
    /\ earlier' = {} /\ start' = 0
    /\ UNCHANGED <<schedule, calls, declared, frames>>

StepsNext == BeginCall \/ ReadSystem \/ BeginSequence \/ NextItem \/ EndSequence \/ EndCall

StepsSpec == StepsInit /\ [][StepsNext]_<<builderVars, stepVars>>
=============================================================================
