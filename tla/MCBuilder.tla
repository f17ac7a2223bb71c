------------------------------- MODULE MCBuilder -------------------------------
(***************************************************************************)
(* SingleExecutor with a history of the plans that are read, to check that *)
(* the steps of one add_systems call do what ScheduleBuilder does in one.  *)
(***************************************************************************)
EXTENDS SingleExecutor

VARIABLES reading,  \* per enclosing .order(), and for the call itself: the items
                    \* that are over, and what the current one is made of
          built,    \* the schedule when the last call had returned, its gates closed
          ordered   \* declared at that time
planVars == <<reading, built, ordered>>

System == [kind |-> "system"]
Empty == [kind |-> "empty"]
Level == [over |-> <<>>, item |-> <<>>]
Node(kind, items) == [kind |-> kind, items |-> items]

\* The plan that some parts side by side make.
Plan(parts) == CASE parts = <<>>    -> Empty
                 [] Len(parts) = 1 -> parts[1]
                 [] OTHER          -> Node("tuple", parts)

Top == Last(reading)
Items == Append(Top.over, Plan(Top.item))

\* A piece is read into the current item of the levels below.
Into(levels, piece) == [levels EXCEPT ![Len(levels)].item = Append(@, piece)]

\* The schedule without the counts of a run that has unwound.
GatesClosed(s) == [s EXCEPT !.dependency_gate = [k \in DOMAIN @ |-> 0]]

MCInit == SingleInit /\ reading = <<Level>> /\ built = NewSchedule /\ ordered = {}

\* What the model has read as separate parts may have been a tuple.
Group ==
    /\ adding
    /\ \E n \in 1 .. Len(Top.item) - 1 :
          reading' = [reading EXCEPT ![Len(reading)].item =
                        Append(SubSeq(@, 1, n - 1), Node("tuple", SubSeq(@, n, Len(@))))]
    /\ UNCHANGED <<singleVars, built, ordered>>

\* The next piece of a plan.
Piece ==
    \/ BeginCall /\ UNCHANGED reading
    \/ ReadSystem /\ reading' = Into(reading, System)
    \/ BeginSequence /\ reading' = Append(reading, Level)
    \/ NextItem /\ reading' = [reading EXCEPT ![Len(reading)] = [over |-> Items, item |-> <<>>]]
    \/ EndSequence /\ reading' = Into(Front(reading), Node("order", Items))

\* The plan has been read.
Return ==
    /\ EndCall
    /\ reading' = <<Level>>
    /\ built' = GatesClosed(schedule)
    /\ ordered' = declared

MCNext ==
    \/ Group
    \/ AddSystemsIdle /\ Piece /\ UNCHANGED <<built, ordered>>
    \/ AddSystemsIdle /\ Return
    \/ (Run \/ RunSystem \/ SystemPanics \/ RunReturns) /\ UNCHANGED planVars

MCSpec == MCInit /\ [][MCNext]_<<singleVars, planVars>>

(* The calls that have returned are calls of ScheduleBuilder. *)
B == INSTANCE ScheduleBuilder
        WITH Plans <- {}, schedule <- built, declared <- ordered,
             calls <- IF adding THEN calls - 1 ELSE calls

(* A call of add_systems that reads a plan piece by piece leaves what the   *)
(* recursion over the plan leaves: destructure() of macros.rs keeps all it  *)
(* needs in the ranks and the trigger it is handed.                         *)
BuilderImplements ==
    /\ B!BuilderInit
    /\ [][B!AddSystems(Plan(reading[1].item))]_<<built, ordered, B!builderVars>>
=============================================================================
