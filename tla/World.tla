--------------------------------- MODULE World ---------------------------------
(***************************************************************************)
(* World with its components (ecs/mod.rs): add_comp puts an entity and two *)
(* components into the archetype of their two types.  An archetype keeps   *)
(* its components in columns, one per type, and the rows of all columns    *)
(* and of its list of entities are meant to belong together.               *)
(*                                                                         *)
(* A component is known by its type and the call that brought it; a column *)
(* is the sequence of its components.  Nothing checks that the entity is   *)
(* alive, and nothing removes a row.                                       *)
(***************************************************************************)
EXTENDS EntityWorld, SequencesExt

CONSTANTS
    Types,     \* component types
    MaxCalls   \* bound on the calls of add_comp

\* COMPONENTS: a set of component ids is one word.
ASSUME TypesAssumption == Cardinality(Types) <= 64
ASSUME MaxCallsAssumption == MaxCalls \in Nat

VARIABLES
    component_ids,  \* World.component_ids
    bitsets,        \* World.bitsets, the set bits of each
    archetypes,     \* World.archetypes
    calls           \* history: the entity of every call of add_comp

componentVars == <<component_ids, bitsets, archetypes, calls>>
worldVars == <<entityVars, componentVars>>

WorldInit ==
    /\ EntityInit
    /\ component_ids = <<>>
    /\ bitsets = <<>>
    /\ archetypes = <<>>
    /\ calls = <<>>

\* The type t gets the next id.
GiveId(ids, t) ==
    [u \in DOMAIN ids \cup {t} |-> IF u = t THEN Cardinality(DOMAIN ids) ELSE ids[u]]

\* Mutant of the operator below: whether or not it has been seen.
Register_Always(ids, t) == GiveId(ids, t)

\* A type gets an id when it is first seen.
Register(ids, t) == IF t \in DOMAIN ids THEN ids ELSE GiveId(ids, t)

\* One component more in column c.
Push(data, c, comp) == [data EXCEPT ![c + 1] = Append(@, comp)]

\* An archetype of its own for the entity, with a column per argument; sparse
\* is written for the first one first.
NewArchetype(h, off1, off2, comp1, comp2) ==
    [entities |-> <<h>>,
     sparse   |-> [c \in {off1, off2} |-> IF c = off2 THEN 1 ELSE 0],
     data     |-> <<<<comp1>>, <<comp2>>>>]

\* Mutant of the operator below: the columns are taken in the order of the
\* arguments.
AddRow_ArgumentOrder(a, h, off1, off2, comp1, comp2) ==
    [a EXCEPT !.entities = Append(@, h), !.data = Push(Push(@, 0, comp1), 1, comp2)]

\* One more row of an archetype: sparse leads from the component id to the
\* column.
AddRow(a, h, off1, off2, comp1, comp2) ==
    [a EXCEPT !.entities = Append(@, h),
              !.data = Push(Push(@, a.sparse[off1], comp1), a.sparse[off2], comp2)]

\* Mutant of the operator below: any archetype that has both columns will do.
FindArchetype_Superset(bits) == SelectInSeq(bitsets, LAMBDA b : bits \subseteq b)

\* The first archetype of exactly these components, or zero.
FindArchetype(bits) == SelectInSeq(bitsets, LAMBDA b : b = bits)

\* add_comp::<T, U>(h, ...)
AddComp(h, T, U) ==
    LET ids  == Register(Register(component_ids, T), U)
        off1 == ids[T]
        off2 == ids[U]
        comp1 == <<T, Len(calls) + 1>>
        comp2 == <<U, Len(calls) + 1>>
        a    == FindArchetype({off1, off2})
    IN  /\ Len(calls) < MaxCalls
        /\ component_ids' = ids
        /\ calls' = Append(calls, h)
        /\ IF a # 0
           THEN /\ archetypes' = [archetypes EXCEPT ![a] = AddRow(@, h, off1, off2, comp1, comp2)]
                /\ UNCHANGED bitsets
           ELSE /\ archetypes' = Append(archetypes, NewArchetype(h, off1, off2, comp1, comp2))
                /\ bitsets' = Append(bitsets, {off1, off2})
        /\ UNCHANGED entityVars

WorldNext ==
    \/ EntityNext /\ UNCHANGED componentVars
    \/ \E h \in given, T, U \in Types : AddComp(h, T, U)

WorldSpec == WorldInit /\ [][WorldNext]_worldVars

-----------------------------------------------------------------------------
(* Type correctness. *)
WorldTypeOK ==
    /\ EntityTypeOK
    /\ DOMAIN component_ids \subseteq Types /\ IsInjective(component_ids)
    /\ Len(bitsets) = Len(archetypes)
    /\ \A a \in DOMAIN archetypes :
          /\ bitsets[a] # {} /\ bitsets[a] \subseteq Range(component_ids)
          /\ DOMAIN archetypes[a].sparse = bitsets[a]

\* The column of the component with id c.
Column(a, c) == archetypes[a].data[archetypes[a].sparse[c] + 1]

(* The rows of an archetype of two types belong together: in the column of  *)
(* either type, the component at a row has that type and came with the      *)
(* entity at the row, whichever way round the calls named the types.        *)
RowsAligned ==
    \A a \in DOMAIN archetypes : Cardinality(bitsets[a]) = 2 =>
        \A T \in DOMAIN component_ids : component_ids[T] \in bitsets[a] =>
            LET column == Column(a, component_ids[T])
            IN  /\ Len(column) = Len(archetypes[a].entities)
                /\ \A r \in DOMAIN column :
                      column[r][1] = T /\ calls[column[r][2]] = archetypes[a].entities[r]

(* The components of one call are together in the one archetype of their    *)
(* two types, and no two archetypes have the same types.                    *)
ArchetypesDistinct ==
    /\ IsInjective(bitsets)
    /\ \A a \in DOMAIN archetypes : \A c \in DOMAIN archetypes[a].data :
          \A r \in DOMAIN archetypes[a].data[c] :
             LET call == archetypes[a].data[c][r][2]
                 types == {T \in Types : \E d \in DOMAIN archetypes[a].data :
                              <<T, call>> \in Range(archetypes[a].data[d])}
             IN  {component_ids[T] : T \in types} = bitsets[a]
=============================================================================
