------------------------------ MODULE RtlModel ------------------------------
(***************************************************************************)
(* The arenas of the RTL model (rtl.c): every constructor checks what it   *)
(* is given and appends one record, or appends nothing.  Any caller may    *)
(* call them in any order; an identity is an index, and 0 is the invalid   *)
(* one.                                                                    *)
(***************************************************************************)
EXTENDS Integers, Sequences

CONSTANTS
    Laws,               \* signedness and state domain of a type
    Widths,             \* values a bound may have
    MaxChildren,        \* children of an expression, three or as a concatenation has
    MaxCalls            \* bound for TLC: records of all arenas together

VARIABLES types, expressions, modules, objects, equations, instances, updates, processes

vars == <<types, expressions, modules, objects, equations, instances, updates, processes>>

None == 0
Kinds == {"objects", "equations", "instances", "processes"}

\* A range of an arena: what comes before it and how many records it has.
Range(first, count) == [first |-> first, count |-> count]
Covered(range) == range.first + 1 .. range.first + range.count
Empty(arena) == Range(Len(arena), 0)

Init == /\ types = << >> /\ expressions = << >> /\ modules = << >>
        /\ objects = << >> /\ equations = << >> /\ instances = << >>
        /\ updates = << >> /\ processes = << >>

Room == Len(types) + Len(expressions) + Len(modules) + Len(objects) + Len(equations)
        + Len(instances) + Len(updates) + Len(processes) < MaxCalls

-----------------------------------------------------------------------------
(* Types.  Width and dimensions are lists of bounds: a value, or an        *)
(* expression beside which the value says nothing.                         *)

Bound == [value : Widths, expression : {None} \cup DOMAIN expressions]
OneBit == [value |-> CHOOSE w \in Widths : TRUE, expression |-> None]

\* Mutant: two bounds are equal when both of their parts are.
SameBoundExactly(a, b) == a = b

SameBound(a, b) == /\ a.expression = b.expression
                   /\ a.expression = None => a.value = b.value

SameType(a, b) == /\ a.law = b.law
                  /\ Len(a.bounds) = Len(b.bounds)
                  /\ \A i \in DOMAIN a.bounds : SameBound(a.bounds[i], b.bounds[i])

\* pigen_rtl_type_intern of a description no record has yet.
InternType ==
    /\ Room
    /\ \E law \in Laws, width \in Bound, dimensions \in {<< >>, <<OneBit>>} :
         LET type == [law |-> law, bounds |-> <<width>> \o dimensions]
         IN /\ \A i \in DOMAIN types : ~SameType(types[i], type)
            /\ types' = Append(types, type)
    /\ UNCHANGED <<expressions, modules, objects, equations, instances, updates, processes>>

-----------------------------------------------------------------------------
(* Expressions: literals, reads of objects, and nodes over children that    *)
(* exist.  Operators and literal words say nothing about the arenas.       *)

Appended(type, object, children) ==
    /\ Room
    /\ expressions' = Append(expressions, [type |-> type, object |-> object,
                                           children |-> children])
    /\ UNCHANGED <<types, modules, objects, equations, instances, updates, processes>>

AddLiteral == \E type \in DOMAIN types : Appended(type, None, << >>)

AddRead == \E type \in DOMAIN types, object \in DOMAIN objects :
               Appended(type, object, << >>)

\* Unary to conditional operators, indexes, selects and concatenations.
AddNode == \E type \in DOMAIN types, n \in 1 .. MaxChildren :
               \E children \in [1 .. n -> DOMAIN expressions] :
                   Appended(type, None, children)

-----------------------------------------------------------------------------
(* Modules own ranges of the other arenas.                                 *)

AddModule ==
    /\ Room
    /\ modules' = Append(modules, [objects |-> Empty(objects), equations |-> Empty(equations),
                                   instances |-> Empty(instances),
                                   processes |-> Empty(processes)])
    /\ UNCHANGED <<types, expressions, objects, equations, instances, updates, processes>>

\* Mutant: a module may take a record whose arena has moved on.
OwnsEndAlways(m, kind, arena) == TRUE

\* Is the end of an arena the end of the module's range?
OwnsEnd(m, kind, arena) ==
    modules[m][kind].first + modules[m][kind].count = Len(arena)

Longer(range) == Range(range.first, range.count + 1)
Grown(m, kind) == [modules EXCEPT ![m][kind] = Longer(@)]

AddObject ==
    /\ Room
    /\ \E m \in DOMAIN modules, type \in DOMAIN types :
         /\ OwnsEnd(m, "objects", objects)
         /\ objects' = Append(objects, [module |-> m, type |-> type])
         /\ modules' = Grown(m, "objects")
    /\ UNCHANGED <<types, expressions, equations, instances, updates, processes>>

AddEquation ==
    /\ Room
    /\ \E m \in DOMAIN modules, d \in DOMAIN objects, value \in DOMAIN expressions :
         /\ objects[d].module = m
         /\ OwnsEnd(m, "equations", equations)
         /\ equations' = Append(equations, [module |-> m, destination |-> d, value |-> value])
         /\ modules' = Grown(m, "equations")
    /\ UNCHANGED <<types, expressions, objects, instances, updates, processes>>

\* Parameters and connections are copied: their ranges are their lists.
AddInstance ==
    /\ Room
    /\ \E m \in DOMAIN modules, p, c \in 0 .. 1 :
       \E parameters \in [1 .. p -> DOMAIN expressions],
          connections \in [1 .. c -> DOMAIN objects] :
         /\ \A i \in DOMAIN connections : objects[connections[i]].module = m
         /\ OwnsEnd(m, "instances", instances)
         /\ instances' = Append(instances, [module |-> m, parameters |-> parameters,
                                            connections |-> connections])
         /\ modules' = Grown(m, "instances")
    /\ UNCHANGED <<types, expressions, objects, equations, updates, processes>>

AddUpdate ==
    /\ Room
    /\ \E m \in DOMAIN modules, d \in DOMAIN objects, value \in DOMAIN expressions :
         /\ objects[d].module = m
         /\ updates' = Append(updates, [module |-> m, destination |-> d, value |-> value])
    /\ UNCHANGED <<types, expressions, modules, objects, equations, instances, processes>>

\* A process is given updates of its module, and records the trailing range of
\* that length: its callers give it the updates they made last.
AddProcess ==
    /\ Room
    /\ \E m \in DOMAIN modules, clock \in DOMAIN expressions, n \in 0 .. Len(updates) :
       \E given \in [1 .. n -> DOMAIN updates] :
         /\ \A i \in DOMAIN given : updates[given[i]].module = m
         /\ OwnsEnd(m, "processes", processes)
         /\ processes' = Append(processes,
                [module |-> m, clock |-> clock, updates |-> Range(Len(updates) - n, n)])
         /\ modules' = Grown(m, "processes")
    /\ UNCHANGED <<types, expressions, objects, equations, instances, updates>>

Next == \/ InternType \/ AddLiteral \/ AddRead \/ AddNode \/ AddModule
        \/ AddObject \/ AddEquation \/ AddInstance \/ AddUpdate \/ AddProcess

Spec == Init /\ [][Next]_vars

-----------------------------------------------------------------------------
\* What a bound says.
Says(bound) == IF bound.expression = None THEN <<"value", bound.value>>
               ELSE <<"expression", bound.expression>>

\* A type is its identity: no two records describe one type, whatever values
\* stand beside their width expressions.
TypesAreCanonical ==
    \A i, j \in DOMAIN types :
        (/\ types[i].law = types[j].law
         /\ [k \in DOMAIN types[i].bounds |-> Says(types[i].bounds[k])]
              = [k \in DOMAIN types[j].bounds |-> Says(types[j].bounds[k])])
        => i = j

\* The range of a module is exactly the records that name the module, in every
\* arena and however the calls for several modules interleave.
RangesAreOwned ==
    LET Owns(m, kind, arena) ==
            Covered(modules[m][kind]) = {i \in DOMAIN arena : arena[i].module = m}
    IN \A m \in DOMAIN modules : /\ Owns(m, "objects", objects)
                                 /\ Owns(m, "equations", equations)
                                 /\ Owns(m, "instances", instances)
                                 /\ Owns(m, "processes", processes)
=============================================================================
