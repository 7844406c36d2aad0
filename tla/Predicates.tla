----------------------------- MODULE Predicates -----------------------------
(***************************************************************************)
(* The guards of predicate.c: conjunctions of atoms "condition c has truth *)
(* value e", interned in a table so that equal guards have one identity.   *)
(* Conditions are expression identities, numbered as they were created.    *)
(***************************************************************************)
EXTENDS Integers, Sequences, FiniteSetsExt

Always == [impossible |-> FALSE, atoms |-> << >>]
Never == [impossible |-> TRUE, atoms |-> << >>]

\* The identity of a predicate, and the table that holds it.
Intern(table, predicate) ==
    LET known == {id \in DOMAIN table : table[id] = predicate}
    IN IF known = {} THEN [table |-> Append(table, predicate), id |-> Len(table) + 1]
       ELSE [table |-> table, id |-> Min(known)]

\* Mutant: the new atom goes last, whatever its condition.
InsertLast(atoms, atom) == Append(atoms, atom)

\* The atoms stay in the order of their conditions.
Insert(atoms, atom) ==
    LET at == Cardinality({i \in DOMAIN atoms : atoms[i].condition < atom.condition})
    IN SubSeq(atoms, 1, at) \o <<atom>> \o SubSeq(atoms, at + 1, Len(atoms))

\* Strengthen a predicate by "condition = expected".
AndCondition(table, id, condition, expected) ==
    LET base == table[id]
        stated == {i \in DOMAIN base.atoms : base.atoms[i].condition = condition}
    IN IF base.impossible \/ \E i \in stated : base.atoms[i].expected = expected
       THEN [table |-> table, id |-> id]
       ELSE IF stated # {} THEN Intern(table, Never)
       ELSE Intern(table, [impossible |-> FALSE,
                           atoms |-> Insert(base.atoms, [condition |-> condition,
                                                         expected |-> expected])])

\* Mutant: two guards that name one condition are taken for exclusive.
OpposedBySharing(left, right) ==
    \E i \in DOMAIN left, j \in DOMAIN right : left[i].condition = right[j].condition

\* The merge walk over two sorted atom lists: do they meet on a condition with
\* opposite truth values?
Opposed(left, right) ==
    LET walk[at \in (1 .. Len(left) + 1) \X (1 .. Len(right) + 1)] ==
            LET i == at[1]
                j == at[2]
            IN /\ i <= Len(left) /\ j <= Len(right)
               /\ \/ left[i].condition < right[j].condition /\ walk[<<i + 1, j>>]
                  \/ left[i].condition > right[j].condition /\ walk[<<i, j + 1>>]
                  \/ /\ left[i].condition = right[j].condition
                     /\ left[i].expected # right[j].expected \/ walk[<<i + 1, j + 1>>]
    IN walk[<<1, 1>>]

MutuallyExclusive(left, right) ==
    left.impossible \/ right.impossible \/ Opposed(left.atoms, right.atoms)

\* What a predicate means under the truth values of the conditions.
Holds(predicate, truth) ==
    /\ ~predicate.impossible
    /\ \A i \in DOMAIN predicate.atoms :
          truth[predicate.atoms[i].condition] = predicate.atoms[i].expected
=============================================================================
