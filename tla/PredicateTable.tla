--------------------------- MODULE PredicateTable ---------------------------
(***************************************************************************)
(* The predicate table under every order of the calls its clients may make *)
(* (the resolver strengthens guards by fresh conditions only; a model may  *)
(* also be built by hand, as the unit tests of predicate.c do).            *)
(***************************************************************************)
EXTENDS Predicates

CONSTANTS
    Conditions,         \* condition identities, a set of numbers
    MaxPredicates       \* bound on the table, for TLC

ASSUME ConditionsAssumption == Conditions \subseteq Nat

VARIABLE table

TableInit == table = <<Always>>

Strengthen(id, condition, expected) ==
    /\ Len(table) < MaxPredicates
    /\ table' = AndCondition(table, id, condition, expected).table

TableNext == \E id \in DOMAIN table, condition \in Conditions, expected \in BOOLEAN :
                 Strengthen(id, condition, expected)

TableSpec == TableInit /\ [][TableNext]_table

-----------------------------------------------------------------------------
\* Guards are compared by identity and by a single merge walk: that is sound
\* only if no predicate is stored twice and every atom list is strictly
\* increasing.
Canonical ==
    /\ \A p, q \in DOMAIN table : table[p] = table[q] => p = q
    /\ \A p \in DOMAIN table : \A i \in 2 .. Len(table[p].atoms) :
          table[p].atoms[i - 1].condition < table[p].atoms[i].condition

\* The merge walk decides exclusion exactly: it answers yes if and only if no
\* truth values of the conditions satisfy both guards.
ExclusionExact ==
    \A p, q \in DOMAIN table :
        MutuallyExclusive(table[p], table[q])
            <=> ~\E truth \in [Conditions -> BOOLEAN] :
                    Holds(table[p], truth) /\ Holds(table[q], truth)
=============================================================================
