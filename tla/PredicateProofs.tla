--------------------------- MODULE PredicateProofs ---------------------------
(***************************************************************************)
(* What the operators on guards compute, for every table of predicates and *)
(* every set of conditions.                                                *)
(***************************************************************************)
EXTENDS Predicates, SequenceTheorems, FiniteSetTheorems, TLAPS

\* A set of natural numbers that is not empty has a least member, and Min finds it.
LEMMA LeastMember ==
    ASSUME NEW S \in SUBSET Nat, S # {}
    PROVE  /\ Min(S) \in S
           /\ \A y \in S : Min(S) <= y
<1> DEFINE R == {ss \in Nat \X Nat : ss[1] < ss[2]}
<1>1. IsWellFoundedOn(R, Nat)
  BY NatLessThanWellFounded DEF OpToRel
<1> HIDE DEF R
<1>2. PICK x \in S : \A y \in S : ~(<<y, x>> \in R)
  BY <1>1, WFMin
<1>3. \A y \in S : <<y, x>> \in R <=> y < x
  BY DEF R
<1>4. \A y \in S : x <= y
  <2> TAKE y \in S
  <2>1. x \in Nat /\ y \in Nat /\ ~(y < x)
    BY <1>2, <1>3
  <2> QED
    BY <2>1
<1> QED
  BY <1>4 DEF Min

-----------------------------------------------------------------------------
(* The shape of a guard whose conditions are numbers. *)

Atom(C) == [condition : C, expected : BOOLEAN]
Predicate(C) == [impossible : BOOLEAN, atoms : Seq(Atom(C))]

Sorted(atoms) == \A i, j \in 1 .. Len(atoms) :
                     i < j => atoms[i].condition < atoms[j].condition

Interned(t) == \A p, q \in 1 .. Len(t) : t[p] = t[q] => p = q

\* A table is well formed over the conditions C.
WellFormed(t, C) == /\ t \in Seq(Predicate(C))
                    /\ Interned(t)
                    /\ \A p \in 1 .. Len(t) : Sorted(t[p].atoms)

\* More conditions do no harm.
LEMMA WellFormedMonotonic ==
    ASSUME NEW C, NEW D, C \subseteq D, NEW t, WellFormed(t, C)
    PROVE  WellFormed(t, D)
<1>1. Atom(C) \subseteq Atom(D)
  BY DEF Atom
<1>2. Seq(Atom(C)) \subseteq Seq(Atom(D))
  BY <1>1, SeqMonotonic
<1>3. Predicate(C) \subseteq Predicate(D)
  BY <1>2 DEF Predicate
<1> QED
  BY <1>3, SeqMonotonic DEF WellFormed

\* Interning keeps every predicate where it is, adds no other than the one asked
\* for, and never stores one twice.
LEMMA InternTable ==
    ASSUME NEW C, NEW t \in Seq(Predicate(C)), Interned(t), NEW p \in Predicate(C)
    PROVE  /\ Intern(t, p).table \in Seq(Predicate(C))
           /\ Interned(Intern(t, p).table)
           /\ Len(t) <= Len(Intern(t, p).table)
           /\ \A q \in 1 .. Len(t) : Intern(t, p).table[q] = t[q]
           /\ \A q \in 1 .. Len(Intern(t, p).table) :
                 q \in 1 .. Len(t) \/ Intern(t, p).table[q] = p
           /\ Intern(t, p).id \in 1 .. Len(Intern(t, p).table)
           /\ Intern(t, p).table[Intern(t, p).id] = p
<1> DEFINE known == {id \in DOMAIN t : t[id] = p}
<1>0. Len(t) \in Nat /\ DOMAIN t = 1 .. Len(t)
  BY LenProperties
<1>1. CASE known = {}
  <2>1. Intern(t, p) = [table |-> Append(t, p), id |-> Len(t) + 1]
    BY <1>1 DEF Intern
  <2>2. /\ Append(t, p) \in Seq(Predicate(C))
        /\ Len(Append(t, p)) = Len(t) + 1
        /\ \A q \in 1 .. Len(t) : Append(t, p)[q] = t[q]
        /\ Append(t, p)[Len(t) + 1] = p
    BY AppendProperties
  <2>3. \A q \in 1 .. Len(t) : t[q] # p
    BY <1>0, <1>1
  <2>4. \A q \in 1 .. Len(t) + 1 : q \in 1 .. Len(t) \/ q = Len(t) + 1
    BY <1>0
  <2>5. Interned(Append(t, p))
    BY <1>0, <2>2, <2>3, <2>4 DEF Interned
  <2> QED
    BY <1>0, <2>1, <2>2, <2>4, <2>5
<1>2. CASE known # {}
  <2>1. Intern(t, p) = [table |-> t, id |-> Min(known)]
    BY <1>2 DEF Intern
  <2>2. known \in SUBSET Nat
    BY <1>0
  <2> HIDE DEF known
  <2>3. Min(known) \in known
    BY <1>2, <2>2, LeastMember
  <2>4. Min(known) \in 1 .. Len(t) /\ t[Min(known)] = p
    BY <1>0, <2>3 DEF known
  <2> QED
    BY <1>0, <2>1, <2>4
<1> QED
  BY <1>1, <1>2

\* The fields of the atoms of a guard.
LEMMA AtomTypes ==
    ASSUME NEW C, NEW atoms \in Seq(Atom(C))
    PROVE  /\ Len(atoms) \in Nat /\ DOMAIN atoms = 1 .. Len(atoms)
           /\ \A i \in 1 .. Len(atoms) : /\ atoms[i] \in Atom(C)
                                         /\ atoms[i].condition \in C
                                         /\ atoms[i].expected \in BOOLEAN
<1>1. \A i \in 1 .. Len(atoms) : atoms[i] \in Atom(C)
  BY ElementOfSeq
<1>2. \A x \in Atom(C) : x.condition \in C /\ x.expected \in BOOLEAN
  BY DEF Atom
<1> QED
  BY <1>1, <1>2, LenProperties

\* In a sorted list the atoms below a condition come first.
LEMMA AtomsBelow ==
    ASSUME NEW C \in SUBSET Nat, NEW atoms \in Seq(Atom(C)), Sorted(atoms), NEW c \in Nat
    PROVE  LET at == Cardinality({i \in DOMAIN atoms : atoms[i].condition < c})
           IN /\ at \in 0 .. Len(atoms)
              /\ \A i \in 1 .. Len(atoms) : atoms[i].condition < c <=> i <= at
<1> DEFINE n == Len(atoms)
           below == {i \in DOMAIN atoms : atoms[i].condition < c}
           others == {k \in 1 .. n + 1 : k \notin below}
<1>0. n \in Nat /\ DOMAIN atoms = 1 .. n
  BY LenProperties
<1>t. \A i \in 1 .. n : atoms[i].condition \in Nat
  BY AtomTypes
<1>1. n + 1 \in others /\ others \in SUBSET Nat
  BY <1>0
<1> HIDE DEF others
<1>2. PICK m \in others : \A k \in others : m <= k
  BY <1>1, LeastMember
<1>3. m \in 1 .. n + 1 /\ m \notin below
  BY <1>2 DEF others
<1>4. \A k \in 1 .. m - 1 : k \in below
  <2> SUFFICES ASSUME NEW k \in 1 .. m - 1, k \notin below PROVE FALSE
    OBVIOUS
  <2>1. k \in others
    BY <1>0, <1>3 DEF others
  <2> QED
    BY <1>0, <1>2, <1>3, <2>1
<1>5. \A k \in 1 .. n : k >= m => k \notin below
  <2> SUFFICES ASSUME NEW k \in 1 .. n, k > m PROVE k \notin below
    BY <1>0, <1>3
  <2>1. m \in 1 .. n
    BY <1>0, <1>3
  <2>2. atoms[m].condition < atoms[k].condition /\ ~(atoms[m].condition < c)
    BY <1>0, <1>3, <2>1 DEF Sorted
  <2> QED
    BY <2>1, <2>2, <1>t
<1>6. below = 1 .. m - 1
  BY <1>0, <1>3, <1>4, <1>5
<1>7. Cardinality(below) = m - 1
  <2> DEFINE k == m - 1
  <2>1. k \in Nat
    BY <1>0, <1>3
  <2> HIDE DEF k
  <2>3. Cardinality(1 .. k) = IF 1 > k THEN 0 ELSE k - 1 + 1
    BY <2>1, FS_Interval
  <2>2. Cardinality(1 .. m - 1) = m - 1
    BY <2>1, <2>3 DEF k
  <2> QED
    BY <1>6, <2>2
<1>8. \A i \in 1 .. n : atoms[i].condition < c <=> i <= m - 1
  BY <1>0, <1>3, <1>4, <1>5
<1>9. m - 1 \in 0 .. n
  BY <1>0, <1>3
<1> QED
  BY <1>7, <1>8, <1>9

\* Inserting an atom on a new condition keeps the list sorted, and the atoms of the
\* result are the old ones and the new one.
LEMMA InsertAtom ==
    ASSUME NEW C \in SUBSET Nat, NEW atoms \in Seq(Atom(C)), Sorted(atoms),
           NEW a \in Atom(C), \A i \in 1 .. Len(atoms) : atoms[i].condition # a.condition
    PROVE  /\ Insert(atoms, a) \in Seq(Atom(C))
           /\ Sorted(Insert(atoms, a))
           /\ Len(Insert(atoms, a)) = Len(atoms) + 1
           /\ \E k \in 1 .. Len(atoms) + 1 :
                 /\ Insert(atoms, a)[k] = a
                 /\ \A i \in 1 .. Len(atoms) :
                       /\ i < k => Insert(atoms, a)[i] = atoms[i]
                       /\ i >= k => Insert(atoms, a)[i + 1] = atoms[i]
<1> DEFINE n == Len(atoms)
           at == Cardinality({i \in DOMAIN atoms : atoms[i].condition < a.condition})
           before == SubSeq(atoms, 1, at)
           after == SubSeq(atoms, at + 1, n)
           new == Insert(atoms, a)
<1>0. n \in Nat
  BY LenProperties
<1>t. \A i \in 1 .. n : atoms[i] \in Atom(C) /\ atoms[i].condition \in Nat
  BY AtomTypes
<1>a. a.condition \in Nat
  BY DEF Atom
<1>1. /\ at \in 0 .. n
      /\ \A i \in 1 .. n : atoms[i].condition < a.condition <=> i <= at
  BY <1>a, AtomsBelow
<1>e. new = before \o <<a>> \o after
  BY DEF Insert
<1> HIDE DEF at
<1>2. /\ before \in Seq(Atom(C)) /\ Len(before) = at
      /\ \A i \in 1 .. at : before[i] = atoms[i]
  BY <1>0, <1>1, <1>t, SubSeqProperties
<1>3. /\ after \in Seq(Atom(C)) /\ Len(after) = n - at
      /\ \A i \in 1 .. n - at : after[i] = atoms[at + i]
  BY <1>0, <1>1, <1>t, SubSeqProperties
<1> HIDE DEF before, after, new
<1>4. <<a>> \in Seq(Atom(C)) /\ Len(<<a>>) = 1 /\ <<a>>[1] = a
  OBVIOUS
<1>5. /\ before \o <<a>> \in Seq(Atom(C)) /\ Len(before \o <<a>>) = at + 1
      /\ \A i \in 1 .. at : (before \o <<a>>)[i] = atoms[i]
      /\ (before \o <<a>>)[at + 1] = a
  BY <1>1, <1>2, <1>4, ConcatProperties
<1>6. /\ new \in Seq(Atom(C)) /\ Len(new) = n + 1
      /\ \A i \in 1 .. n + 1 : new[i] = IF i <= at + 1 THEN (before \o <<a>>)[i]
                                        ELSE after[i - (at + 1)]
  BY <1>0, <1>1, <1>3, <1>5, <1>e, ConcatProperties
<1>7. /\ \A i \in 1 .. n : i <= at => new[i] = atoms[i]
      /\ new[at + 1] = a
      /\ \A i \in 1 .. n : i > at => new[i + 1] = atoms[i]
  <2>1. new[at + 1] = a
    BY <1>0, <1>1, <1>5, <1>6
  <2>2. \A i \in 1 .. n : i <= at => new[i] = atoms[i]
    BY <1>0, <1>1, <1>5, <1>6
  <2>3. ASSUME NEW i \in 1 .. n, i > at PROVE new[i + 1] = atoms[i]
    <3>1. i + 1 \in 1 .. n + 1 /\ ~(i + 1 <= at + 1) /\ i - at \in 1 .. n - at
          /\ (i + 1) - (at + 1) = i - at /\ at + (i - at) = i
      BY <1>0, <1>1, <2>3
    <3>2. new[i + 1] = after[i - at]
      BY <3>1, <1>6
    <3> QED
      BY <3>1, <3>2, <1>3
  <2> QED
    BY <2>1, <2>2, <2>3
<1>8. \A i \in 1 .. n + 1 : /\ i <= at => i \in 1 .. n
                            /\ i > at + 1 => i - 1 \in 1 .. n /\ i - 1 > at /\ new[i] = atoms[i - 1]
  <2> TAKE i \in 1 .. n + 1
  <2>1. CASE i > at + 1
    <3>1. i - 1 \in 1 .. n /\ i - 1 > at /\ (i - 1) + 1 = i
      BY <1>0, <1>1, <2>1
    <3> QED
      BY <1>1, <2>1, <3>1, <1>7
  <2> QED
    BY <1>0, <1>1, <2>1
<1>9. Sorted(new)
  <2> SUFFICES ASSUME NEW i \in 1 .. n + 1, NEW j \in 1 .. n + 1, i < j
               PROVE  new[i].condition < new[j].condition
    BY <1>6 DEF Sorted
  <2>1. CASE j <= at
    BY <2>1, <1>0, <1>1, <1>7, <1>8 DEF Sorted
  <2>2. CASE j = at + 1
    BY <2>2, <1>0, <1>1, <1>7, <1>8
  <2>3. CASE i = at + 1
    <3>1. j - 1 \in 1 .. n /\ j - 1 > at /\ new[j] = atoms[j - 1] /\ new[i] = a
      BY <2>3, <1>1, <1>7, <1>8
    <3>2. ~(atoms[j - 1].condition < a.condition) /\ atoms[j - 1].condition # a.condition
      BY <3>1, <1>1
    <3> QED
      BY <3>1, <3>2, <1>a, <1>t
  <2>4. CASE i <= at /\ j > at + 1
    <3>1. j - 1 \in 1 .. n /\ i \in 1 .. n /\ i < j - 1 /\ new[j] = atoms[j - 1] /\ new[i] = atoms[i]
      BY <2>4, <1>0, <1>1, <1>7, <1>8
    <3> QED
      BY <3>1 DEF Sorted
  <2>5. CASE i > at + 1
    <3>1. /\ i - 1 \in 1 .. n /\ new[i] = atoms[i - 1]
          /\ j - 1 \in 1 .. n /\ new[j] = atoms[j - 1]
          /\ i - 1 < j - 1
      BY <2>5, <1>0, <1>1, <1>8
    <3> QED
      BY <3>1 DEF Sorted
  <2> QED
    BY <1>1, <2>1, <2>2, <2>3, <2>4, <2>5
<1>10. \A i \in 1 .. n : /\ i < at + 1 => new[i] = atoms[i]
                         /\ i >= at + 1 => new[i + 1] = atoms[i]
  BY <1>0, <1>1, <1>7
<1>11. at + 1 \in 1 .. n + 1
  BY <1>0, <1>1
<1> HIDE DEF n
<1> QED
  BY <1>6, <1>7, <1>9, <1>10, <1>11 DEF new, n

-----------------------------------------------------------------------------
(* Strengthening a guard. *)

\* The fields of a guard.
LEMMA PredicateTypes ==
    ASSUME NEW C, NEW p \in Predicate(C)
    PROVE  p.impossible \in BOOLEAN /\ p.atoms \in Seq(Atom(C))
BY DEF Predicate

\* The impossible guard is a guard.
LEMMA NeverIsPredicate == ASSUME NEW C PROVE Never \in Predicate(C) /\ Sorted(Never.atoms)
<1>1. << >> \in Seq(Atom(C)) /\ Len(<< >>) = 0
  BY EmptySeq
<1> QED
  BY <1>1 DEF Never, Predicate, Sorted

\* The empty guard is a guard.
LEMMA AlwaysIsPredicate == ASSUME NEW C PROVE Always \in Predicate(C) /\ Sorted(Always.atoms)
<1>1. << >> \in Seq(Atom(C)) /\ Len(<< >>) = 0
  BY EmptySeq
<1> QED
  BY <1>1 DEF Always, Predicate, Sorted

\* Interning a predicate with sorted atoms keeps a table well formed.
LEMMA InternWellFormed ==
    ASSUME NEW C, NEW t, WellFormed(t, C), NEW p \in Predicate(C), Sorted(p.atoms)
    PROVE  WellFormed(Intern(t, p).table, C)
<1>1. t \in Seq(Predicate(C)) /\ Interned(t) /\ \A q \in 1 .. Len(t) : Sorted(t[q].atoms)
  BY DEF WellFormed
<1> DEFINE new == Intern(t, p).table
<1>2. /\ new \in Seq(Predicate(C)) /\ Interned(new)
      /\ \A q \in 1 .. Len(t) : new[q] = t[q]
      /\ \A q \in 1 .. Len(new) : q \in 1 .. Len(t) \/ new[q] = p
  BY <1>1, InternTable
<1> HIDE DEF new
<1>3. \A q \in 1 .. Len(new) : Sorted(new[q].atoms)
  BY <1>1, <1>2
<1> QED
  BY <1>2, <1>3 DEF WellFormed, new

\* The predicate AndCondition returns means the old one and the new condition, the
\* table stays well formed, and no predicate of it moves.
AndConditionRight(t, id, c, e, C, and) ==
    /\ WellFormed(and.table, C)
    /\ Len(t) <= Len(and.table)
    /\ \A q \in 1 .. Len(t) : and.table[q] = t[q]
    /\ and.id \in 1 .. Len(and.table)
    /\ \A truth : Holds(and.table[and.id], truth) <=> Holds(t[id], truth) /\ truth[c] = e

\* Strengthening a guard adds its condition to the meaning, and leaves the table canonical.
LEMMA AndConditionTable ==
    ASSUME NEW C \in SUBSET Nat, NEW t, WellFormed(t, C),
           NEW id \in 1 .. Len(t), NEW c \in C, NEW e \in BOOLEAN
    PROVE  AndConditionRight(t, id, c, e, C, AndCondition(t, id, c, e))
<1> DEFINE and == AndCondition(t, id, c, e)
           base == t[id]
           n == Len(base.atoms)
           stated == {i \in DOMAIN base.atoms : base.atoms[i].condition = c}
<1>1. t \in Seq(Predicate(C)) /\ Interned(t) /\ \A q \in 1 .. Len(t) : Sorted(t[q].atoms)
  BY DEF WellFormed
<1>2. base \in Predicate(C) /\ Sorted(base.atoms) /\ Len(t) \in Nat
  BY <1>1, ElementOfSeq, LenProperties
<1>3. base.impossible \in BOOLEAN /\ base.atoms \in Seq(Atom(C))
  BY <1>2, PredicateTypes
<1>4. /\ n \in Nat /\ DOMAIN base.atoms = 1 .. n
      /\ \A i \in 1 .. n : /\ base.atoms[i].condition \in C
                           /\ base.atoms[i].expected \in BOOLEAN
  BY <1>3, AtomTypes
<1>h. \A truth : Holds(base, truth) <=>
         /\ ~base.impossible
         /\ \A i \in 1 .. n : truth[base.atoms[i].condition] = base.atoms[i].expected
  BY <1>4 DEF Holds
<1>5. CASE base.impossible \/ \E i \in stated : base.atoms[i].expected = e
  <2>1. and = [table |-> t, id |-> id]
    BY <1>5 DEF AndCondition
  <2>2. \A truth : Holds(base, truth) => truth[c] = e
    BY <1>4, <1>5, <1>h
  <2>3. and.table = t /\ and.id = id
    BY <2>1
  <2> HIDE DEF and
  <2> QED
    BY <1>2, <2>2, <2>3 DEF and, AndConditionRight
<1>6. CASE /\ ~(base.impossible \/ \E i \in stated : base.atoms[i].expected = e)
           /\ stated # {}
  <2>1. and = Intern(t, Never)
    BY <1>6 DEF AndCondition
  <2>2. Never \in Predicate(C) /\ Sorted(Never.atoms)
    BY NeverIsPredicate
  <2>3. WellFormed(and.table, C)
    BY <2>1, <2>2, InternWellFormed
  <2>4. /\ Len(t) <= Len(and.table)
        /\ \A q \in 1 .. Len(t) : and.table[q] = t[q]
        /\ and.id \in 1 .. Len(and.table) /\ and.table[and.id] = Never
    BY <1>1, <2>1, <2>2, InternTable
  <2>5. \A truth : ~Holds(Never, truth)
    BY DEF Holds, Never
  <2>6. \A truth : ~(Holds(base, truth) /\ truth[c] = e)
    BY <1>4, <1>6, <1>h
  <2> HIDE DEF and
  <2> QED
    BY <2>3, <2>4, <2>5, <2>6 DEF and, AndConditionRight
<1>7. CASE /\ ~(base.impossible \/ \E i \in stated : base.atoms[i].expected = e)
           /\ stated = {}
  <2> DEFINE a == [condition |-> c, expected |-> e]
             list == Insert(base.atoms, a)
             p == [impossible |-> FALSE, atoms |-> list]
  <2>1. and = Intern(t, p)
    BY <1>7 DEF AndCondition
  <2>2. a \in Atom(C) /\ a.condition = c /\ a.expected = e
    BY DEF Atom
  <2>3. \A i \in 1 .. n : base.atoms[i].condition # c
    BY <1>4, <1>7
  <2> HIDE DEF a
  <2>4. /\ list \in Seq(Atom(C)) /\ Sorted(list) /\ Len(list) = n + 1
        /\ \E k \in 1 .. n + 1 :
              /\ list[k] = a
              /\ \A i \in 1 .. n : /\ i < k => list[i] = base.atoms[i]
                                   /\ i >= k => list[i + 1] = base.atoms[i]
    <3>1. \A i \in 1 .. Len(base.atoms) : base.atoms[i].condition # a.condition
      BY <2>2, <2>3
    <3> DEFINE atoms == base.atoms
    <3>2. atoms \in Seq(Atom(C)) /\ Sorted(atoms)
      BY <1>2, <1>3
    <3> HIDE DEF atoms
    <3>3. \A i \in 1 .. Len(atoms) : atoms[i].condition # a.condition
      BY <3>1 DEF atoms
    <3>4. /\ Insert(atoms, a) \in Seq(Atom(C))
          /\ Sorted(Insert(atoms, a))
          /\ Len(Insert(atoms, a)) = Len(atoms) + 1
          /\ \E k \in 1 .. Len(atoms) + 1 :
                /\ Insert(atoms, a)[k] = a
                /\ \A i \in 1 .. Len(atoms) :
                      /\ i < k => Insert(atoms, a)[i] = atoms[i]
                      /\ i >= k => Insert(atoms, a)[i + 1] = atoms[i]
      <4>1. C \in SUBSET Nat /\ a \in Atom(C)
        BY <2>2
      <4> QED
        BY <3>2, <3>3, <4>1, InsertAtom
    <3> QED
      BY <3>4 DEF atoms
  <2> HIDE DEF list
  <2>5. p \in Predicate(C) /\ p.atoms = list /\ ~p.impossible
    BY <2>4 DEF Predicate
  <2>6. \A truth : Holds(p, truth) <=>
           \A i \in 1 .. n + 1 : truth[list[i].condition] = list[i].expected
    BY <1>4, <2>4, <2>5, AtomTypes DEF Holds
  <2>7. \A truth : Holds(p, truth) <=> Holds(base, truth) /\ truth[c] = e
    <3> TAKE truth
    <3>k. PICK k \in 1 .. n + 1 :
              /\ list[k] = a
              /\ \A i \in 1 .. n : /\ i < k => list[i] = base.atoms[i]
                                   /\ i >= k => list[i + 1] = base.atoms[i]
      BY <2>4
    <3>1. ASSUME Holds(p, truth) PROVE Holds(base, truth) /\ truth[c] = e
      <4>1. truth[c] = e
        BY <3>1, <3>k, <2>2, <2>6
      <4>2. \A i \in 1 .. n : truth[base.atoms[i].condition] = base.atoms[i].expected
        <5> TAKE i \in 1 .. n
        <5>1. i \in 1 .. n + 1 /\ i + 1 \in 1 .. n + 1
          BY <1>4
        <5>2. base.atoms[i] = list[i] \/ base.atoms[i] = list[i + 1]
          BY <1>4, <3>k
        <5> QED
          BY <3>1, <2>6, <5>1, <5>2
      <4> QED
        BY <4>1, <4>2, <1>7, <1>h
    <3>2. ASSUME Holds(base, truth), truth[c] = e PROVE Holds(p, truth)
      <4>1. ASSUME NEW i \in 1 .. n + 1
            PROVE  truth[list[i].condition] = list[i].expected
        <5>1. CASE i = k
          BY <3>2, <3>k, <2>2, <5>1
        <5>2. CASE i < k
          <6>1. i \in 1 .. n
            BY <1>4, <5>2
          <6> QED
            BY <6>1, <5>2, <3>k, <3>2, <1>h
        <5>3. CASE i > k
          <6>1. i - 1 \in 1 .. n /\ i - 1 >= k /\ (i - 1) + 1 = i
            BY <1>4, <5>3
          <6> QED
            BY <6>1, <3>k, <3>2, <1>h
        <5> QED
          BY <1>4, <5>1, <5>2, <5>3
      <4> QED
        BY <4>1, <2>6
    <3> QED
      BY <3>1, <3>2
  <2>8. Sorted(p.atoms)
    BY <2>4, <2>5
  <2> HIDE DEF p
  <2>9. WellFormed(and.table, C)
    BY <2>1, <2>5, <2>8, InternWellFormed
  <2>10. /\ Len(t) <= Len(and.table)
         /\ \A q \in 1 .. Len(t) : and.table[q] = t[q]
         /\ and.id \in 1 .. Len(and.table) /\ and.table[and.id] = p
    BY <1>1, <2>1, <2>5, InternTable
  <2> HIDE DEF and
  <2> QED
    BY <2>7, <2>9, <2>10 DEF and, AndConditionRight
<1> QED
  BY <1>5, <1>6, <1>7

-----------------------------------------------------------------------------
(* The merge walk. *)

\* The walk over two sorted lists finds a pair of opposite atoms if there is one,
\* and only then.
LEMMA OpposedExact ==
    ASSUME NEW C \in SUBSET Nat, NEW left \in Seq(Atom(C)), NEW right \in Seq(Atom(C)),
           Sorted(left), Sorted(right)
    PROVE  Opposed(left, right) <=>
              \E i \in 1 .. Len(left), j \in 1 .. Len(right) :
                  /\ left[i].condition = right[j].condition
                  /\ left[i].expected # right[j].expected
<1> DEFINE m == Len(left)
           n == Len(right)
           G == (1 .. m + 1) \X (1 .. n + 1)
           meets(i, j) == \E k \in 1 .. m, l \in 1 .. n :
                              /\ i <= k /\ j <= l
                              /\ left[k].condition = right[l].condition
                              /\ left[k].expected # right[l].expected
           body(w, i, j) ==
               /\ i <= m /\ j <= n
               /\ \/ left[i].condition < right[j].condition /\ w[<<i + 1, j>>]
                  \/ left[i].condition > right[j].condition /\ w[<<i, j + 1>>]
                  \/ /\ left[i].condition = right[j].condition
                     /\ left[i].expected # right[j].expected \/ w[<<i + 1, j + 1>>]
           walks(w) == w = [at \in G |-> body(w, at[1], at[2])]
           known == [at \in G |-> meets(at[1], at[2])]
           walk == CHOOSE w : walks(w)
<1>0. /\ m \in Nat /\ n \in Nat
      /\ \A i \in 1 .. m : left[i].condition \in Nat /\ left[i].expected \in BOOLEAN
      /\ \A j \in 1 .. n : right[j].condition \in Nat /\ right[j].expected \in BOOLEAN
  BY AtomTypes
<1>s. /\ \A i, k \in 1 .. m : i < k => left[i].condition < left[k].condition
      /\ \A j, l \in 1 .. n : j < l => right[j].condition < right[l].condition
  BY DEF Sorted
<1>o. /\ \A i, k \in 1 .. m : i <= k => left[i].condition <= left[k].condition
      /\ \A j, l \in 1 .. n : j <= l => right[j].condition <= right[l].condition
  <2>1. ASSUME NEW i \in 1 .. m, NEW k \in 1 .. m, i <= k
        PROVE  left[i].condition <= left[k].condition
    <3>1. CASE i = k
      BY <3>1, <1>0
    <3>2. CASE i < k
      BY <3>2, <1>0, <1>s
    <3> QED
      BY <2>1, <3>1, <3>2
  <2>2. ASSUME NEW j \in 1 .. n, NEW l \in 1 .. n, j <= l
        PROVE  right[j].condition <= right[l].condition
    <3>1. CASE j = l
      BY <3>1, <1>0
    <3>2. CASE j < l
      BY <3>2, <1>0, <1>s
    <3> QED
      BY <2>2, <3>1, <3>2
  <2> QED
    BY <2>1, <2>2
<1>1. Opposed(left, right) = walk[<<1, 1>>]
  BY DEF Opposed
<1>2. ASSUME NEW w, NEW i \in 1 .. m + 1, NEW j \in 1 .. n + 1,
             i <= m => (w[<<i + 1, j>>] <=> meets(i + 1, j)),
             j <= n => (w[<<i, j + 1>>] <=> meets(i, j + 1)),
             i <= m /\ j <= n => (w[<<i + 1, j + 1>>] <=> meets(i + 1, j + 1))
      PROVE  body(w, i, j) <=> meets(i, j)
  <2>1. CASE ~(i <= m /\ j <= n)
    BY <2>1, <1>0
  <2>2. CASE i <= m /\ j <= n /\ left[i].condition < right[j].condition
    <3>1. body(w, i, j) <=> meets(i + 1, j)
      <4>1. ~(left[i].condition > right[j].condition) /\ left[i].condition # right[j].condition
        BY <2>2, <1>0
      <4> HIDE DEF meets
      <4> QED
        BY <2>2, <4>1, <1>2
    <3>2. ASSUME NEW k \in 1 .. m, NEW l \in 1 .. n, i <= k, j <= l,
                 left[k].condition = right[l].condition
          PROVE  i + 1 <= k
      <4>1. right[j].condition <= right[l].condition
        <5>1. j \in 1 .. n
          BY <1>0, <2>2
        <5> QED
          BY <3>2, <5>1, <1>o
      <4>2. left[i].condition # left[k].condition
        <5>1. /\ i \in 1 .. m /\ j \in 1 .. n
              /\ left[i].condition \in Nat /\ right[j].condition \in Nat
              /\ right[l].condition \in Nat
          BY <1>0, <2>2
        <5> QED
          BY <4>1, <5>1, <3>2, <2>2
      <4>3. i # k
        BY <4>2
      <4> QED
        BY <4>3, <3>2
    <3>3. meets(i + 1, j) => meets(i, j)
      BY <1>0
    <3>4. meets(i, j) => meets(i + 1, j)
      BY <3>2
    <3> HIDE DEF meets, body
    <3> QED
      BY <3>1, <3>3, <3>4
  <2>3. CASE i <= m /\ j <= n /\ left[i].condition > right[j].condition
    <3>0. ~(left[i].condition < right[j].condition) /\ left[i].condition # right[j].condition
      BY <2>3, <1>0
    <3>1. body(w, i, j) <=> meets(i, j + 1)
      <4> HIDE DEF meets
      <4> QED
        BY <2>3, <3>0, <1>2
    <3>2. ASSUME NEW k \in 1 .. m, NEW l \in 1 .. n, i <= k, j <= l,
                 left[k].condition = right[l].condition
          PROVE  j + 1 <= l
      <4>1. left[i].condition <= left[k].condition
        <5>1. i \in 1 .. m
          BY <1>0, <2>3
        <5> QED
          BY <3>2, <5>1, <1>o
      <4>2. right[j].condition # right[l].condition
        <5>1. /\ i \in 1 .. m /\ j \in 1 .. n
              /\ left[i].condition \in Nat /\ right[j].condition \in Nat
              /\ left[k].condition \in Nat
          BY <1>0, <2>3
        <5> QED
          BY <4>1, <5>1, <3>2, <2>3
      <4>3. j # l
        BY <4>2
      <4> QED
        BY <4>3, <3>2
    <3>3. meets(i, j + 1) => meets(i, j)
      BY <1>0
    <3>4. meets(i, j) => meets(i, j + 1)
      BY <3>2
    <3> HIDE DEF meets, body
    <3> QED
      BY <3>1, <3>3, <3>4
  <2>4. CASE i <= m /\ j <= n /\ left[i].condition = right[j].condition
    <3>0. ~(left[i].condition < right[j].condition) /\ ~(left[i].condition > right[j].condition)
      BY <2>4, <1>0
    <3>1. body(w, i, j) <=> (left[i].expected # right[j].expected \/ meets(i + 1, j + 1))
      <4> HIDE DEF meets
      <4> QED
        BY <2>4, <3>0, <1>2
    <3>2. ASSUME NEW k \in 1 .. m, NEW l \in 1 .. n, i <= k, j <= l,
                 left[k].condition = right[l].condition
          PROVE  (k = i /\ l = j) \/ (i + 1 <= k /\ j + 1 <= l)
      <4>0. i \in 1 .. m /\ j \in 1 .. n
        BY <1>0, <2>4
      <4>1. i < k => left[i].condition < left[k].condition
        BY <3>2, <4>0, <1>s
      <4>2. j < l => right[j].condition < right[l].condition
        BY <3>2, <4>0, <1>s
      <4>3. i < k \/ i = k
        BY <3>2
      <4>4. j < l \/ j = l
        BY <3>2
      <4>5. /\ left[i].condition \in Nat /\ left[k].condition \in Nat
            /\ right[j].condition \in Nat /\ right[l].condition \in Nat
        BY <4>0, <1>0
      <4>6. i < k <=> j < l
        BY <4>1, <4>2, <4>3, <4>4, <4>5, <3>2, <2>4
      <4> QED
        BY <4>3, <4>4, <4>6
    <3>3. meets(i + 1, j + 1) => meets(i, j)
      BY <1>0
    <3>4. left[i].expected # right[j].expected => meets(i, j)
      <4>1. i \in 1 .. m /\ j \in 1 .. n /\ i <= i /\ j <= j
        BY <2>4, <1>0
      <4> QED
        BY <4>1, <2>4
    <3>5. ASSUME meets(i, j)
          PROVE  left[i].expected # right[j].expected \/ meets(i + 1, j + 1)
      <4>1. PICK k \in 1 .. m, l \in 1 .. n :
                /\ i <= k /\ j <= l
                /\ left[k].condition = right[l].condition
                /\ left[k].expected # right[l].expected
        BY <3>5
      <4>2. (k = i /\ l = j) \/ (i + 1 <= k /\ j + 1 <= l)
        BY <4>1, <3>2
      <4> QED
        BY <4>1, <4>2
    <3> HIDE DEF meets, body
    <3> QED
      BY <3>1, <3>3, <3>4, <3>5
  <2> QED
    BY <2>1, <2>2, <2>3, <2>4, <1>0
<1>g. \A i \in 1 .. m + 1, j \in 1 .. n + 1 :
         /\ <<i, j>> \in G /\ <<i, j>>[1] = i /\ <<i, j>>[2] = j
         /\ i <= m => <<i + 1, j>> \in G
         /\ j <= n => <<i, j + 1>> \in G
         /\ i <= m /\ j <= n => <<i + 1, j + 1>> \in G
  BY <1>0
<1>3. walks(known)
  <2>1. ASSUME NEW at \in G PROVE meets(at[1], at[2]) <=> body(known, at[1], at[2])
    <3>1. \A i \in 1 .. m + 1, j \in 1 .. n + 1 : known[<<i, j>>] <=> meets(i, j)
      <4> HIDE DEF meets, G
      <4> TAKE i \in 1 .. m + 1, j \in 1 .. n + 1
      <4>1. <<i, j>> \in G /\ <<i, j>>[1] = i /\ <<i, j>>[2] = j
        BY <1>g
      <4>2. known[<<i, j>>] = meets(<<i, j>>[1], <<i, j>>[2])
        BY <4>1
      <4> QED
        BY <4>1, <4>2
    <3>2. at[1] \in 1 .. m + 1 /\ at[2] \in 1 .. n + 1
      OBVIOUS
    <3>3. /\ at[1] <= m => at[1] + 1 \in 1 .. m + 1
          /\ at[2] <= n => at[2] + 1 \in 1 .. n + 1
      <4>1. \A b \in Nat : \A x \in 1 .. b + 1 : x <= b => x + 1 \in 1 .. b + 1
        OBVIOUS
      <4> HIDE DEF m, n
      <4> QED
        BY <1>0, <3>2, <4>1
    <3> HIDE DEF known, meets, body, G
    <3>4. /\ at[1] <= m => (known[<<at[1] + 1, at[2]>>] <=> meets(at[1] + 1, at[2]))
          /\ at[2] <= n => (known[<<at[1], at[2] + 1>>] <=> meets(at[1], at[2] + 1))
          /\ at[1] <= m /\ at[2] <= n =>
                (known[<<at[1] + 1, at[2] + 1>>] <=> meets(at[1] + 1, at[2] + 1))
      BY <3>1, <3>2, <3>3
    <3> QED
      BY <3>2, <3>4, <1>2
  <2>2. known = [at \in G |-> body(known, at[1], at[2])]
    BY <2>1
  <2> QED
    BY <2>2
<1>4. walks(walk)
  <2> HIDE DEF walks
  <2> QED
    BY <1>3
<1> DEFINE wrong == {k \in Nat : \E i \in 1 .. m + 1, j \in 1 .. n + 1 :
                              /\ k = (m + 1 - i) + (n + 1 - j)
                              /\ ~(walk[<<i, j>>] <=> meets(i, j))}
<1>6. ASSUME wrong # {} PROVE FALSE
  <2> HIDE DEF walk, meets, body
  <2>1. wrong \in SUBSET Nat
    OBVIOUS
  <2> DEFINE k == Min(wrong)
  <2>2. k \in wrong /\ \A y \in wrong : k <= y
    <3> HIDE DEF wrong
    <3> QED
      BY <1>6, <2>1, LeastMember
  <2> HIDE DEF k
  <2>3. PICK i \in 1 .. m + 1, j \in 1 .. n + 1 :
             k = (m + 1 - i) + (n + 1 - j) /\ ~(walk[<<i, j>>] <=> meets(i, j))
    BY <2>2
  <2>4. walk[<<i, j>>] <=> body(walk, i, j)
    <3> HIDE DEF G
    <3> DEFINE f == [at \in G |-> body(walk, at[1], at[2])]
    <3>1. walk = f
      BY <1>4
    <3>2. f[<<i, j>>] <=> body(walk, <<i, j>>[1], <<i, j>>[2])
      BY <1>g
    <3> HIDE DEF f
    <3> QED
      BY <3>1, <3>2
  <2>5. ASSUME NEW a \in 1 .. m + 1, NEW b \in 1 .. n + 1, a + b > i + j
        PROVE  walk[<<a, b>>] <=> meets(a, b)
    <3>1. (m + 1 - a) + (n + 1 - b) \in Nat /\ (m + 1 - a) + (n + 1 - b) < k
      BY <1>0, <2>3, <2>5
    <3>2. (m + 1 - a) + (n + 1 - b) \notin wrong
      <4> DEFINE d == (m + 1 - a) + (n + 1 - b)
      <4>1. k \in Nat /\ d \in Nat /\ d < k
        BY <2>2, <3>1
      <4> HIDE DEF d, wrong
      <4>2. d \notin wrong
        BY <2>2, <4>1
      <4> QED
        BY <4>2 DEF d
    <3> QED
      BY <3>1, <3>2
  <2>6. /\ i <= m => (walk[<<i + 1, j>>] <=> meets(i + 1, j))
        /\ j <= n => (walk[<<i, j + 1>>] <=> meets(i, j + 1))
        /\ i <= m /\ j <= n => (walk[<<i + 1, j + 1>>] <=> meets(i + 1, j + 1))
    <3>1. /\ i <= m => i + 1 \in 1 .. m + 1 /\ (i + 1) + j > i + j
          /\ j <= n => j + 1 \in 1 .. n + 1 /\ i + (j + 1) > i + j
          /\ (i + 1) + (j + 1) > i + j
      BY <1>0
    <3> QED
      BY <2>5, <3>1
  <2>7. body(walk, i, j) <=> meets(i, j)
    BY <1>2, <2>6
  <2> QED
    BY <2>3, <2>4, <2>7
<1>5. walk[<<1, 1>>] <=> meets(1, 1)
  <2> HIDE DEF walk, meets, body
  <2>1. 1 \in 1 .. m + 1 /\ 1 \in 1 .. n + 1 /\ (m + 1 - 1) + (n + 1 - 1) \in Nat
    BY <1>0
  <2> QED
    BY <1>6, <2>1
<1> QED
  BY <1>0, <1>1, <1>5

\* Two predicates with sorted atoms exclude each other exactly when no truth values
\* of the conditions satisfy both.
LEMMA ExclusiveMeans ==
    ASSUME NEW C \in SUBSET Nat, NEW p \in Predicate(C), NEW q \in Predicate(C),
           Sorted(p.atoms), Sorted(q.atoms)
    PROVE  MutuallyExclusive(p, q)
              <=> ~\E truth \in [C -> BOOLEAN] : Holds(p, truth) /\ Holds(q, truth)
<1> DEFINE left == p.atoms
           right == q.atoms
<1>1. /\ p.impossible \in BOOLEAN /\ left \in Seq(Atom(C)) /\ Sorted(left)
      /\ q.impossible \in BOOLEAN /\ right \in Seq(Atom(C)) /\ Sorted(right)
  BY PredicateTypes
<1>l. /\ DOMAIN left = 1 .. Len(left)
      /\ \A i \in 1 .. Len(left) : left[i].condition \in C /\ left[i].expected \in BOOLEAN
  BY <1>1, AtomTypes
<1>r. /\ DOMAIN right = 1 .. Len(right)
      /\ \A i \in 1 .. Len(right) : right[i].condition \in C /\ right[i].expected \in BOOLEAN
  BY <1>1, AtomTypes
<1>m. MutuallyExclusive(p, q) <=> p.impossible \/ q.impossible \/ Opposed(left, right)
  BY DEF MutuallyExclusive
<1>h. \A truth : /\ Holds(p, truth) <=>
                      /\ ~p.impossible
                      /\ \A i \in 1 .. Len(left) : truth[left[i].condition] = left[i].expected
                 /\ Holds(q, truth) <=>
                      /\ ~q.impossible
                      /\ \A i \in 1 .. Len(right) : truth[right[i].condition] = right[i].expected
  BY <1>l, <1>r DEF Holds
<1> HIDE DEF left, right
<1>o. Opposed(left, right) <=> \E i \in 1 .. Len(left), j \in 1 .. Len(right) :
                                   /\ left[i].condition = right[j].condition
                                   /\ left[i].expected # right[j].expected
  BY <1>1, OpposedExact
<1>2. ASSUME MutuallyExclusive(p, q), NEW truth, Holds(p, truth), Holds(q, truth) PROVE FALSE
  BY <1>2, <1>m, <1>h, <1>o
<1>3. ASSUME ~MutuallyExclusive(p, q)
      PROVE  \E truth \in [C -> BOOLEAN] : Holds(p, truth) /\ Holds(q, truth)
  <2> DEFINE stated(c) == \/ \E i \in 1 .. Len(left) : left[i].condition = c /\ left[i].expected
                          \/ \E i \in 1 .. Len(right) : right[i].condition = c /\ right[i].expected
             truth == [c \in C |-> IF stated(c) THEN TRUE ELSE FALSE]
  <2>0. ~p.impossible /\ ~q.impossible /\ ~Opposed(left, right)
    BY <1>3, <1>m
  <2>n. /\ Len(left) \in Nat /\ Len(right) \in Nat
        /\ \A i \in 1 .. Len(left) : left[i].condition \in Nat
        /\ \A i \in 1 .. Len(right) : right[i].condition \in Nat
    BY <1>1, <1>l, <1>r, AtomTypes
  <2>1. \A i, j \in 1 .. Len(left) : left[i].condition = left[j].condition => i = j
    <3> TAKE i, j \in 1 .. Len(left)
    <3>1. /\ i < j => left[i].condition < left[j].condition
          /\ j < i => left[j].condition < left[i].condition
      BY <1>1 DEF Sorted
    <3> QED
      BY <3>1, <2>n
  <2>2. \A i, j \in 1 .. Len(right) : right[i].condition = right[j].condition => i = j
    <3> TAKE i, j \in 1 .. Len(right)
    <3>1. /\ i < j => right[i].condition < right[j].condition
          /\ j < i => right[j].condition < right[i].condition
      BY <1>1 DEF Sorted
    <3> QED
      BY <3>1, <2>n
  <2>3. \A i \in 1 .. Len(left) : stated(left[i].condition) <=> left[i].expected
    BY <1>l, <1>r, <2>0, <2>1, <1>o
  <2>4. \A i \in 1 .. Len(right) : stated(right[i].condition) <=> right[i].expected
    BY <1>l, <1>r, <2>0, <2>2, <1>o
  <2> HIDE DEF stated
  <2>5. \A c \in C : truth[c] = IF stated(c) THEN TRUE ELSE FALSE
    OBVIOUS
  <2>6. truth \in [C -> BOOLEAN]
    OBVIOUS
  <2> HIDE DEF truth
  <2>7. \A i \in 1 .. Len(left) : truth[left[i].condition] = left[i].expected
    <3> TAKE i \in 1 .. Len(left)
    <3>1. CASE left[i].expected = TRUE
      BY <3>1, <1>l, <2>3, <2>5
    <3>2. CASE left[i].expected = FALSE
      BY <3>2, <1>l, <2>3, <2>5
    <3> QED
      BY <3>1, <3>2, <1>l
  <2>8. \A i \in 1 .. Len(right) : truth[right[i].condition] = right[i].expected
    <3> TAKE i \in 1 .. Len(right)
    <3>1. CASE right[i].expected = TRUE
      BY <3>1, <1>r, <2>4, <2>5
    <3>2. CASE right[i].expected = FALSE
      BY <3>2, <1>r, <2>4, <2>5
    <3> QED
      BY <3>1, <3>2, <1>r
  <2> QED
    BY <2>0, <2>6, <2>7, <2>8, <1>h
<1> QED
  BY <1>2, <1>3

=============================================================================
