------------------------ MODULE ClockedModuleProofs -------------------------
(***************************************************************************)
(* Theorems about the structured compiler: the predicate table for any     *)
(* calls, and the module of every program, for every set of signals,       *)
(* domains and statements.                                                 *)
(***************************************************************************)
EXTENDS ClockedTransfers, PredicateTable, PredicateProofs

-----------------------------------------------------------------------------
(* The table under any calls. *)

TableInv == WellFormed(table, Conditions)

\* The empty table is canonical.
LEMMA TableInvInit == TableInit => TableInv
<1> SUFFICES ASSUME TableInit PROVE TableInv
  OBVIOUS
<1>1. Always \in Predicate(Conditions) /\ Sorted(Always.atoms)
  BY AlwaysIsPredicate
<1>2. table = <<Always>> /\ table[1] = Always /\ Len(table) = 1
  BY DEF TableInit
<1>3. table \in Seq(Predicate(Conditions))
  BY <1>1, <1>2
<1> QED
  BY <1>1, <1>2, <1>3 DEF TableInv, WellFormed, Interned

\* Every call leaves the table canonical.
LEMMA TableInvStep == TableInv /\ [TableNext]_table => TableInv'
<1> SUFFICES ASSUME TableInv, [TableNext]_table PROVE TableInv'
  OBVIOUS
<1>1. CASE TableNext
  <2>1. PICK id \in DOMAIN table, c \in Conditions, e \in BOOLEAN : Strengthen(id, c, e)
    BY <1>1 DEF TableNext
  <2>2. id \in 1 .. Len(table) /\ Conditions \in SUBSET Nat
    BY ConditionsAssumption, LenProperties DEF TableInv, WellFormed
  <2>3. WellFormed(AndCondition(table, id, c, e).table, Conditions)
    BY <2>2, AndConditionTable DEF TableInv, AndConditionRight
  <2> QED
    BY <2>1, <2>3 DEF Strengthen, TableInv
<1>2. CASE UNCHANGED table
  BY <1>2 DEF TableInv
<1> QED
  BY <1>1, <1>2

\* So the table is canonical after any calls.
LEMMA TableInvAlways == TableSpec => []TableInv
BY TableInvInit, TableInvStep, PTL DEF TableSpec

\* Whatever guards are strengthened in whatever order, no predicate is stored twice
\* and every list of atoms stays sorted.
THEOREM TableIsCanonical == TableSpec => []Canonical
<1>1. TableInv => Canonical
  <2> SUFFICES ASSUME TableInv PROVE Canonical
    OBVIOUS
  <2>1. /\ table \in Seq(Predicate(Conditions)) /\ DOMAIN table = 1 .. Len(table)
        /\ Interned(table) /\ \A p \in 1 .. Len(table) : Sorted(table[p].atoms)
    BY LenProperties DEF TableInv, WellFormed
  <2>2. \A p \in 1 .. Len(table) : table[p].atoms \in Seq(Atom(Conditions))
    BY <2>1, ElementOfSeq, PredicateTypes
  <2>3. ASSUME NEW p \in 1 .. Len(table), NEW i \in 2 .. Len(table[p].atoms)
        PROVE  table[p].atoms[i - 1].condition < table[p].atoms[i].condition
    <3>1. Len(table[p].atoms) \in Nat
      BY <2>2, LenProperties
    <3>2. i - 1 \in 1 .. Len(table[p].atoms) /\ i \in 1 .. Len(table[p].atoms) /\ i - 1 < i
      BY <3>1
    <3> QED
      BY <2>1, <3>2 DEF Sorted
  <2> QED
    BY <2>1, <2>3 DEF Canonical, Interned
<1> QED
  BY <1>1, TableInvAlways, PTL

\* The merge walk over any two guards of the table is exact: it says they exclude
\* each other if and only if no truth values of the conditions satisfy both.
THEOREM TableExclusionIsExact == TableSpec => []ExclusionExact
<1>1. TableInv => ExclusionExact
  <2> SUFFICES ASSUME TableInv, NEW p \in DOMAIN table, NEW q \in DOMAIN table
               PROVE  MutuallyExclusive(table[p], table[q])
                         <=> ~\E truth \in [Conditions -> BOOLEAN] :
                                Holds(table[p], truth) /\ Holds(table[q], truth)
    BY DEF ExclusionExact
  <2>1. /\ table \in Seq(Predicate(Conditions)) /\ DOMAIN table = 1 .. Len(table)
        /\ \A r \in 1 .. Len(table) : Sorted(table[r].atoms)
    BY LenProperties DEF TableInv, WellFormed
  <2>2. /\ table[p] \in Predicate(Conditions) /\ Sorted(table[p].atoms)
        /\ table[q] \in Predicate(Conditions) /\ Sorted(table[q].atoms)
    BY <2>1, ElementOfSeq
  <2>3. Conditions \in SUBSET Nat
    BY ConditionsAssumption
  <2> QED
    BY <2>2, <2>3, ExclusiveMeans
<1> QED
  BY <1>1, TableInvAlways, PTL

-----------------------------------------------------------------------------
(***************************************************************************)
(* The module of a program.  The types, and where guards and processes of  *)
(* the statements are found.                                               *)
(***************************************************************************)
Role == {"read", "write", "producer", "consumer"}
Transfer == [process : Nat, destination : (SUBSET Signals) \ {{}}, reads : SUBSET Signals,
             guard : Nat, roles : [Signals -> SUBSET Role]]

TypeOK ==
    /\ phase \in {"resolving", "lowering", "composed", "failed"}
    /\ pending \in Seq(Nat)
    /\ processes \in Seq(Domains)
    /\ conditions \in Seq(SUBSET Signals)
    /\ transfers \in Seq(Transfer)
    /\ domain \in [Signals -> Domains \cup {NoDomain}]
    /\ WellFormed(predicates, 1 .. Len(conditions))

Placed ==
    /\ \A i \in 1 .. Len(pending) : pending[i] \in 1 .. Len(predicates)
    /\ pending # << >> => processes # << >>
    /\ \A i \in 1 .. Len(transfers) : /\ transfers[i].guard \in 1 .. Len(predicates)
                                      /\ transfers[i].process \in 1 .. Len(processes)

TypeInv == TypeOK /\ Placed

\* What the type invariant says of each field.
LEMMA TypesUnfold ==
    ASSUME TypeInv
    PROVE  /\ Len(pending) \in Nat /\ DOMAIN pending = 1 .. Len(pending)
           /\ Len(processes) \in Nat /\ DOMAIN processes = 1 .. Len(processes)
           /\ \A i \in 1 .. Len(processes) : processes[i] \in Domains
           /\ Len(conditions) \in Nat /\ DOMAIN conditions = 1 .. Len(conditions)
           /\ \A i \in 1 .. Len(conditions) : conditions[i] \in SUBSET Signals
           /\ Len(transfers) \in Nat /\ DOMAIN transfers = 1 .. Len(transfers)
           /\ \A i \in 1 .. Len(transfers) :
                 /\ transfers[i] \in Transfer
                 /\ transfers[i].destination \in (SUBSET Signals) \ {{}}
                 /\ transfers[i].reads \in SUBSET Signals
                 /\ transfers[i].guard \in 1 .. Len(predicates)
                 /\ transfers[i].process \in 1 .. Len(processes)
                 /\ transfers[i].roles \in [Signals -> SUBSET Role]
           /\ Len(predicates) \in Nat /\ DOMAIN predicates = 1 .. Len(predicates)
           /\ predicates \in Seq(Predicate(1 .. Len(conditions)))
<1>1. /\ pending \in Seq(Nat) /\ processes \in Seq(Domains)
      /\ conditions \in Seq(SUBSET Signals) /\ transfers \in Seq(Transfer)
      /\ predicates \in Seq(Predicate(1 .. Len(conditions)))
  BY DEF TypeInv, TypeOK, WellFormed
<1>2. \A i \in 1 .. Len(transfers) : transfers[i] \in Transfer
  BY <1>1, ElementOfSeq
<1>3. \A t \in Transfer : /\ t.destination \in (SUBSET Signals) \ {{}}
                          /\ t.reads \in SUBSET Signals
                          /\ t.roles \in [Signals -> SUBSET Role]
  BY DEF Transfer
<1>4. /\ \A i \in 1 .. Len(processes) : processes[i] \in Domains
      /\ \A i \in 1 .. Len(conditions) : conditions[i] \in SUBSET Signals
  BY <1>1, ElementOfSeq
<1>5. \A i \in 1 .. Len(transfers) : /\ transfers[i].guard \in 1 .. Len(predicates)
                                     /\ transfers[i].process \in 1 .. Len(processes)
  BY DEF TypeInv, Placed
<1>6. /\ Len(pending) \in Nat /\ DOMAIN pending = 1 .. Len(pending)
      /\ Len(processes) \in Nat /\ DOMAIN processes = 1 .. Len(processes)
      /\ Len(conditions) \in Nat /\ DOMAIN conditions = 1 .. Len(conditions)
      /\ Len(transfers) \in Nat /\ DOMAIN transfers = 1 .. Len(transfers)
      /\ Len(predicates) \in Nat /\ DOMAIN predicates = 1 .. Len(predicates)
  BY <1>1, LenProperties
<1> QED
  BY <1>1, <1>2, <1>3, <1>4, <1>5, <1>6

\* The statement in hand has a guard of the table and a process.
LEMMA HeadGuard ==
    ASSUME TypeInv, pending # << >>
    PROVE  /\ Head(pending) \in 1 .. Len(predicates)
           /\ Tail(pending) \in Seq(Nat)
           /\ \A i \in 1 .. Len(Tail(pending)) : Tail(pending)[i] \in 1 .. Len(predicates)
           /\ Len(processes) \in Nat \ {0}
           /\ Last(processes) = processes[Len(processes)]
           /\ Last(processes) \in Domains
<1>1. pending \in Seq(Nat) /\ processes \in Seq(Domains) /\ processes # << >>
  BY DEF TypeInv, TypeOK, Placed
<1>2. Len(pending) \in Nat \ {0} /\ Len(processes) \in Nat \ {0}
  BY <1>1, EmptySeq
<1>3. Head(pending) = pending[1]
  BY <1>1
<1>4. /\ Tail(pending) \in Seq(Nat) /\ Len(Tail(pending)) = Len(pending) - 1
      /\ \A i \in 1 .. Len(Tail(pending)) : Tail(pending)[i] = pending[i + 1]
  BY <1>1, HeadTailProperties
<1>5. \A i \in 1 .. Len(Tail(pending)) : i + 1 \in 1 .. Len(pending)
  BY <1>2, <1>4
<1>6. Last(processes) = processes[Len(processes)]
  BY DEF Last
<1> QED
  BY <1>1, <1>2, <1>3, <1>4, <1>5, <1>6, ElementOfSeq DEF TypeInv, Placed

\* The empty module is well typed.
LEMMA TypeInvInit == Init => TypeInv
<1> SUFFICES ASSUME Init PROVE TypeInv
  OBVIOUS
<1>1. /\ pending = << >> /\ processes = << >> /\ conditions = << >> /\ transfers = << >>
      /\ predicates = << >>
  BY DEF Init
<1>2. WellFormed(predicates, 1 .. Len(conditions))
  BY <1>1, EmptySeq DEF WellFormed, Interned
<1> QED
  BY <1>1, <1>2, EmptySeq DEF Init, TypeInv, TypeOK, Placed

\* A signal has some of the three roles.
LEMMA RolesType ==
    ASSUME NEW s, NEW w, NEW r PROVE Roles(s, w, r) \in SUBSET Role
BY DEF Roles, Role

\* One step of the resolver, for everything that does not resolve an assignment: the
\* table and the conditions only grow.
Grows ==
    /\ Len(predicates) <= Len(predicates')
    /\ \A p \in 1 .. Len(predicates) : predicates'[p] = predicates[p]
    /\ Len(conditions) <= Len(conditions')
    /\ \A c \in 1 .. Len(conditions) : conditions'[c] = conditions[c]
    /\ Len(processes) <= Len(processes')
    /\ \A p \in 1 .. Len(processes) : processes'[p] = processes[p]

\* Opening a process keeps the types, and what was published.
LEMMA AddProcessStep ==
    ASSUME TypeInv, NEW d \in Domains, AddProcess(d)
    PROVE  TypeInv' /\ Grows
<1> DEFINE true == Intern(predicates, Always)
<1>1. /\ phase' = phase /\ conditions' = conditions /\ transfers' = transfers /\ domain' = domain
      /\ processes' = Append(processes, d) /\ predicates' = true.table /\ pending' = <<true.id>>
  BY DEF AddProcess
<1>2. Always \in Predicate(1 .. Len(conditions)) /\ Sorted(Always.atoms)
  BY AlwaysIsPredicate
<1>3. WellFormed(predicates, 1 .. Len(conditions))
  BY DEF TypeInv, TypeOK
<1>4. WellFormed(true.table, 1 .. Len(conditions))
  BY <1>2, <1>3, InternWellFormed
<1>5. /\ Len(predicates) <= Len(true.table)
      /\ \A q \in 1 .. Len(predicates) : true.table[q] = predicates[q]
      /\ true.id \in 1 .. Len(true.table)
  BY <1>2, <1>3, InternTable DEF WellFormed
<1>6. /\ Append(processes, d) \in Seq(Domains) /\ Append(processes, d) # << >>
      /\ Len(Append(processes, d)) = Len(processes) + 1
      /\ \A i \in 1 .. Len(processes) : Append(processes, d)[i] = processes[i]
  <2>1. processes \in Seq(Domains)
    BY DEF TypeInv, TypeOK
  <2> QED
    BY <2>1, AppendProperties
<1> HIDE DEF true
<1>7. Len(true.table) \in Nat
  BY <1>4, LenProperties DEF WellFormed
<1>8. <<true.id>> \in Seq(Nat) /\ Len(<<true.id>>) = 1 /\ <<true.id>>[1] = true.id
  BY <1>5, <1>7
<1>9. TypeOK'
  BY <1>1, <1>4, <1>6, <1>8 DEF TypeInv, TypeOK
<1>10. Placed'
  BY <1>1, <1>5, <1>6, <1>7, <1>8, TypesUnfold DEF Placed
<1>11. Grows
  BY <1>1, <1>5, <1>6, TypesUnfold DEF Grows
<1> QED
  BY <1>9, <1>10, <1>11 DEF TypeInv

\* So does opening a block,
LEMMA ResolveBlockStep ==
    ASSUME TypeInv, NEW n \in {0, 2}, ResolveBlock(n)
    PROVE  TypeInv' /\ Grows
<1> DEFINE copies == [i \in 1 .. n |-> Head(pending)]
<1>1. /\ phase' = phase /\ conditions' = conditions /\ transfers' = transfers /\ domain' = domain
      /\ processes' = processes /\ predicates' = predicates /\ pending # << >>
      /\ pending' = copies \o Tail(pending)
  BY DEF ResolveBlock
<1>2. /\ Head(pending) \in 1 .. Len(predicates) /\ Tail(pending) \in Seq(Nat)
      /\ \A i \in 1 .. Len(Tail(pending)) : Tail(pending)[i] \in 1 .. Len(predicates)
  BY <1>1, HeadGuard
<1>3. n \in Nat /\ Head(pending) \in Nat
  BY <1>2, TypesUnfold
<1>4. copies \in Seq(Nat) /\ Len(copies) = n /\ \A i \in 1 .. n : copies[i] = Head(pending)
  BY <1>3
<1> HIDE DEF copies
<1>5. /\ pending' \in Seq(Nat) /\ Len(pending') = n + Len(Tail(pending))
      /\ \A i \in 1 .. n + Len(Tail(pending)) :
            pending'[i] = IF i <= n THEN copies[i] ELSE Tail(pending)[i - n]
  BY <1>1, <1>2, <1>4, ConcatProperties
<1>6. Len(Tail(pending)) \in Nat
  BY <1>2, LenProperties
<1>7. \A i \in 1 .. Len(pending') : pending'[i] \in 1 .. Len(predicates)
  <2> TAKE i \in 1 .. Len(pending')
  <2>1. CASE i <= n
    <3>1. i \in 1 .. n /\ i \in 1 .. n + Len(Tail(pending))
      BY <2>1, <1>3, <1>5, <1>6
    <3>2. pending'[i] = Head(pending)
      BY <2>1, <3>1, <1>4, <1>5
    <3> QED
      BY <3>2, <1>2
  <2>2. CASE ~(i <= n)
    <3>1. i - n \in 1 .. Len(Tail(pending))
      BY <2>2, <1>3, <1>5, <1>6
    <3> QED
      BY <3>1, <2>2, <1>2, <1>5
  <2> QED
    BY <2>1, <2>2
<1>8. TypeOK'
  BY <1>1, <1>5 DEF TypeInv, TypeOK
<1>9. Placed'
  BY <1>1, <1>7 DEF TypeInv, Placed
<1>10. Grows
  BY <1>1, TypesUnfold DEF Grows
<1> QED
  BY <1>8, <1>9, <1>10 DEF TypeInv

\* a conditional, whose branches get the guards the table returns,
LEMMA ResolveIfStep ==
    ASSUME TypeInv, NEW reads \in Tests, NEW has_else \in BOOLEAN, ResolveIf(reads, has_else)
    PROVE  TypeInv' /\ Grows
<1> DEFINE c == Len(conditions) + 1
           D == 1 .. c
           g == Head(pending)
           then == AndCondition(predicates, g, c, TRUE)
           else == AndCondition(then.table, g, c, FALSE)
           branches == IF has_else THEN <<then.id, else.id>> ELSE <<then.id>>
<1>1. /\ phase' = phase /\ transfers' = transfers /\ domain' = domain
      /\ processes' = processes /\ conditions' = Append(conditions, reads)
      /\ predicates' = else.table /\ pending # << >>
      /\ pending' = branches \o Tail(pending)
  BY DEF ResolveIf
<1>2. /\ g \in 1 .. Len(predicates) /\ Tail(pending) \in Seq(Nat)
      /\ \A i \in 1 .. Len(Tail(pending)) : Tail(pending)[i] \in 1 .. Len(predicates)
      /\ Len(processes) \in Nat \ {0}
  BY <1>1, HeadGuard
<1>3. /\ Append(conditions, reads) \in Seq(SUBSET Signals)
      /\ Len(Append(conditions, reads)) = c
      /\ \A i \in 1 .. Len(conditions) : Append(conditions, reads)[i] = conditions[i]
  BY AppendProperties, ProgramAssumption DEF TypeInv, TypeOK
<1>4. Len(conditions) \in Nat /\ Len(predicates) \in Nat /\ Len(processes) \in Nat
  BY TypesUnfold
<1>5. D \in SUBSET Nat /\ c \in D /\ 1 .. Len(conditions) \subseteq D
  BY <1>4
<1> HIDE DEF D, c, then, else, g
<1>6. WellFormed(predicates, D)
  BY <1>5, WellFormedMonotonic DEF TypeInv, TypeOK
<1>7. /\ WellFormed(then.table, D) /\ Len(predicates) <= Len(then.table)
      /\ \A q \in 1 .. Len(predicates) : then.table[q] = predicates[q]
      /\ then.id \in 1 .. Len(then.table)
  <2>1. AndConditionRight(predicates, g, c, TRUE, D, then)
    BY <1>2, <1>5, <1>6, AndConditionTable DEF then
  <2> QED
    BY <2>1 DEF AndConditionRight
<1>8. Len(then.table) \in Nat
  BY <1>7, LenProperties DEF WellFormed
<1>9. g \in 1 .. Len(then.table)
  BY <1>2, <1>4, <1>7, <1>8
<1>10. /\ WellFormed(else.table, D) /\ Len(then.table) <= Len(else.table)
       /\ \A q \in 1 .. Len(then.table) : else.table[q] = then.table[q]
       /\ else.id \in 1 .. Len(else.table)
  <2>1. AndConditionRight(then.table, g, c, FALSE, D, else)
    BY <1>5, <1>7, <1>9, AndConditionTable DEF else
  <2> QED
    BY <2>1 DEF AndConditionRight
<1>11. Len(else.table) \in Nat
  BY <1>10, LenProperties DEF WellFormed
<1>12. /\ branches \in Seq(Nat)
       /\ \A i \in 1 .. Len(branches) : branches[i] \in 1 .. Len(else.table)
  <2>1. then.id \in 1 .. Len(else.table) /\ else.id \in 1 .. Len(else.table)
    BY <1>7, <1>8, <1>10, <1>11
  <2>2. then.id \in Nat /\ else.id \in Nat
    BY <2>1, <1>11
  <2>3. CASE has_else
    BY <2>1, <2>2, <2>3
  <2>4. CASE ~has_else
    BY <2>1, <2>2, <2>4
  <2> QED
    BY <2>3, <2>4
<1> HIDE DEF branches
<1>13. /\ pending' \in Seq(Nat) /\ Len(pending') = Len(branches) + Len(Tail(pending))
       /\ \A i \in 1 .. Len(branches) + Len(Tail(pending)) :
             pending'[i] = IF i <= Len(branches) THEN branches[i]
                           ELSE Tail(pending)[i - Len(branches)]
  BY <1>1, <1>2, <1>12, ConcatProperties
<1>14. Len(branches) \in Nat /\ Len(Tail(pending)) \in Nat
  BY <1>2, <1>12, LenProperties
<1>15. Len(predicates) <= Len(else.table)
  BY <1>4, <1>7, <1>8, <1>10, <1>11
<1>16. \A i \in 1 .. Len(pending') : pending'[i] \in 1 .. Len(else.table)
  <2> TAKE i \in 1 .. Len(pending')
  <2>1. CASE i <= Len(branches)
    BY <2>1, <1>12, <1>13, <1>14
  <2>2. CASE ~(i <= Len(branches))
    <3>1. i - Len(branches) \in 1 .. Len(Tail(pending))
      BY <2>2, <1>13, <1>14
    <3>2. pending'[i] \in 1 .. Len(predicates)
      BY <3>1, <2>2, <1>2, <1>13
    <3> QED
      BY <3>2, <1>4, <1>11, <1>15
  <2> QED
    BY <2>1, <2>2
<1>17. TypeOK'
  <2>1. WellFormed(predicates', 1 .. Len(conditions'))
    BY <1>1, <1>3, <1>10 DEF D
  <2> QED
    BY <1>1, <1>3, <1>13, <2>1 DEF TypeInv, TypeOK
<1>18. Placed'
  <2>1. \A i \in 1 .. Len(transfers) : transfers[i].guard \in 1 .. Len(else.table)
    BY <1>4, <1>11, <1>15 DEF TypeInv, Placed
  <2>2. processes # << >>
    BY <1>2
  <2> QED
    BY <1>1, <1>16, <2>1, <2>2 DEF TypeInv, Placed
<1>19. Grows
  <2>1. \A q \in 1 .. Len(predicates) : else.table[q] = predicates[q]
    BY <1>4, <1>7, <1>8, <1>10
  <2>2. Len(conditions) <= Len(conditions')
    BY <1>1, <1>3, <1>4 DEF c
  <2> QED
    BY <1>1, <1>3, <1>4, <1>15, <2>1, <2>2 DEF Grows
<1> QED
  BY <1>17, <1>18, <1>19 DEF TypeInv

\* What a statement that is taken adds: its transfer, the last one.
Added(a) ==
    LET t == transfers'[Len(transfers) + 1]
    IN /\ transfers' \in Seq(Transfer)
       /\ Len(transfers') = Len(transfers) + 1
       /\ \A i \in 1 .. Len(transfers) : transfers'[i] = transfers[i]
       /\ t.process = Len(processes) /\ t.destination = a.destination /\ t.reads = a.reads
       /\ t.guard = Head(pending)
       /\ t.roles = [s \in Signals |->
                        Roles(s, a.destination, a.reads \union GuardReads(Head(pending)))]

\* An assignment that is accepted publishes one transfer, of lawful roles and one domain.
LEMMA AssignmentAdds ==
    ASSUME TypeInv, NEW a \in Statements, ResolveAssignment(a), phase' # "failed"
    PROVE  /\ Added(a)
           /\ LET roles == transfers'[Len(transfers) + 1].roles
              IN \A s \in Signals :
                   /\ ~({"consumer", "producer"} \subseteq roles[s])
                   /\ roles[s] # {} => MayBind(s, Last(processes))
                   /\ domain'[s] = IF roles[s] # {} /\ Elastic(s) THEN Last(processes)
                                   ELSE domain[s]
           /\ pending # << >> /\ pending' = Tail(pending) /\ phase' = phase
           /\ phase = "resolving"
           /\ UNCHANGED <<processes, conditions, predicates, rtl>>
           /\ domain' \in [Signals -> Domains \cup {NoDomain}]
<1> DEFINE guard == Head(pending)
           roles == [s \in Signals |-> Roles(s, a.destination, a.reads \union GuardReads(guard))]
           used == {s \in Signals : roles[s] # {}}
           t == [process |-> Len(processes), destination |-> a.destination,
                 reads |-> a.reads, guard |-> guard, roles |-> roles]
<1>1. /\ pending # << >> /\ phase = "resolving"
      /\ ~\E s \in used : {"consumer", "producer"} \subseteq roles[s]
      /\ ~\E s \in used : ~MayBind(s, Last(processes))
      /\ transfers' = Append(transfers, t)
      /\ domain' = [s \in Signals |-> IF s \in used /\ Elastic(s) THEN Last(processes)
                                      ELSE domain[s]]
      /\ pending' = Tail(pending)
      /\ UNCHANGED <<phase, processes, conditions, predicates, rtl>>
  BY DEF ResolveAssignment, Fail
<1>2. guard \in 1 .. Len(predicates) /\ Len(processes) \in Nat /\ Last(processes) \in Domains
  BY <1>1, HeadGuard
<1>3. roles \in [Signals -> SUBSET Role]
  BY RolesType
<1>4. Len(predicates) \in Nat
  BY TypesUnfold
<1> HIDE DEF roles
<1>5. t \in Transfer
  BY <1>2, <1>3, <1>4, ProgramAssumption DEF Transfer
<1>6. /\ t.process = Len(processes) /\ t.destination = a.destination /\ t.reads = a.reads
      /\ t.guard = guard /\ t.roles = roles
  OBVIOUS
<1> HIDE DEF t
<1>7. /\ transfers' \in Seq(Transfer) /\ Len(transfers') = Len(transfers) + 1
      /\ \A i \in 1 .. Len(transfers) : transfers'[i] = transfers[i]
      /\ transfers'[Len(transfers) + 1] = t
  BY <1>1, <1>5, AppendProperties DEF TypeInv, TypeOK
<1>8. Added(a)
  BY <1>6, <1>7 DEF Added, roles
<1>9. \A s \in Signals : ~({"consumer", "producer"} \subseteq roles[s])
  BY <1>1
<1>10. \A s \in Signals : /\ roles[s] # {} => MayBind(s, Last(processes))
                          /\ domain'[s] = IF roles[s] # {} /\ Elastic(s) THEN Last(processes)
                                          ELSE domain[s]
  BY <1>1
<1>11. domain' \in [Signals -> Domains \cup {NoDomain}]
  BY <1>1, <1>2 DEF TypeInv, TypeOK
<1> QED
  BY <1>1, <1>6, <1>7, <1>8, <1>9, <1>10, <1>11

\* and so does an assignment.
LEMMA ResolveAssignmentStep ==
    ASSUME TypeInv, NEW a \in Statements, ResolveAssignment(a)
    PROVE  TypeInv' /\ Grows
<1>1. CASE phase' = "failed"
  <2>1. UNCHANGED resolution
    BY <1>1 DEF ResolveAssignment, Fail, resolution
  <2> QED
    BY <1>1, <2>1, TypesUnfold DEF resolution, TypeInv, TypeOK, Placed, Grows
<1>2. CASE phase' # "failed"
  <2>1. /\ Added(a) /\ pending # << >> /\ pending' = Tail(pending) /\ phase' = phase
        /\ UNCHANGED <<processes, conditions, predicates, rtl>>
        /\ domain' \in [Signals -> Domains \cup {NoDomain}]
    BY <1>2, AssignmentAdds
  <2>2. /\ Head(pending) \in 1 .. Len(predicates) /\ Tail(pending) \in Seq(Nat)
        /\ \A i \in 1 .. Len(Tail(pending)) : Tail(pending)[i] \in 1 .. Len(predicates)
        /\ Len(processes) \in Nat \ {0}
    BY <2>1, HeadGuard
  <2>3. TypeOK'
    BY <2>1, <2>2 DEF TypeInv, TypeOK, Added
  <2>4. \A i \in 1 .. Len(transfers') : /\ transfers'[i].guard \in 1 .. Len(predicates)
                                        /\ transfers'[i].process \in 1 .. Len(processes)
    <3> TAKE i \in 1 .. Len(transfers')
    <3>1. Len(transfers') = Len(transfers) + 1 /\ Len(transfers) \in Nat
      BY <2>1, TypesUnfold DEF Added
    <3>2. CASE i = Len(transfers) + 1
      BY <2>1, <2>2, <3>2 DEF Added
    <3>3. CASE i \in 1 .. Len(transfers)
      BY <2>1, <3>3, TypesUnfold DEF Added
    <3> QED
      BY <3>1, <3>2, <3>3
  <2>5. Placed'
    BY <2>1, <2>2, <2>4, EmptySeq DEF Placed
  <2> QED
    BY <2>1, <2>3, <2>5, TypesUnfold DEF TypeInv, Grows
<1> QED
  BY <1>1, <1>2

\* Lowering leaves what was resolved alone.
LEMMA LoweringKeeps ==
    ASSUME ValidateOwnership \/ LowerTransfer \/ CloseProcess \/ ComposeModule
           \/ UNCHANGED vars
    PROVE  /\ UNCHANGED resolution
           /\ phase' \in {"lowering", "composed", "failed"} \/ phase' = phase
<1>1. CASE ValidateOwnership
  BY <1>1 DEF ValidateOwnership, Fail
<1>2. CASE LowerTransfer
  BY <1>2 DEF LowerTransfer, Fail
<1>3. CASE CloseProcess
  BY <1>3 DEF CloseProcess
<1>4. CASE ComposeModule
  BY <1>4 DEF ComposeModule, Fail
<1>5. CASE UNCHANGED vars
  BY <1>5 DEF vars
<1> QED
  BY <1>1, <1>2, <1>3, <1>4, <1>5

\* Every step keeps the types.
LEMMA TypeInvStep ==
    ASSUME TypeInv, [Next]_vars PROVE TypeInv' /\ Grows
<1>1. ASSUME NEW d \in Domains, AddProcess(d) PROVE TypeInv' /\ Grows
  BY <1>1, AddProcessStep
<1>2. ASSUME NEW n \in {0, 2}, ResolveBlock(n) PROVE TypeInv' /\ Grows
  BY <1>2, ResolveBlockStep
<1>3. ASSUME NEW reads \in Tests, NEW has_else \in BOOLEAN, ResolveIf(reads, has_else)
      PROVE  TypeInv' /\ Grows
  BY <1>3, ResolveIfStep
<1>4. ASSUME NEW a \in Statements, ResolveAssignment(a) PROVE TypeInv' /\ Grows
  BY <1>4, ResolveAssignmentStep
<1>5. CASE ValidateOwnership \/ LowerTransfer \/ CloseProcess \/ ComposeModule \/ UNCHANGED vars
  <2>1. UNCHANGED resolution /\ (phase' \in {"lowering", "composed", "failed"} \/ phase' = phase)
    BY <1>5, LoweringKeeps
  <2> QED
    BY <2>1, TypesUnfold DEF resolution, TypeInv, TypeOK, Placed, Grows
<1> QED
  BY <1>1, <1>2, <1>3, <1>4, <1>5 DEF Next

\* So the module is well typed throughout.
LEMMA TypeInvAlways == Spec => []TypeInv
<1>1. TypeInv /\ [Next]_vars => TypeInv'
  BY TypeInvStep
<1> QED
  BY <1>1, TypeInvInit, PTL DEF Spec

-----------------------------------------------------------------------------
(* What the resolver keeps about every transfer. *)

\* The roles of a transfer are those of its own signals and of those its guard reads,
\* and no signal is both drained and filled.
RolesRight(t, guard_reads) ==
    /\ t.roles = [s \in Signals |-> Roles(s, t.destination, t.reads \union guard_reads)]
    /\ \A s \in Signals : ~({"consumer", "producer"} \subseteq t.roles[s])

RolesInv == \A i \in 1 .. Len(transfers), g \in 1 .. Len(predicates) :
                transfers[i].guard = g => RolesRight(transfers[i], GuardReads(g))

\* A bound signal belongs to the domain of every process that uses it.
DomainInv ==
    \A i \in 1 .. Len(transfers), s \in Signals :
        Elastic(s) /\ transfers[i].roles[s] # {}
            => domain[s] = processes[transfers[i].process]

\* What a guard reads does not change any more.
LEMMA GuardReadsStable ==
    ASSUME TypeInv, Grows, NEW g \in 1 .. Len(predicates)
    PROVE  GuardReads(g)' = GuardReads(g)
<1>1. predicates'[g] = predicates[g]
  BY DEF Grows
<1>2. predicates[g].atoms \in Seq(Atom(1 .. Len(conditions)))
  BY TypesUnfold, ElementOfSeq, PredicateTypes
<1>3. \A i \in DOMAIN predicates[g].atoms :
         predicates[g].atoms[i].condition \in 1 .. Len(conditions)
  BY <1>2, AtomTypes
<1>4. \A i \in DOMAIN predicates[g].atoms :
         conditions'[predicates[g].atoms[i].condition]
           = conditions[predicates[g].atoms[i].condition]
  BY <1>3 DEF Grows
<1>5. GuardReads(g)' = UNION {conditions'[predicates[g].atoms[i].condition] :
                                  i \in DOMAIN predicates[g].atoms}
  BY <1>1 DEF GuardReads
<1>6. {conditions'[predicates[g].atoms[i].condition] : i \in DOMAIN predicates[g].atoms}
       = {conditions[predicates[g].atoms[i].condition] : i \in DOMAIN predicates[g].atoms}
  BY <1>4
<1> QED
  BY <1>5, <1>6 DEF GuardReads

\* A step adds the transfer of one assignment, or none.
LEMMA StepAdds ==
    ASSUME TypeInv, [Next]_vars
    PROVE  \/ UNCHANGED <<transfers, domain>>
           \/ \E a \in Statements : ResolveAssignment(a) /\ phase' # "failed"
<1>1. ASSUME NEW d \in Domains, AddProcess(d) PROVE UNCHANGED <<transfers, domain>>
  BY <1>1 DEF AddProcess
<1>2. ASSUME NEW n \in {0, 2}, ResolveBlock(n) PROVE UNCHANGED <<transfers, domain>>
  BY <1>2 DEF ResolveBlock
<1>3. ASSUME NEW reads \in Tests, NEW has_else \in BOOLEAN, ResolveIf(reads, has_else)
      PROVE  UNCHANGED <<transfers, domain>>
  BY <1>3 DEF ResolveIf
<1>4. ASSUME NEW a \in Statements, ResolveAssignment(a), phase' = "failed"
      PROVE  UNCHANGED <<transfers, domain>>
  BY <1>4 DEF ResolveAssignment, Fail, resolution
<1>5. CASE ValidateOwnership \/ LowerTransfer \/ CloseProcess \/ ComposeModule \/ UNCHANGED vars
  BY <1>5, LoweringKeeps DEF resolution
<1> QED
  BY <1>1, <1>2, <1>3, <1>4, <1>5 DEF Next

\* No step gives a signal contradictory roles.
LEMMA RolesInvStep ==
    ASSUME TypeInv, RolesInv, [Next]_vars PROVE RolesInv'
<1>1. TypeInv' /\ Grows
  BY TypeInvStep
<1>2. ASSUME NEW i \in 1 .. Len(transfers), NEW g \in 1 .. Len(predicates'),
             transfers[i].guard = g
      PROVE  RolesRight(transfers[i], GuardReads(g)')
  <2>1. g \in 1 .. Len(predicates)
    BY <1>2, TypesUnfold
  <2>2. GuardReads(g)' = GuardReads(g)
    BY <1>1, <2>1, GuardReadsStable
  <2> QED
    BY <1>2, <2>1, <2>2 DEF RolesInv
<1>3. CASE UNCHANGED <<transfers, domain>>
  BY <1>2, <1>3 DEF RolesInv, RolesRight, Roles, Elastic, Static
<1>4. ASSUME NEW a \in Statements, ResolveAssignment(a), phase' # "failed" PROVE RolesInv'
  <2> DEFINE t == transfers'[Len(transfers) + 1]
  <2>1. /\ Added(a) /\ pending # << >>
        /\ \A s \in Signals : ~({"consumer", "producer"} \subseteq t.roles[s])
    BY <1>4, AssignmentAdds
  <2>2. Head(pending) \in 1 .. Len(predicates) /\ Len(transfers) \in Nat
    BY <2>1, HeadGuard, TypesUnfold
  <2>3. /\ \A i \in 1 .. Len(transfers) : transfers'[i] = transfers[i]
        /\ Len(transfers') = Len(transfers) + 1 /\ t.guard = Head(pending)
        /\ RolesRight(t, GuardReads(Head(pending)))
    BY <2>1 DEF Added, RolesRight
  <2> HIDE DEF t
  <2> SUFFICES ASSUME NEW i \in 1 .. Len(transfers'), NEW g \in 1 .. Len(predicates'),
                      transfers'[i].guard = g
               PROVE  RolesRight(transfers'[i], GuardReads(g)')
    BY DEF RolesInv, RolesRight, Roles, Elastic, Static
  <2>4. CASE i \in 1 .. Len(transfers)
    BY <2>3, <2>4, <1>2
  <2>5. CASE i = Len(transfers) + 1
    <3>1. t = transfers'[i] /\ g = Head(pending)
      BY <2>3, <2>5 DEF t
    <3>2. GuardReads(g)' = GuardReads(g)
      BY <1>1, <2>2, <3>1, GuardReadsStable
    <3> QED
      BY <2>3, <3>1, <3>2
  <2>6. i \in 1 .. Len(transfers) \/ i = Len(transfers) + 1
    BY <2>2, <2>3
  <2> QED
    BY <2>4, <2>5, <2>6
<1> QED
  BY <1>3, <1>4, StepAdds

\* No step lets a stored signal belong to two domains.
LEMMA DomainInvStep ==
    ASSUME TypeInv, DomainInv, [Next]_vars PROVE DomainInv'
<1>1. Grows
  BY TypeInvStep
<1>2. \A i \in 1 .. Len(transfers) :
         /\ transfers[i].process \in 1 .. Len(processes)
         /\ processes'[transfers[i].process] = processes[transfers[i].process]
  BY <1>1, TypesUnfold DEF Grows
<1>3. CASE UNCHANGED <<transfers, domain>>
  BY <1>2, <1>3 DEF DomainInv
<1>4. ASSUME NEW a \in Statements, ResolveAssignment(a), phase' # "failed" PROVE DomainInv'
  <2> DEFINE n == Len(transfers)
             new == transfers'[n + 1].roles
  <2>1. /\ Added(a) /\ pending # << >> /\ UNCHANGED <<processes, conditions, predicates, rtl>>
        /\ \A s \in Signals :
              /\ new[s] # {} => MayBind(s, Last(processes))
              /\ domain'[s] = IF new[s] # {} /\ Elastic(s) THEN Last(processes) ELSE domain[s]
    BY <1>4, AssignmentAdds
  <2>2. /\ n \in Nat /\ n + 1 \in 1 .. Len(transfers') /\ Len(transfers') = n + 1
        /\ \A i \in 1 .. n : transfers'[i] = transfers[i]
        /\ transfers'[n + 1].process = Len(processes)
    BY <2>1, TypesUnfold DEF Added
  <2>3. Last(processes) = processes[Len(processes)]
    BY <2>1, HeadGuard
  <2> HIDE DEF new, n
  <2> SUFFICES ASSUME NEW i \in 1 .. n + 1, NEW s \in Signals,
                      Elastic(s), transfers'[i].roles[s] # {}
               PROVE  domain'[s] = processes'[transfers'[i].process]
    BY <2>2 DEF DomainInv, Elastic, Static
  <2>4. CASE i \in 1 .. n
    <3>1. /\ transfers'[i] = transfers[i] /\ domain[s] = processes[transfers[i].process]
          /\ transfers[i].process \in 1 .. Len(processes)
      BY <2>2, <2>4, TypesUnfold DEF DomainInv, n
    <3>2. CASE new[s] = {}
      BY <3>1, <3>2, <2>1
    <3>3. CASE new[s] # {}
      <4>1. domain[s] \in {NoDomain, Last(processes)}
        BY <3>3, <2>1 DEF MayBind, Elastic
      <4>2. domain[s] # NoDomain
        BY <3>1, TypesUnfold, ProgramAssumption
      <4> QED
        BY <3>1, <3>3, <4>1, <4>2, <2>1
    <3> QED
      BY <3>2, <3>3
  <2>5. CASE i = n + 1
    BY <2>1, <2>2, <2>3, <2>5 DEF new
  <2> QED
    BY <2>2, <2>4, <2>5
<1> QED
  BY <1>3, <1>4, StepAdds

\* Before the first transfer there is nothing to contradict.
LEMMA ResolvedInit == Init => RolesInv /\ DomainInv
<1> SUFFICES ASSUME Init PROVE RolesInv /\ DomainInv
  OBVIOUS
<1>1. transfers = << >> /\ Len(transfers) = 0
  BY DEF Init
<1> QED
  BY <1>1 DEF RolesInv, DomainInv

\* So every published transfer is of lawful roles and one domain.
LEMMA ResolvedAlways == Spec => [](TypeInv /\ RolesInv /\ DomainInv)
<1>1. Init => TypeInv /\ RolesInv /\ DomainInv
  BY TypeInvInit, ResolvedInit
<1>2. TypeInv /\ RolesInv /\ DomainInv /\ [Next]_vars => (TypeInv /\ RolesInv /\ DomainInv)'
  BY TypeInvStep, RolesInvStep, DomainInvStep
<1> QED
  BY <1>1, <1>2, PTL DEF Spec

\* The elastic signals of every module are used from one clock domain each: also
\* those of a module that is not accepted, up to its last statement.
THEOREM OneDomain == Spec => []OneClockDomain
<1>1. TypeInv /\ DomainInv => OneClockDomain
  <2> SUFFICES ASSUME TypeInv, DomainInv,
                      NEW t1 \in DOMAIN transfers, NEW t2 \in DOMAIN transfers, NEW s \in Signals,
                      Elastic(s), transfers[t1].roles[s] # {}, transfers[t2].roles[s] # {}
               PROVE  processes[transfers[t1].process] = processes[transfers[t2].process]
    BY DEF OneClockDomain
  <2>1. t1 \in 1 .. Len(transfers) /\ t2 \in 1 .. Len(transfers)
    BY TypesUnfold
  <2>2. /\ domain[s] = processes[transfers[t1].process]
        /\ domain[s] = processes[transfers[t2].process]
    BY <2>1 DEF DomainInv
  <2> QED
    BY <2>2
<1> QED
  BY <1>1, ResolvedAlways, PTL

\* No transfer of any program fills the storage it drains, through its value or
\* through the conditions of its guard.
THEOREM NoSelfFeed == Spec => []NeverFeedsItself
<1>1. TypeInv /\ RolesInv => NeverFeedsItself
  <2> SUFFICES ASSUME TypeInv, RolesInv, NEW i \in DOMAIN transfers,
                      NEW s \in transfers[i].destination, Elastic(s),
                      s \in transfers[i].reads \union GuardReads(transfers[i].guard)
               PROVE  FALSE
    BY DEF NeverFeedsItself
  <2>1. /\ i \in 1 .. Len(transfers) /\ transfers[i].guard \in 1 .. Len(predicates)
        /\ transfers[i].destination \in (SUBSET Signals) \ {{}}
    BY TypesUnfold
  <2> DEFINE reads == transfers[i].reads \union GuardReads(transfers[i].guard)
  <2>2. /\ transfers[i].roles = [x \in Signals |-> Roles(x, transfers[i].destination, reads)]
        /\ \A x \in Signals : ~({"consumer", "producer"} \subseteq transfers[i].roles[x])
    BY <2>1 DEF RolesInv, RolesRight
  <2>3. s \in Signals /\ transfers[i].roles[s] = Roles(s, transfers[i].destination, reads)
    BY <2>1, <2>2
  <2>4. s \in reads
    OBVIOUS
  <2> HIDE DEF reads
  <2>5. {"consumer", "producer"} \subseteq Roles(s, transfers[i].destination, reads)
    BY <2>4 DEF Roles
  <2> QED
    BY <2>2, <2>3, <2>5
<1> QED
  BY <1>1, ResolvedAlways, PTL

-----------------------------------------------------------------------------
(* What the validation of ownership establishes, lowering keeps. *)

\* No two transfers of the resolved program share a role of an elastic signal under
\* guards that can be true together.
Disjoint ==
    \A t1, t2 \in DOMAIN transfers, s \in Signals :
        /\ t1 # t2 /\ Elastic(s)
        /\ transfers[t1].roles[s] \intersect transfers[t2].roles[s]
               \intersect {"consumer", "producer"} # {}
        => ~\E truth \in [DOMAIN conditions -> BOOLEAN] :
                /\ Holds(predicates[transfers[t1].guard], truth)
                /\ Holds(predicates[transfers[t2].guard], truth)

\* The pairwise walk over the transfers decides it.
LEMMA NoConflictIsDisjoint ==
    ASSUME TypeInv, ~Conflicts("consumer"), ~Conflicts("producer") PROVE Disjoint
<1> SUFFICES ASSUME NEW t1 \in DOMAIN transfers, NEW t2 \in DOMAIN transfers, NEW s \in Signals,
                    t1 # t2, Elastic(s),
                    NEW role \in {"consumer", "producer"},
                    role \in transfers[t1].roles[s], role \in transfers[t2].roles[s],
                    NEW truth \in [DOMAIN conditions -> BOOLEAN],
                    Holds(predicates[transfers[t1].guard], truth),
                    Holds(predicates[transfers[t2].guard], truth)
             PROVE  FALSE
  BY DEF Disjoint
<1> DEFINE C == 1 .. Len(conditions)
           p1 == predicates[transfers[t1].guard]
           p2 == predicates[transfers[t2].guard]
<1>1. /\ t1 \in Nat /\ t2 \in Nat
      /\ transfers[t1].guard \in 1 .. Len(predicates)
      /\ transfers[t2].guard \in 1 .. Len(predicates)
  BY TypesUnfold
<1>2. predicates \in Seq(Predicate(C)) /\ \A q \in 1 .. Len(predicates) : Sorted(predicates[q].atoms)
  BY DEF TypeInv, TypeOK, WellFormed
<1>3. /\ p1 \in Predicate(C) /\ Sorted(p1.atoms)
      /\ p2 \in Predicate(C) /\ Sorted(p2.atoms)
  BY <1>1, <1>2, ElementOfSeq
<1>4. C \in SUBSET Nat /\ C = DOMAIN conditions
  BY TypesUnfold
<1>5. ~Conflicts(role)
  OBVIOUS
<1>6. MutuallyExclusive(p1, p2) \/ MutuallyExclusive(p2, p1)
  BY <1>1, <1>5 DEF Conflicts
<1>7. truth \in [C -> BOOLEAN] /\ Holds(p1, truth) /\ Holds(p2, truth)
  BY <1>4
<1> HIDE DEF C, p1, p2
<1>8. ~MutuallyExclusive(p1, p2)
  BY <1>3, <1>4, <1>7, ExclusiveMeans
<1>9. ~MutuallyExclusive(p2, p1)
  BY <1>3, <1>4, <1>7, ExclusiveMeans
<1> QED
  BY <1>6, <1>8, <1>9

\* Only validation accepts a module.
LEMMA AcceptedFrom ==
    ASSUME TypeInv, [Next]_vars, Accepted'
    PROVE  UNCHANGED resolution /\ (Accepted \/ ValidateOwnership)
<1>1. ASSUME NEW d \in Domains, AddProcess(d) PROVE FALSE
  BY <1>1 DEF AddProcess, Accepted
<1>2. ASSUME NEW n \in {0, 2}, ResolveBlock(n) PROVE FALSE
  BY <1>2 DEF ResolveBlock, Accepted
<1>3. ASSUME NEW reads \in Tests, NEW has_else \in BOOLEAN, ResolveIf(reads, has_else)
      PROVE  FALSE
  BY <1>3 DEF ResolveIf, Accepted
<1>4. ASSUME NEW a \in Statements, ResolveAssignment(a) PROVE FALSE
  BY <1>4 DEF ResolveAssignment, Fail, Accepted
<1>5. CASE ValidateOwnership
  BY <1>5, LoweringKeeps
<1>6. CASE LowerTransfer \/ CloseProcess \/ ComposeModule
  BY <1>6, LoweringKeeps DEF LowerTransfer, CloseProcess, ComposeModule, Accepted
<1>7. CASE UNCHANGED vars
  BY <1>7, LoweringKeeps DEF vars, Accepted
<1> QED
  BY <1>1, <1>2, <1>3, <1>4, <1>5, <1>6, <1>7 DEF Next

\* Once a module is accepted, the property is disjointness of the guards.
LEMMA OwnershipIsDisjoint == OwnershipExclusive <=> (Accepted => Disjoint)
BY DEF OwnershipExclusive, Disjoint

\* Disjointness depends on what the resolver published alone.
LEMMA DisjointKept == ASSUME Disjoint, UNCHANGED resolution PROVE Disjoint'
<1>1. transfers' = transfers /\ predicates' = predicates /\ conditions' = conditions
  BY DEF resolution
<1> QED
  BY <1>1 DEF Disjoint, Holds, Elastic, Static

\* In every accepted module, whatever its statements, two transfers that consume one
\* signal, or produce one, never act in the same cycle.
THEOREM ExclusiveOwnership == Spec => []OwnershipExclusive
<1>1. Init => (Accepted => Disjoint)
  BY DEF Init, Accepted
<1>2. TypeInv /\ (Accepted => Disjoint) /\ [Next]_vars => (Accepted => Disjoint)'
  <2> SUFFICES ASSUME TypeInv, Accepted => Disjoint, [Next]_vars, Accepted' PROVE Disjoint'
    OBVIOUS
  <2>1. UNCHANGED resolution /\ (Accepted \/ ValidateOwnership)
    BY AcceptedFrom
  <2>2. Accepted \/ (~Conflicts("consumer") /\ ~Conflicts("producer"))
    BY <2>1 DEF ValidateOwnership, Fail, Accepted
  <2>3. Disjoint
    BY <2>2, NoConflictIsDisjoint
  <2> QED
    BY <2>1, <2>3, DisjointKept
<1>3. OwnershipExclusive <=> (Accepted => Disjoint)
  BY OwnershipIsDisjoint
<1> QED
  BY <1>1, <1>2, <1>3, TypeInvAlways, PTL DEF Spec

-----------------------------------------------------------------------------
(* The fire identities of lowering. *)

Term == [atoms : SUBSET [condition : Nat, term : {"equals one", "condition"}],
         valid : SUBSET Signals, ready : SUBSET Signals]

MemoEntry == [guard : Nat, roles : [Signals -> SUBSET Role], identity : Nat]

Update == [destination : Signals, value : Nat]

\* Before lowering there is no node; during it every entry of the memo names a node that
\* was built from the guard and the roles of the entry; and every update that was
\* written carries the node of its own transfer.
FireTypes ==
    /\ nodes \in Seq(Term) /\ updates \in Seq(Update)
    /\ phase = "resolving" => updates = << >>
    /\ phase = "lowering" => memo \in Seq(MemoEntry)
    /\ Len(updates) <= Len(transfers)

MemoRight ==
    phase = "lowering" =>
        \A i \in 1 .. Len(memo) : \A entry \in {memo[i]} :
            /\ entry.identity \in 1 .. Len(nodes)
            /\ nodes[entry.identity] = FireTerms(entry)

UpdatesRight ==
    \A i \in 1 .. Len(updates) : \A t \in {transfers[i]} :
        /\ updates[i].value \in 1 .. Len(nodes)
        /\ nodes[updates[i].value] = FireTerms(t)

FireInv == FireTypes /\ MemoRight /\ UpdatesRight

\* The terms of a transfer depend on the table of guards alone.
LEMMA FireTermsStable ==
    ASSUME predicates' = predicates, NEW t PROVE FireTerms(t)' = FireTerms(t)
BY DEF FireTerms, FireAtom

\* The terms of a transfer depend on its guard and its roles alone.
LEMMA FireTermsOf ==
    ASSUME NEW t, NEW u, SameSignature(t, u) PROVE FireTerms(t) = FireTerms(u)
BY DEF SameSignature, FireTerms, FireAtom

\* The terms of a transfer are a node.
LEMMA FireTermsType ==
    ASSUME TypeInv, NEW t \in Transfer, t.guard \in 1 .. Len(predicates)
    PROVE  FireTerms(t) \in Term
<1> DEFINE C == 1 .. Len(conditions)
           atoms == predicates[t.guard].atoms
<1>1. predicates \in Seq(Predicate(C)) /\ C \in SUBSET Nat
  BY TypesUnfold
<1>2. atoms \in Seq(Atom(C))
  BY <1>1, ElementOfSeq, PredicateTypes
<1>3. \A i \in DOMAIN atoms : atoms[i].condition \in Nat
  BY <1>1, <1>2, AtomTypes
<1> DEFINE Atoms == [condition : Nat, term : {"equals one", "condition"}]
<1>4. \A i \in DOMAIN atoms : FireAtom(atoms[i]) \in Atoms
  <2> TAKE i \in DOMAIN atoms
  <2>1. atoms[i].condition \in Nat
    BY <1>3
  <2> QED
    BY <2>1 DEF FireAtom
<1> HIDE DEF Atoms
<1>5. {FireAtom(atoms[i]) : i \in DOMAIN atoms} \in SUBSET Atoms
  BY <1>4
<1>6. /\ FireTerms(t).atoms = {FireAtom(atoms[i]) : i \in DOMAIN atoms}
      /\ FireTerms(t).valid \in SUBSET Signals /\ FireTerms(t).ready \in SUBSET Signals
      /\ FireTerms(t) = [atoms |-> FireTerms(t).atoms, valid |-> FireTerms(t).valid,
                         ready |-> FireTerms(t).ready]
  BY DEF FireTerms
<1> QED
  BY <1>5, <1>6 DEF Term, Atoms

\* What a fire identity is: a node of the terms of its transfer, in the memo too.
Identified(t, fire) ==
    /\ fire.memo \in Seq(MemoEntry) /\ fire.nodes \in Seq(Term)
    /\ Len(nodes) <= Len(fire.nodes)
    /\ \A n \in 1 .. Len(nodes) : fire.nodes[n] = nodes[n]
    /\ \A i \in 1 .. Len(fire.memo) : \A entry \in {fire.memo[i]} :
            /\ entry.identity \in 1 .. Len(fire.nodes)
            /\ fire.nodes[entry.identity] = FireTerms(entry)
    /\ fire.id \in 1 .. Len(fire.nodes)
    /\ fire.nodes[fire.id] = FireTerms(t)

\* Whether it is found in the memo or made, a fire identity is the node of the terms of its
\* own transfer: the signature the memo compares tells transfers with other terms apart.
LEMMA FireIdentityRight ==
    ASSUME TypeInv, FireInv, phase = "lowering",
           NEW t \in Transfer, t.guard \in 1 .. Len(predicates)
    PROVE  Identified(t, FireIdentity(t))
<1> DEFINE hits == {i \in DOMAIN memo : SameSignature(memo[i], t)}
           entry == [guard |-> t.guard, roles |-> t.roles, identity |-> Len(nodes) + 1]
           found == [valid |-> TRUE, id |-> memo[Min(hits)].identity, memo |-> memo,
                     nodes |-> nodes]
           made == [valid |-> \A s \in Signals :
                        t.roles[s] \intersect {"consumer", "producer"} # {} => HasControls(s),
                    id |-> Len(nodes) + 1, memo |-> Append(memo, entry),
                    nodes |-> Append(nodes, FireTerms(t))]
<1>1. /\ memo \in Seq(MemoEntry) /\ nodes \in Seq(Term)
      /\ \A i \in 1 .. Len(memo) : /\ memo[i].identity \in 1 .. Len(nodes)
                                   /\ nodes[memo[i].identity] = FireTerms(memo[i])
  BY DEF FireInv, FireTypes, MemoRight
<1>2. DOMAIN memo = 1 .. Len(memo) /\ Len(memo) \in Nat /\ Len(nodes) \in Nat
  BY <1>1, LenProperties
<1>3. CASE hits # {}
  <2>1. hits \in SUBSET Nat
    BY <1>2
  <2>2. Min(hits) \in hits
    BY <1>3, <2>1, LeastMember
  <2> DEFINE m == Min(hits)
  <2>3. m \in 1 .. Len(memo) /\ SameSignature(memo[m], t)
    BY <1>2, <2>2
  <2>4. FireIdentity(t) = found
    BY <1>3 DEF FireIdentity
  <2> HIDE DEF m
  <2>5. FireTerms(memo[m]) = FireTerms(t)
    BY <2>3, FireTermsOf
  <2>6. /\ FireIdentity(t).memo = memo /\ FireIdentity(t).nodes = nodes
        /\ FireIdentity(t).id = memo[m].identity
    BY <2>4 DEF m
  <2>7. \A i \in 1 .. Len(memo) : \A e \in {memo[i]} :
           e.identity \in 1 .. Len(nodes) /\ nodes[e.identity] = FireTerms(e)
    BY <1>1
  <2> QED
    BY <1>1, <1>2, <2>3, <2>5, <2>6, <2>7 DEF Identified
<1>4. CASE hits = {}
  <2>1. FireIdentity(t) = made
    BY <1>4 DEF FireIdentity
  <2>2. entry \in MemoEntry
    <3>1. t.guard \in Nat /\ t.roles \in [Signals -> SUBSET Role]
      BY DEF Transfer
    <3> QED
      BY <1>2, <3>1 DEF MemoEntry
  <2>3. FireTerms(t) \in Term
    BY FireTermsType
  <2>4. SameSignature(entry, t) /\ entry.identity = Len(nodes) + 1
    BY DEF SameSignature
  <2>5. FireTerms(entry) = FireTerms(t)
    BY <2>4, FireTermsOf
  <2> DEFINE ms == Append(memo, entry)
             ns == Append(nodes, FireTerms(t))
  <2>6. /\ FireIdentity(t).memo = ms /\ FireIdentity(t).nodes = ns
        /\ FireIdentity(t).id = Len(nodes) + 1
    BY <2>1
  <2> HIDE DEF entry
  <2>7. /\ ms \in Seq(MemoEntry) /\ Len(ms) = Len(memo) + 1 /\ ms[Len(memo) + 1] = entry
        /\ \A i \in 1 .. Len(memo) : ms[i] = memo[i]
    BY <1>1, <2>2, AppendProperties
  <2>8. /\ ns \in Seq(Term) /\ Len(ns) = Len(nodes) + 1 /\ ns[Len(nodes) + 1] = FireTerms(t)
        /\ \A i \in 1 .. Len(nodes) : ns[i] = nodes[i]
    BY <1>1, <2>3, AppendProperties
  <2> HIDE DEF ms, ns, made, hits
  <2>9. \A i \in 1 .. Len(ms) : \A e \in {ms[i]} :
           e.identity \in 1 .. Len(ns) /\ ns[e.identity] = FireTerms(e)
    <3> SUFFICES ASSUME NEW i \in 1 .. Len(ms)
                 PROVE  ms[i].identity \in 1 .. Len(ns) /\ ns[ms[i].identity] = FireTerms(ms[i])
      OBVIOUS
    <3>1. CASE i \in 1 .. Len(memo)
      <4>1. /\ memo[i].identity \in 1 .. Len(nodes)
            /\ nodes[memo[i].identity] = FireTerms(memo[i]) /\ ms[i] = memo[i]
        BY <1>1, <2>7, <3>1
      <4> QED
        BY <1>2, <2>8, <4>1
    <3>2. CASE i = Len(memo) + 1
      BY <1>2, <2>4, <2>5, <2>7, <2>8, <3>2
    <3> QED
      BY <1>2, <2>7, <3>1, <3>2
  <2> QED
    BY <1>2, <2>6, <2>7, <2>8, <2>9 DEF Identified
<1> QED
  BY <1>3, <1>4

\* A step that publishes nothing keeps the identities.
LEMMA FireKept ==
    ASSUME TypeInv, FireInv, UNCHANGED rtl, Len(transfers) <= Len(transfers'),
           phase' = "resolving" => phase = "resolving",
           phase' = "lowering" => memo' \in Seq(MemoEntry),
           phase' = "lowering" =>
               \/ memo' = << >>
               \/ phase = "lowering" /\ memo' = memo /\ predicates' = predicates,
           \/ phase = "resolving"
           \/ transfers' = transfers /\ predicates' = predicates,
           Len(transfers') \in Nat
    PROVE  FireInv'
<1>1. nodes' = nodes /\ updates' = updates
  BY DEF rtl
<1>2. Len(updates) \in Nat /\ Len(transfers) \in Nat
  BY TypesUnfold, LenProperties DEF FireInv, FireTypes
<1>3. FireTypes'
  BY <1>1, <1>2 DEF FireInv, FireTypes
<1>4. MemoRight'
  <2>1. CASE phase' # "lowering"
    BY <2>1 DEF MemoRight
  <2>2. CASE phase' = "lowering" /\ memo' = << >>
    BY <2>2 DEF MemoRight
  <2>3. CASE phase = "lowering" /\ memo' = memo /\ predicates' = predicates
    BY <1>1, <2>3, FireTermsStable DEF FireInv, MemoRight
  <2> QED
    BY <2>1, <2>2, <2>3
<1>5. UpdatesRight'
  <2>1. CASE phase = "resolving"
    BY <1>1, <2>1 DEF FireInv, FireTypes, UpdatesRight
  <2>2. CASE transfers' = transfers /\ predicates' = predicates
    BY <1>1, <2>2, FireTermsStable DEF FireInv, UpdatesRight
  <2> QED
    BY <2>1, <2>2
<1> QED
  BY <1>3, <1>4, <1>5 DEF FireInv

\* Lowering a transfer adds an update under its own fire.
LEMMA LowerTransferStep ==
    ASSUME TypeInv, FireInv, LowerTransfer PROVE FireInv'
<1> DEFINE t == transfers[NextTransfer]
           fire == FireIdentity(t)
           payload == CHOOSE s \in t.destination : TRUE
           update == [destination |-> payload, value |-> fire.id]
<1>1. phase = "lowering" /\ HasNextTransfer
  BY DEF LowerTransfer
<1>2. UNCHANGED resolution /\ TypeInv'
  BY LoweringKeeps, TypeInvStep DEF Next
<1>3. /\ transfers' = transfers /\ predicates' = predicates /\ Len(transfers) \in Nat
  BY <1>2, TypesUnfold DEF resolution
<1>4. CASE phase' = "failed"
  <2>1. UNCHANGED rtl
    BY <1>1, <1>4 DEF LowerTransfer, Fail, rtl
  <2> QED
    BY <1>3, <1>4, <2>1, FireKept
<1>5. CASE phase' # "failed"
  <2>1. /\ memo' = fire.memo /\ nodes' = fire.nodes /\ updates' = Append(updates, update)
        /\ phase' = phase
    BY <1>1, <1>5 DEF LowerTransfer, Fail
  <2>2. /\ NextTransfer \in 1 .. Len(transfers) /\ NextTransfer = Len(updates) + 1
        /\ Len(updates) \in Nat /\ updates \in Seq(Update) /\ nodes \in Seq(Term)
        /\ Len(nodes) \in Nat
    BY <1>1, TypesUnfold, LenProperties DEF HasNextTransfer, NextTransfer, FireInv, FireTypes
  <2>3. t \in Transfer /\ t.guard \in 1 .. Len(predicates)
        /\ t.destination \in (SUBSET Signals) \ {{}}
    BY <2>2, TypesUnfold
  <2>4. payload \in Signals
    <3>1. \E s : s \in t.destination
      BY <2>3
    <3>2. payload \in t.destination
      BY <3>1
    <3> QED
      BY <2>3, <3>2
  <2> HIDE DEF payload, t
  <2>5. Identified(t, fire)
    BY <1>1, <2>3, FireIdentityRight
  <2> HIDE DEF fire
  <2>6. /\ memo' \in Seq(MemoEntry) /\ nodes' \in Seq(Term)
        /\ Len(nodes) <= Len(nodes') /\ \A n \in 1 .. Len(nodes) : nodes'[n] = nodes[n]
        /\ \A i \in 1 .. Len(memo') : \A entry \in {memo'[i]} :
               /\ entry.identity \in 1 .. Len(nodes')
               /\ nodes'[entry.identity] = FireTerms(entry)
        /\ fire.id \in 1 .. Len(nodes') /\ nodes'[fire.id] = FireTerms(t)
    BY <2>1, <2>5 DEF Identified
  <2>7. Len(nodes') \in Nat
    BY <2>6, LenProperties
  <2>8. update \in Update
    BY <2>4, <2>6, <2>7 DEF Update
  <2>9. /\ updates' \in Seq(Update) /\ Len(updates') = Len(updates) + 1
        /\ updates'[Len(updates) + 1] = update
        /\ \A i \in 1 .. Len(updates) : updates'[i] = updates[i]
    BY <2>1, <2>2, <2>8, AppendProperties
  <2>10. FireTypes'
    BY <1>1, <1>3, <2>1, <2>2, <2>6, <2>9 DEF FireTypes
  <2>11. MemoRight'
    BY <1>3, <2>6, FireTermsStable DEF MemoRight
  <2>12. ASSUME NEW i \in 1 .. Len(updates')
         PROVE  /\ updates'[i].value \in 1 .. Len(nodes')
                /\ nodes'[updates'[i].value] = FireTerms(transfers[i])
    <3>1. CASE i = Len(updates) + 1
      BY <2>2, <2>6, <2>9, <3>1 DEF t
    <3>2. CASE i \in 1 .. Len(updates)
      <4>1. /\ updates[i].value \in 1 .. Len(nodes)
            /\ nodes[updates[i].value] = FireTerms(transfers[i])
        BY <3>2 DEF FireInv, UpdatesRight
      <4> QED
        BY <2>2, <2>6, <2>7, <2>9, <3>2, <4>1
    <3> QED
      BY <2>2, <2>9, <3>1, <3>2
  <2>13. UpdatesRight'
    BY <1>3, <2>12, FireTermsStable DEF UpdatesRight
  <2> QED
    BY <2>10, <2>11, <2>13 DEF FireInv
<1> QED
  BY <1>4, <1>5

\* The steps of the resolver publish nothing.
LEMMA ResolvingPublishes ==
    ASSUME TypeInv, FireInv, [Next]_vars, UNCHANGED rtl, phase = "resolving",
           phase' \in {"resolving", "failed"}
    PROVE  FireInv'
<1>1. TypeInv'
  BY TypeInvStep
<1>2. transfers' \in Seq(Transfer)
  BY <1>1 DEF TypeInv, TypeOK
<1>3. Len(transfers') \in Nat
  BY <1>2, LenProperties
<1>4. updates = << >> /\ updates' = updates /\ nodes' = nodes /\ Len(updates) = 0
  BY DEF FireInv, FireTypes, rtl
<1>5. FireTypes'
  BY <1>3, <1>4 DEF FireInv, FireTypes
<1> QED
  BY <1>4, <1>5 DEF FireInv, MemoRight, UpdatesRight

\* No other step disturbs a fire.
LEMMA FireInvStep ==
    ASSUME TypeInv, FireInv, [Next]_vars PROVE FireInv'
<1>1. ASSUME NEW d \in Domains, AddProcess(d) PROVE FireInv'
  <2>1. UNCHANGED rtl /\ phase = "resolving" /\ phase' = phase
    BY <1>1 DEF AddProcess
  <2> QED
    BY <2>1, ResolvingPublishes
<1>2. ASSUME NEW n \in {0, 2}, ResolveBlock(n) PROVE FireInv'
  <2>1. UNCHANGED rtl /\ phase = "resolving" /\ phase' = phase
    BY <1>2 DEF ResolveBlock
  <2> QED
    BY <2>1, ResolvingPublishes
<1>3. ASSUME NEW reads \in Tests, NEW has_else \in BOOLEAN, ResolveIf(reads, has_else)
      PROVE  FireInv'
  <2>1. UNCHANGED rtl /\ phase = "resolving" /\ phase' = phase
    BY <1>3 DEF ResolveIf
  <2> QED
    BY <2>1, ResolvingPublishes
<1>4. ASSUME NEW a \in Statements, ResolveAssignment(a) PROVE FireInv'
  <2>1. UNCHANGED rtl /\ phase = "resolving" /\ phase' \in {phase, "failed"}
    BY <1>4 DEF ResolveAssignment, Fail
  <2> QED
    BY <2>1, ResolvingPublishes
<1>5. CASE ValidateOwnership
  <2>1. /\ UNCHANGED rtl /\ UNCHANGED resolution /\ phase = "resolving"
        /\ phase' = "failed" \/ (phase' = "lowering" /\ memo' = << >>)
    BY <1>5 DEF ValidateOwnership, Fail, MemoAtStart
  <2>2. transfers' = transfers /\ predicates' = predicates /\ Len(transfers) \in Nat
    BY <2>1, TypesUnfold DEF resolution
  <2>3. phase' = "lowering" => memo' = << >> /\ memo' \in Seq(MemoEntry)
    BY <2>1, EmptySeq
  <2>4. /\ phase' = "resolving" => phase = "resolving"
        /\ Len(transfers) <= Len(transfers') /\ Len(transfers') \in Nat
    BY <2>1, <2>2
  <2> QED
    BY <2>1, <2>2, <2>3, <2>4, FireKept
<1>6. CASE LowerTransfer
  BY <1>6, LowerTransferStep
<1>7. CASE CloseProcess \/ ComposeModule \/ UNCHANGED vars
  <2>1. UNCHANGED resolution
    BY <1>7, LoweringKeeps
  <2>2. transfers' = transfers /\ predicates' = predicates /\ Len(transfers) \in Nat
    BY <2>1, TypesUnfold DEF resolution
  <2>3. /\ memo' = memo /\ nodes' = nodes /\ updates' = updates
        /\ phase' \in {phase, "composed", "failed"}
    BY <1>7 DEF CloseProcess, ComposeModule, Fail, vars, rtl
  <2>4. FireTypes'
    BY <2>2, <2>3 DEF FireInv, FireTypes
  <2>5. MemoRight'
    BY <2>2, <2>3, FireTermsStable DEF FireInv, MemoRight
  <2>6. UpdatesRight'
    BY <2>2, <2>3, FireTermsStable DEF FireInv, UpdatesRight
  <2> QED
    BY <2>4, <2>5, <2>6 DEF FireInv
<1> QED
  BY <1>1, <1>2, <1>3, <1>4, <1>5, <1>6, <1>7 DEF Next

\* Every update that is published carries a fire identity made of the guard and the
\* signals of its own transfer, whatever an earlier compilation left in the memo.
THEOREM OwnFire == Spec => []FireIsOwn
<1>1. Init => FireInv
  <2> SUFFICES ASSUME Init PROVE FireInv
    OBVIOUS
  <2>1. /\ nodes = << >> /\ updates = << >> /\ transfers = << >> /\ phase = "resolving"
        /\ Len(updates) = 0 /\ Len(transfers) = 0
    BY DEF Init
  <2> QED
    BY <2>1, EmptySeq DEF FireInv, FireTypes, MemoRight, UpdatesRight
<1>2. TypeInv /\ FireInv /\ [Next]_vars => FireInv'
  BY FireInvStep
<1>3. FireInv => FireIsOwn
  BY LenProperties DEF FireInv, FireTypes, UpdatesRight, FireIsOwn
<1> QED
  BY <1>1, <1>2, <1>3, TypeInvAlways, PTL DEF Spec
=============================================================================
