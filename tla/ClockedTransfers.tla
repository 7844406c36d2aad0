-------------------------- MODULE ClockedTransfers --------------------------
(***************************************************************************)
(* One clocked module through the structured compiler: resolve.c turns the *)
(* statements of its clocked processes into guarded transfers, checks that *)
(* stored signals have one producer and one consumer, and rtl_lower.c      *)
(* lowers every transfer to a fire identity, an update and an equation and *)
(* composes the published module.                                          *)
(*                                                                         *)
(* The program is not fixed beforehand: every statement is chosen when the *)
(* resolver reaches it.                                                    *)
(***************************************************************************)
EXTENDS Predicates, SequencesExt

CONSTANTS
    Signals,
    Kind,               \* Signals -> the transfer type
    Inputs,             \* signals declared input or inout
    Domains,            \* clock and edge
    NoDomain,
    Statements,         \* the assignments a program may hold: records of the
                        \* destination and the signals read, sets of signals
    Tests,              \* the signals an if condition may read, sets of signals
    LeftoverMemos,      \* what an earlier compilation left in fire_memo
    MaxProcesses, MaxTransfers, MaxConditions, MaxPending   \* bounds for TLC

ASSUME ProgramAssumption ==
    /\ \A a \in Statements : /\ a.destination \in (SUBSET Signals) \ {{}}
                             /\ a.reads \in SUBSET Signals
    /\ Tests \subseteq SUBSET Signals
    /\ NoDomain \notin Domains

VARIABLES
    phase,              \* resolving, lowering, composed or failed
    failure,            \* the diagnostic of a failed compilation
    pending,            \* guards of the statements still to resolve, innermost first
    processes,          \* the clock domain of every process
    conditions,         \* the signals every condition expression reads
    predicates,         \* the predicate table
    transfers,
    domain,             \* signal -> clock domain
    memo,               \* fire_memo
    nodes,              \* the fire identities published as RTL expressions
    equations, updates, rtl_processes

resolution == <<pending, processes, conditions, predicates, transfers, domain>>
rtl == <<nodes, equations, updates, rtl_processes>>
vars == <<phase, failure, resolution, memo, rtl>>

\* The columns of the transfer_types table: exactly the kinds that are not
\* static consume, produce, demand ownership and bind a domain.
Static(s) == Kind[s] \in {"wire", "reg", "logic"}
Elastic(s) == ~Static(s)
AcceptsWrite(s) == Kind[s] \notin {"abstract", "wire"}

\* The controls lowering publishes: constants of a static, external controls of
\* an abstract input, none of a stored signal.
HasControls(s) == Static(s) \/ Kind[s] = "abstract"

Fail(diagnostic) == /\ phase' = "failed" /\ failure' = diagnostic
                    /\ UNCHANGED <<resolution, rtl>>

\* parse_clocked_process: an always block without an assignment is opaque text
\* and no process.
HasAssignment == \E i \in DOMAIN transfers : transfers[i].process = Len(processes)

-----------------------------------------------------------------------------
Init == /\ phase = "resolving" /\ failure = "none"
        /\ pending = << >> /\ processes = << >> /\ conditions = << >>
        /\ predicates = << >> /\ transfers = << >>
        /\ domain = [s \in Signals |-> NoDomain]
        /\ memo \in LeftoverMemos
        /\ nodes = << >> /\ equations = << >> /\ updates = << >>
        /\ rtl_processes = << >>

\* The next always block: its body is one statement under the true guard.
AddProcess(d) ==
    LET true == Intern(predicates, Always)
    IN /\ phase = "resolving" /\ pending = << >> /\ Len(processes) < MaxProcesses
       /\ processes # << >> => HasAssignment
       /\ processes' = Append(processes, d)
       /\ predicates' = true.table
       /\ pending' = <<true.id>>
       /\ UNCHANGED <<phase, failure, conditions, transfers, domain, memo, rtl>>

\* A begin/end block of n statements, each under the guard of the block.
ResolveBlock(n) ==
    /\ phase = "resolving" /\ pending # << >>
    /\ Len(pending) + n - 1 <= MaxPending
    /\ Len(pending) + n > 1 \/ HasAssignment
    /\ pending' = [i \in 1 .. n |-> Head(pending)] \o Tail(pending)
    /\ UNCHANGED <<phase, failure, processes, conditions, predicates, transfers,
                   domain, memo, rtl>>

\* An if statement: its condition is a new expression, and both guards are
\* interned whether there is an else branch or not.
ResolveIf(reads, has_else) ==
    LET condition == Len(conditions) + 1
        then == AndCondition(predicates, Head(pending), condition, TRUE)
        else == AndCondition(then.table, Head(pending), condition, FALSE)
        branches == IF has_else THEN <<then.id, else.id>> ELSE <<then.id>>
    IN /\ phase = "resolving" /\ pending # << >> /\ condition <= MaxConditions
       /\ Len(pending) + Len(branches) - 1 <= MaxPending
       /\ conditions' = Append(conditions, reads)
       /\ predicates' = else.table
       /\ pending' = branches \o Tail(pending)
       /\ UNCHANGED <<phase, failure, processes, transfers, domain, memo, rtl>>

\* Mutant: a read of a signal the transfer also writes replaces its roles.
RolesReplaced(s, written, read) ==
    IF s \in read THEN {"read"} \union (IF Elastic(s) THEN {"consumer"} ELSE {})
    ELSE IF s \in written THEN {"write"} \union (IF Elastic(s) THEN {"producer"} ELSE {})
    ELSE {}

\* The roles of a signal in a transfer, merged over destination, value and guard.
Roles(s, written, read) ==
    (IF s \in written THEN {"write"} \union (IF Elastic(s) THEN {"producer"} ELSE {}) ELSE {})
    \union
    (IF s \in read THEN {"read"} \union (IF Elastic(s) THEN {"consumer"} ELSE {}) ELSE {})

\* Every signal the conditions of a guard read.
GuardReads(guard) ==
    UNION {conditions[predicates[guard].atoms[i].condition] :
               i \in DOMAIN predicates[guard].atoms}

\* Mutant: a signal follows the process that used it last.
MayBindLast(s, d) == TRUE

MayBind(s, d) == Static(s) \/ domain[s] \in {NoDomain, d}

\* An assignment under the guard at the head of the stack.
ResolveAssignment(a) ==
    LET guard == Head(pending)
        d == Last(processes)
        roles == [s \in Signals |-> Roles(s, a.destination, a.reads \union GuardReads(guard))]
        used == {s \in Signals : roles[s] # {}}
    IN /\ phase = "resolving" /\ pending # << >> /\ Len(transfers) < MaxTransfers
       /\ UNCHANGED memo
       /\ IF \E s \in a.destination : ~AcceptsWrite(s) \/ s \in Inputs
          THEN Fail("transfer destination is not a writable variable or signal")
          ELSE IF \E s \in used : {"consumer", "producer"} \subseteq roles[s]
          THEN Fail("buffered transfer cannot source its destination")
          ELSE IF \E s \in used : ~MayBind(s, d)
          THEN Fail("signal used across clock domains")
          ELSE /\ transfers' = Append(transfers,
                      [process |-> Len(processes), destination |-> a.destination,
                       reads |-> a.reads, guard |-> guard, roles |-> roles])
               /\ domain' = [s \in Signals |->
                                IF s \in used /\ Elastic(s) THEN d ELSE domain[s]]
               /\ pending' = Tail(pending)
               /\ UNCHANGED <<phase, failure, processes, conditions, predicates, rtl>>

\* Mutant: only adjacent transfers are compared.
ConflictsNearby(role) ==
    \E later \in DOMAIN transfers, s \in Signals :
        /\ later > 1 /\ Elastic(s)
        /\ role \in transfers[later].roles[s] \intersect transfers[later - 1].roles[s]
        /\ ~MutuallyExclusive(predicates[transfers[later - 1].guard],
                              predicates[transfers[later].guard])

\* Two transfers that are not provably exclusive share a role of an owned signal.
Conflicts(role) ==
    \E earlier, later \in DOMAIN transfers, s \in Signals :
        /\ earlier < later /\ Elastic(s)
        /\ role \in transfers[later].roles[s] \intersect transfers[earlier].roles[s]
        /\ ~MutuallyExclusive(predicates[transfers[earlier].guard],
                              predicates[transfers[later].guard])

\* Mutant: the memo of the compilation before is still there.
MemoKept == memo

MemoAtStart == << >>

\* The module is parsed to its end: ownership is validated, and lowering starts
\* with an empty fire memo.
ValidateOwnership ==
    /\ phase = "resolving" /\ pending = << >> /\ processes # << >> /\ HasAssignment
    /\ IF Conflicts("consumer") \/ Conflicts("producer")
       THEN Fail("signal has nonexclusive consumers or producers") /\ UNCHANGED memo
       ELSE /\ phase' = "lowering" /\ memo' = MemoAtStart
            /\ UNCHANGED <<failure, resolution, rtl>>

-----------------------------------------------------------------------------
\* The process being lowered, and its next transfer.
Current == Len(rtl_processes) + 1
NextTransfer == Len(updates) + 1
HasNextTransfer == /\ NextTransfer \in DOMAIN transfers
                   /\ transfers[NextTransfer].process = Current

\* A guard atom as a 1-bit term: a comparison with one when it is expected to
\* hold, the condition itself when it is not.
FireAtom(atom) == [condition |-> atom.condition,
                   term |-> IF atom.expected THEN "equals one" ELSE "condition"]

\* The conjunction of guard, consumer-valid and producer-ready terms.
FireTerms(t) ==
    [atoms |-> {FireAtom(predicates[t.guard].atoms[i]) :
                    i \in DOMAIN predicates[t.guard].atoms},
     valid |-> {s \in Signals : "consumer" \in t.roles[s]},
     ready |-> {s \in Signals : "producer" \in t.roles[s]}]

SameSignature(entry, t) == entry.guard = t.guard /\ entry.roles = t.roles

\* fire_identity_for_transfer: the memoized identity, or a new node.
FireIdentity(t) ==
    LET hits == {i \in DOMAIN memo : SameSignature(memo[i], t)}
    IN IF hits # {}
       THEN [valid |-> TRUE, id |-> memo[Min(hits)].identity, memo |-> memo, nodes |-> nodes]
       ELSE [valid |-> \A s \in Signals :
                          t.roles[s] \intersect {"consumer", "producer"} # {} => HasControls(s),
             id |-> Len(nodes) + 1,
             memo |-> Append(memo, [guard |-> t.guard, roles |-> t.roles,
                                    identity |-> Len(nodes) + 1]),
             nodes |-> Append(nodes, FireTerms(t))]

\* One transfer of the process: the fire identity, then the source-ready equation
\* and the destination update that carry it.
LowerTransfer ==
    LET t == transfers[NextTransfer]
        fire == FireIdentity(t)
        payload == CHOOSE s \in t.destination : TRUE
    IN /\ phase = "lowering" /\ HasNextTransfer
       /\ IF ~fire.valid THEN Fail("RTL transfer lowering failed") /\ UNCHANGED memo
          ELSE /\ memo' = fire.memo
               /\ IF Cardinality(t.destination) # 1 \/ fire.id \notin DOMAIN fire.nodes
                  THEN Fail("RTL transfer lowering failed")
                  ELSE /\ nodes' = fire.nodes
                       /\ equations' = Append(equations, [destination |-> payload, value |-> fire.id])
                       /\ updates' = Append(updates, [destination |-> payload, value |-> fire.id])
                       /\ UNCHANGED <<phase, failure, resolution, rtl_processes>>

TransfersOf(p) == {i \in DOMAIN transfers : transfers[i].process = p}

\* The process record: its updates are the last ones of the arena.
CloseProcess ==
    /\ phase = "lowering" /\ Current \in DOMAIN processes /\ ~HasNextTransfer
    /\ LET count == Cardinality(TransfersOf(Current))
       IN rtl_processes' = Append(rtl_processes, [domain |-> processes[Current],
                                                  first |-> Len(updates) - count + 1,
                                                  count |-> count])
    /\ UNCHANGED <<phase, failure, resolution, memo, nodes, equations, updates>>

\* What the composition gate asks of one RTL process.
ProcessComposes(p) ==
    LET range == rtl_processes[p]
        owned == SetToSortSeq(TransfersOf(p), <)
    IN /\ range.first + range.count - 1 = Len(updates)
       /\ range.count = Len(owned)
       /\ \A i \in DOMAIN owned :
             /\ updates[range.first + i - 1].destination \in transfers[owned[i]].destination
             /\ updates[range.first + i - 1].value = equations[owned[i]].value

ComposeModule ==
    /\ phase = "lowering" /\ Len(rtl_processes) = Len(processes)
    /\ IF \A p \in DOMAIN rtl_processes : ProcessComposes(p)
       THEN phase' = "composed" /\ UNCHANGED <<failure, resolution, rtl>>
       ELSE Fail("RTL module lowering failed")
    /\ UNCHANGED memo

Next == \/ \E d \in Domains : AddProcess(d)
        \/ \E n \in {0, 2} : ResolveBlock(n)
        \/ \E reads \in Tests, has_else \in BOOLEAN : ResolveIf(reads, has_else)
        \/ \E a \in Statements : ResolveAssignment(a)
        \/ ValidateOwnership \/ LowerTransfer \/ CloseProcess \/ ComposeModule

Spec == Init /\ [][Next]_vars

-----------------------------------------------------------------------------
Accepted == phase \in {"lowering", "composed"}

\* In an accepted module no truth values of the conditions let two transfers
\* consume, or two transfers produce, one elastic signal in the same cycle.
OwnershipExclusive ==
    Accepted =>
        \A t1, t2 \in DOMAIN transfers, s \in Signals :
            /\ t1 # t2 /\ Elastic(s)
            /\ transfers[t1].roles[s] \intersect transfers[t2].roles[s]
                   \intersect {"consumer", "producer"} # {}
            => ~\E truth \in [DOMAIN conditions -> BOOLEAN] :
                    /\ Holds(predicates[transfers[t1].guard], truth)
                    /\ Holds(predicates[transfers[t2].guard], truth)

\* Every elastic signal of an accepted module belongs to the transfers of a
\* single clock domain.
OneClockDomain ==
    Accepted =>
        \A t1, t2 \in DOMAIN transfers, s \in Signals :
            Elastic(s) /\ transfers[t1].roles[s] # {} /\ transfers[t2].roles[s] # {}
            => processes[transfers[t1].process] = processes[transfers[t2].process]

\* No transfer fills the storage it drains: not through its value, and not
\* through a condition of any if statement around it.
NeverFeedsItself ==
    \A i \in DOMAIN transfers :
        LET t == transfers[i]
        IN \A s \in t.destination : Elastic(s) => s \notin t.reads \union GuardReads(t.guard)

\* The identity a transfer is lowered with, shared or not, was built from its
\* own guard and signals: nothing is left of another transfer or compilation.
FireIsOwn ==
    \A i \in DOMAIN updates : nodes[updates[i].value] = FireTerms(transfers[i])

\* What a term of a fire identity evaluates to.
TermTrue(atom, value) ==
    IF atom.term = "equals one" THEN value[atom.condition] = 1
    ELSE value[atom.condition] # 0

\* A fire identity is true exactly when the guard of its transfer is, given the
\* handshakes it waits for.
FireIsGuard ==
    \A i \in DOMAIN updates, value \in [DOMAIN conditions -> {0, 1}] :
        (\A atom \in nodes[updates[i].value].atoms : TermTrue(atom, value))
        <=> Holds(predicates[transfers[i].guard],
                  [c \in DOMAIN conditions |-> value[c] # 0])

\* Every module whose transfers are all lowered is composed.
LoweredComposes == failure # "RTL module lowering failed"
=============================================================================
