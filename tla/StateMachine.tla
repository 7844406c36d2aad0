----------------------------- MODULE StateMachine -----------------------------
(***************************************************************************)
(* An fsm statement.  fsm.c rewrites its text into an enumeration and one  *)
(* clocked case statement, and that machine runs here cycle by cycle; on   *)
(* the structured path fsm_identity.c gives the machine its state type and *)
(* fsm_lower.c publishes the controller.                                   *)
(*                                                                         *)
(* A goto may stand under any conditions of the body of its state: the     *)
(* gotos that execute in a cycle are any of them.                          *)
(***************************************************************************)
EXTENDS Integers, Sequences, FiniteSetsExt, SequencesExt

CONSTANTS
    Machines,           \* states (a list: name, whether the body has an action,
                        \* the targets of its gotos in order) and the initial name
    Limit               \* FSM_MAX: states and gotos the structured path reads


VARIABLES
    phase,              \* reading, lowering, running, clocked, rejected or undefined
    machine,
    identity,           \* of the structured path
    controller,         \* its published records
    state               \* the register of the rewritten machine

vars == <<phase, machine, identity, controller, state>>

X == -1     \* unknown bits
Unknown == [bits |-> 0, initial |-> 0, transitions |-> 0]
Unpublished == [bits |-> 0, action |-> 0, updates |-> << >>]

-----------------------------------------------------------------------------
(* fsm.c. *)

Names == [i \in DOMAIN machine.states |-> machine.states[i].name]

\* state_exists.
Exists(name) == name \in Range(Names)

\* The targets of every goto, in the order of the text.
Targets == FlattenSeq([i \in DOMAIN machine.states |-> machine.states[i].gotos])

Accepted == /\ machine.states # << >>
            /\ IsInjective(Names)
            /\ Exists(machine.initial)
            /\ \A i \in DOMAIN Names : \A target \in Range(machine.states[i].gotos) :
                  Exists(target)

\* The enumerators are numbered in order, from 0.
Code(name) == (CHOOSE i \in DOMAIN Names : Names[i] = name) - 1

Halvings[n \in Nat] == IF n > 1 THEN 1 + Halvings[n \div 2] ELSE 0

\* How many codes so many bits have: each bit doubles them.
Codes[bits \in Nat] == IF bits = 0 THEN 1 ELSE 2 * Codes[bits - 1]

\* Mutant: the width of the last code less one.
EnumBitsShort == 1 + Halvings[(Len(Names) - 1) \div 2]

EnumBits == 1 + Halvings[Len(Names) - 1]

-----------------------------------------------------------------------------
(* The structured path. *)

Kept(list) == SubSeq(list, 1, IF Len(list) < Limit THEN Len(list) ELSE Limit)
KeptNames == Kept(Names)

\* The first of the kept states with the name; 0 when there is none.
Index(name) == IF name \in Range(KeptNames)
               THEN Min({i \in DOMAIN KeptNames : KeptNames[i] = name}) ELSE 0

\* How often 1 (identity), or 2 (lowering), doubles before it reaches the count.
Doublings[n \in Nat] == IF n > 1 THEN 1 + Doublings[(n + 1) \div 2] ELSE 0
IdentityBits == 1 + Doublings[Len(KeptNames)]
LoweredBits == IF Len(KeptNames) < 2 THEN 1 ELSE Doublings[Len(KeptNames)]

\* The first state with an action is the one that drives the output.
Acting == LET acting == {i \in DOMAIN KeptNames : machine.states[i].action}
          IN IF acting = {} THEN 0 ELSE Min(acting)

-----------------------------------------------------------------------------
Init == /\ phase = "reading"
        /\ machine \in Machines
        /\ identity = Unknown
        /\ controller = Unpublished
        /\ state = 0

\* pigen_fsm_identity_establish of a machine the parser took, and lower_one: before
\* the first edge the register holds any bits, unknown ones included.
Establish ==
    /\ phase = "reading"
    /\ IF Accepted /\ Index(machine.initial) # 0
       THEN /\ identity' = [bits |-> IdentityBits, initial |-> Index(machine.initial),
                            transitions |-> Len(Kept(Targets))]
            /\ state' \in {X} \cup 0 .. Codes[EnumBits] - 1
            /\ phase' = "lowering"
       ELSE /\ phase' = "rejected"
            /\ UNCHANGED <<identity, state>>
    /\ UNCHANGED <<machine, controller>>

Updates == [i \in DOMAIN Kept(Targets) |-> Index(Kept(Targets)[i])] \o <<Index(machine.initial)>>

\* lower_fsm: an update of the register per goto, the reset last.  The array of the
\* updates has no place for the reset after Limit gotos.  (The clock is an input of
\* the module, whichever the header names; one without inputs is left out.)
Lower ==
    /\ phase = "lowering"
    /\ IF 0 \in Range(Updates) THEN phase' = "rejected" /\ UNCHANGED controller
       ELSE IF Len(Updates) > Limit THEN phase' = "undefined" /\ UNCHANGED controller
       ELSE /\ controller' = [bits |-> LoweredBits, action |-> Acting, updates |-> Updates]
            /\ phase' = "running"
    /\ UNCHANGED <<machine, identity, state>>

\* Mutant: no default branch.
HeldOutside == state

\* A code that is no state's takes the default branch.
Outside == Code(machine.initial)

Declared == 0 .. Len(Names) - 1

\* The last goto that executes is the one that counts.
Inside(executed) ==
    IF executed = {} THEN state
    ELSE Code(machine.states[state + 1].gotos[Max(executed)])

\* One posedge of the rewritten machine.
Clock ==
    /\ phase \in {"running", "clocked"} /\ phase' = "clocked"
    /\ \E reset \in BOOLEAN :
         \/ reset /\ state' = Code(machine.initial)
         \/ ~reset /\ state \notin Declared /\ state' = Outside
         \/ /\ ~reset /\ state \in Declared
            /\ \E executed \in SUBSET DOMAIN machine.states[state + 1].gotos :
                   state' = Inside(executed)
    /\ UNCHANGED <<machine, identity, controller>>

Next == Establish \/ Lower \/ Clock

Spec == Init /\ [][Next]_vars

-----------------------------------------------------------------------------
\* A machine that was taken has a register wide enough for all its states on each
\* of the three paths that size one, and both structured walks find one initial
\* state: the one the last update of the controller loads.
EveryStateHasACode ==
    phase = "running" /\ Len(Names) <= Limit =>
        /\ \A bits \in {EnumBits, identity.bits, controller.bits} : Len(Names) <= Codes[bits]
        /\ identity.initial - 1 = Code(machine.initial)
        /\ Last(controller.updates) = identity.initial

\* Whatever bits the register powers up with, from the first edge on it holds a
\* declared state: no edge leads to a code that is no state's, or stays at one.
SettlesInDeclared == phase = "clocked" => state \in Declared
=============================================================================
