-------------------------- MODULE MCClockedModule --------------------------
\* The structured compiler for TLC: a module with one signal of every kind that
\* is treated differently, compiled after an earlier compilation, and the
\* predicate table exercised by itself.
EXTENDS ClockedTransfers, PredicateTable

KindOf == [a |-> "abstract", b |-> "buf", x |-> "reg", y |-> "logic"]
AllSignals == DOMAIN KindOf

\* x <= a;  b <= a;  y <= x;  {x, y} <= a;  a <= x.
Assign(destination, reads) == [destination |-> destination, reads |-> reads]
Assignments == {Assign({"x"}, {"a"}), Assign({"b"}, {"a"}), Assign({"y"}, {"x"}),
                Assign({"x", "y"}, {"a"}), Assign({"a"}, {"x"})}
IfTests == {{"x"}, {"b"}}

\* Nothing, or the entry of an unguarded x <= a of the compilation before.
Leftover == {<< >>,
             <<[guard |-> 1, identity |-> 1,
                roles |-> [s \in AllSignals |->
                              CASE s = "x" -> {"write"} [] s = "a" -> {"read", "consumer"}
                                [] OTHER -> {}]]>>}

\* One program, or one predicate table.
MCInit == Init /\ TableInit
Programs == table = <<Always>> /\ Next /\ UNCHANGED table
Tables == processes = << >> /\ memo = << >> /\ TableNext /\ UNCHANGED vars

MCSpec == MCInit /\ [][Programs \/ Tables]_<<vars, table>>
=============================================================================
