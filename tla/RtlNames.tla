------------------------------ MODULE RtlNames ------------------------------
(***************************************************************************)
(* The arena of RTL names (rtl_name.c).  A call asks for several names at  *)
(* once; a name is known by its role and the span it comes from.  A source *)
(* role copies what is written there; every other role gets its stem, and  *)
(* a number when that is taken.                                            *)
(***************************************************************************)
EXTENDS Naturals, FiniteSets, SequencesExt

CONSTANTS
    Spelling,       \* [checked identifier spans -> texts]
    Requests,       \* what a call may ask for
    MaxRequests,    \* requests of a call
    MaxNames        \* names of the arena

VARIABLE names

\* A text: the stem of a role or an identifier, and the number behind it.
Text(stem, number) == [stem |-> stem, number |-> number]

Bare == 0

RequestValid(r) == r.kind = "source" => r.origin \in DOMAIN Spelling

SameIdentity(a, b) == a.kind = b.kind /\ a.origin = b.origin

Known(r, arena) == \E i \in DOMAIN arena : SameIdentity(arena[i], r)

TextsOf(arena) == {arena[i].text : i \in DOMAIN arena}

\* Mutant: the first suffix is taken without a look.
FirstSuffix(stem, taken) == IF Text(stem, Bare) \notin taken THEN Text(stem, Bare) ELSE Text(stem, 1)

\* unique_name: the first text of the stem that is not taken.
UniqueName(stem, taken) ==
    LET n == CHOOSE n \in 0 .. Cardinality(taken) :
               /\ Text(stem, n) \notin taken
               /\ \A m \in 0 .. n - 1 : Text(stem, m) \in taken
    IN Text(stem, n)

\* One request in the order of the call.  A request that is reused leaves its place in
\* staged_text unwritten, and every later search of the call reads it: stale is what it
\* finds there.
Publish(acc, r, stale) ==
    IF Known(r, acc.arena) THEN [acc EXCEPT !.reused = TRUE]
    ELSE LET taken == TextsOf(acc.arena) \cup (IF acc.reused THEN stale ELSE {})
             text == IF r.kind = "source" THEN Spelling[r.origin] ELSE UniqueName(r.kind, taken)
         IN [acc EXCEPT !.arena = Append(@, [kind |-> r.kind, origin |-> r.origin, text |-> text])]

Assigned(requests, arena, stale) ==
    LET after[n \in 0 .. Len(requests)] ==
            IF n = 0 THEN [arena |-> arena, reused |-> FALSE]
            ELSE Publish(after[n - 1], requests[n], stale)
    IN after[Len(requests)].arena

\* The outcomes of a call, for the outside a refusal and an empty call are alike.
Refused(requests) == requests = << >> \/ \E i \in DOMAIN requests : ~RequestValid(requests[i])

Init == names = << >>

AssignNames(requests, stale) ==
    /\ ~Refused(requests)
    /\ Len(Assigned(requests, names, stale)) <= MaxNames
    /\ names' = Assigned(requests, names, stale)

Refuse(requests) == Refused(requests) /\ UNCHANGED names

Next == \E n \in 0 .. MaxRequests : \E requests \in [1 .. n -> Requests] :
          \/ \E stale \in {{}} \cup {{Text(r.kind, k)} : r \in Requests, k \in 0 .. 1} :
               AssignNames(requests, stale)
          \/ Refuse(requests)

Spec == Init /\ [][Next]_names

-----------------------------------------------------------------------------
\* A name, once given, stays; one role and span has one name, however often and in how
\* many calls it is asked for; and a name the compiler makes up is none of those before
\* it, with a number that no earlier one has, whatever the unwritten places hold.
NamesAreFresh ==
    [][/\ IsPrefix(names, names')
       /\ \A i, j \in DOMAIN names' : SameIdentity(names'[i], names'[j]) => i = j
       /\ \A i \in DOMAIN names' \ DOMAIN names : names'[i].kind # "source" =>
             names'[i].text \notin TextsOf(SubSeq(names', 1, i - 1))]_names
=============================================================================
