--------------------------- MODULE SourceTreeProofs ---------------------------
(***************************************************************************)
(* What the parser and the output model of SourceLayout make, in the order *)
(* in which they make it.                                                  *)
(*                                                                         *)
(* Each goes through a list once, so what it makes is known place by place *)
(* (ParseSteps, BuildSteps, KindSteps), and what is true after every place *)
(* is shown by looking at the least place where it is not.                 *)
(*   - The parser: the nodes of a tree are the items of the file in their  *)
(*     order, with spans among them (ParseInv); a module that has ended    *)
(*     has a span.                                                         *)
(*   - Where the spans of a file of one module never go back they cover    *)
(*     every byte but those of the declarations (CoverInv): where the      *)
(*     cursor of tokens passes the cursor of bytes the next span of bytes  *)
(*     goes back.                                                          *)
(***************************************************************************)
EXTENDS BackEnd, Integers, FiniteSets, SequenceTheorems, FiniteSetTheorems,
        NaturalsInduction, WellFoundedInduction, TLAPS

\* A set of natural numbers that is not empty has a least member.
LEMMA LeastNumber ==
    ASSUME NEW S \in SUBSET Nat, S # {}
    PROVE  \E x \in S : \A y \in S : x <= y
<1> DEFINE R == {ss \in Nat \X Nat : ss[1] < ss[2]}
<1>1. IsWellFoundedOn(R, Nat)
  BY NatLessThanWellFounded DEF OpToRel
<1> HIDE DEF R
<1>2. PICK x \in S : \A y \in S : ~(<<y, x>> \in R)
  BY <1>1, WFMin
<1>3. \A y \in S : <<y, x>> \in R <=> y < x
  BY DEF R
<1>4. \A y \in S : x <= y
  <2> TAKE y \in S
  <2>1. x \in Nat /\ y \in Nat /\ ~(y < x)
    BY <1>2, <1>3
  <2> QED
    BY <2>1
<1> QED
  BY <1>4

\* An arena is a list of records whatever they are.
IsList(arena) == \E R : arena \in Seq(R)

\* The constructors keep an arena a list.
LEMMA ListGrows == ASSUME NEW arena, NEW record, IsList(arena)
                   PROVE  IsList(Append(arena, record))
<1>1. PICK R : arena \in Seq(R)
  BY DEF IsList
<1>2. arena \in Seq(R \cup {record}) /\ record \in R \cup {record}
  BY <1>1
<1>3. Append(arena, record) \in Seq(R \cup {record})
  BY <1>2
<1> QED
  BY <1>3 DEF IsList

\* A record appended to an arena takes the place after its last one.
LEMMA ListAppended ==
    ASSUME NEW arena, NEW record, IsList(arena)
    PROVE  LET longer == Append(arena, record)
           IN  /\ IsList(longer)
               /\ Len(arena) \in Nat /\ Len(longer) = Len(arena) + 1
               /\ DOMAIN arena = 1 .. Len(arena) /\ DOMAIN longer = 1 .. Len(arena) + 1
               /\ longer[Len(arena) + 1] = record
               /\ \A i \in 1 .. Len(arena) : longer[i] = arena[i]
<1>1. PICK R : arena \in Seq(R)
  BY DEF IsList
<1>2. arena \in Seq(R \cup {record}) /\ record \in R \cup {record}
  BY <1>1
<1>3. IsList(Append(arena, record))
  BY ListGrows
<1>4. /\ Len(arena) \in Nat /\ DOMAIN arena = 1 .. Len(arena)
  BY <1>2
<1>5. /\ Len(Append(arena, record)) = Len(arena) + 1
      /\ \A i \in 1 .. Len(arena) : Append(arena, record)[i] = arena[i]
      /\ Append(arena, record)[Len(arena) + 1] = record
  BY <1>2, AppendProperties
<1>6. Append(arena, record) \in Seq(R \cup {record})
  BY <1>2
<1>7. DOMAIN Append(arena, record) = 1 .. Len(arena) + 1
  BY <1>5, <1>6
<1> QED
  BY <1>3, <1>4, <1>5, <1>7

-----------------------------------------------------------------------------
(* What is computed place by place. *)

\* The states of the parser, chunk by chunk.
ParseStates(g, file) ==
    g[0] = Layout!Start /\ \A n \in 1 .. Len(file) : g[n] = Layout!Consume(file, g[n - 1], n)

\* Parsed is computed chunk by chunk.
LEMMA ParseSteps ==
    ASSUME NEW file, Len(file) \in Nat
    PROVE  \E g : ParseStates(g, file) /\ Layout!Parsed(file) = g[Len(file)]
<1> DEFINE body(g, n) == IF n = 0 THEN Layout!Start ELSE Layout!Consume(file, g[n - 1], n)
           is(g, m) == g = [n \in 0 .. m |-> body(g, n)]
           last == CHOOSE g : is(g, Len(file))
<1>1. \A m \in 0 .. Len(file) : \E g : is(g, m)
  <2> DEFINE Bad == {m \in 0 .. Len(file) : ~\E g : is(g, m)}
  <2> SUFFICES ASSUME Bad # {} PROVE FALSE
    OBVIOUS
  <2>1. PICK m \in Bad : \A k \in Bad : m <= k
    <3>1. Bad \subseteq Nat
      OBVIOUS
    <3> HIDE DEF Bad
    <3> QED
      BY <3>1, LeastNumber
  <2>2. CASE m = 0
    <3>1. \A n \in 0 .. m : body([k \in {0} |-> Layout!Start], n) = Layout!Start
      BY <2>2
    <3>2. is([k \in {0} |-> Layout!Start], m)
      BY <2>2, <3>1
    <3> HIDE DEF is
    <3> QED
      BY <2>1, <3>2
  <2>3. CASE m # 0
    <3>1. m \in Nat /\ m - 1 \in 0 .. Len(file) /\ m \in 1 .. Len(file) /\ ~(m <= m - 1)
      BY <2>1, <2>3
    <3>2. m - 1 \notin Bad
      <4> HIDE DEF Bad
      <4> QED
        BY <2>1, <3>1
    <3>3. PICK g : is(g, m - 1)
      BY <3>1, <3>2
    <3>4. \A n \in 0 .. m - 1 : g[n] = body(g, n)
      <4> HIDE DEF body
      <4> QED
        BY <3>3
    <3> DEFINE h == [n \in 0 .. m |-> IF n < m THEN g[n] ELSE body(g, m)]
    <3>5. ASSUME NEW n \in 0 .. m PROVE h[n] = body(h, n)
      <4>1. CASE n < m
        <5>1. n \in 0 .. m - 1 /\ h[n] = g[n] /\ (n # 0 => h[n - 1] = g[n - 1])
          <6> HIDE DEF body
          <6> QED
            BY <3>1, <4>1
        <5>2. g[n] = body(g, n)
          BY <3>4, <5>1
        <5> HIDE DEF h
        <5> QED
          BY <5>1, <5>2
      <4>2. CASE n = m
        <5>1. h[m] = body(g, m) /\ h[m - 1] = g[m - 1]
          <6> HIDE DEF body
          <6> QED
            BY <3>1
        <5> HIDE DEF h
        <5> QED
          BY <2>3, <4>2, <5>1
      <4> QED
        BY <3>1, <4>1, <4>2
    <3>6. h = [n \in 0 .. m |-> h[n]]
      <4> HIDE DEF body
      <4> QED
        OBVIOUS
    <3>7. is(h, m)
      <4> HIDE DEF h, body
      <4> QED
        BY <3>5, <3>6
    <3> HIDE DEF is, h
    <3> QED
      BY <2>1, <3>7
  <2> HIDE DEF Bad
  <2> QED
    BY <2>2, <2>3
<1>2. is(last, Len(file))
  <2> HIDE DEF is
  <2>1. \E g : is(g, Len(file))
    BY <1>1
  <2> QED
    BY <2>1
<1>3. \A n \in 0 .. Len(file) : last[n] = body(last, n)
  <2> HIDE DEF last, body
  <2> QED
    BY <1>2
<1>4. Layout!Parsed(file) = last[Len(file)]
  BY DEF Layout!Parsed
<1> HIDE DEF last
<1> QED
  BY <1>3, <1>4 DEF ParseStates

\* The output model, node by node.
ModelStates(g, tree) ==
    g[0] = Layout!NoOutput /\ \A n \in 1 .. Len(tree) : g[n] = Layout!Lay(tree, g[n - 1], tree[n])

\* Built is computed node by node.
LEMMA BuildSteps ==
    ASSUME NEW tree, Len(tree) \in Nat
    PROVE  \E g : ModelStates(g, tree) /\ Layout!Built(tree) = g[Len(tree)]
<1> DEFINE body(g, n) == IF n = 0 THEN Layout!NoOutput ELSE Layout!Lay(tree, g[n - 1], tree[n])
           is(g, m) == g = [n \in 0 .. m |-> body(g, n)]
           last == CHOOSE g : is(g, Len(tree))
<1>1. \A m \in 0 .. Len(tree) : \E g : is(g, m)
  <2> DEFINE Bad == {m \in 0 .. Len(tree) : ~\E g : is(g, m)}
  <2> SUFFICES ASSUME Bad # {} PROVE FALSE
    OBVIOUS
  <2>1. PICK m \in Bad : \A k \in Bad : m <= k
    <3>1. Bad \subseteq Nat
      OBVIOUS
    <3> HIDE DEF Bad
    <3> QED
      BY <3>1, LeastNumber
  <2>2. CASE m = 0
    <3>1. \A n \in 0 .. m : body([k \in {0} |-> Layout!NoOutput], n) = Layout!NoOutput
      BY <2>2
    <3>2. is([k \in {0} |-> Layout!NoOutput], m)
      BY <2>2, <3>1
    <3> HIDE DEF is
    <3> QED
      BY <2>1, <3>2
  <2>3. CASE m # 0
    <3>1. m \in Nat /\ m - 1 \in 0 .. Len(tree) /\ m \in 1 .. Len(tree) /\ ~(m <= m - 1)
      BY <2>1, <2>3
    <3>2. m - 1 \notin Bad
      <4> HIDE DEF Bad
      <4> QED
        BY <2>1, <3>1
    <3>3. PICK g : is(g, m - 1)
      BY <3>1, <3>2
    <3>4. \A n \in 0 .. m - 1 : g[n] = body(g, n)
      <4> HIDE DEF body
      <4> QED
        BY <3>3
    <3> DEFINE h == [n \in 0 .. m |-> IF n < m THEN g[n] ELSE body(g, m)]
    <3>5. ASSUME NEW n \in 0 .. m PROVE h[n] = body(h, n)
      <4>1. CASE n < m
        <5>1. n \in 0 .. m - 1 /\ h[n] = g[n] /\ (n # 0 => h[n - 1] = g[n - 1])
          <6> HIDE DEF body
          <6> QED
            BY <3>1, <4>1
        <5>2. g[n] = body(g, n)
          BY <3>4, <5>1
        <5> HIDE DEF h
        <5> QED
          BY <5>1, <5>2
      <4>2. CASE n = m
        <5>1. h[m] = body(g, m) /\ h[m - 1] = g[m - 1]
          <6> HIDE DEF body
          <6> QED
            BY <3>1
        <5> HIDE DEF h
        <5> QED
          BY <2>3, <4>2, <5>1
      <4> QED
        BY <3>1, <4>1, <4>2
    <3>6. h = [n \in 0 .. m |-> h[n]]
      <4> HIDE DEF body
      <4> QED
        OBVIOUS
    <3>7. is(h, m)
      <4> HIDE DEF h, body
      <4> QED
        BY <3>5, <3>6
    <3> HIDE DEF is, h
    <3> QED
      BY <2>1, <3>7
  <2> HIDE DEF Bad
  <2> QED
    BY <2>2, <2>3
<1>2. is(last, Len(tree))
  <2> HIDE DEF is
  <2>1. \E g : is(g, Len(tree))
    BY <1>1
  <2> QED
    BY <2>1
<1>3. \A n \in 0 .. Len(tree) : last[n] = body(last, n)
  <2> HIDE DEF last, body
  <2> QED
    BY <1>2
<1>4. Layout!Built(tree) = last[Len(tree)]
  BY DEF Layout!Built
<1> HIDE DEF last
<1> QED
  BY <1>3, <1>4 DEF ModelStates

\* What is chosen of a list, place by place.
ChosenAt(g, list, kinds) ==
    /\ g[0] = << >>
    /\ \A n \in 1 .. Len(list) :
          g[n] = IF list[n].kind \in kinds THEN Append(g[n - 1], list[n]) ELSE g[n - 1]

\* OfKind is computed place by place.
LEMMA KindSteps ==
    ASSUME NEW list, NEW kinds, Len(list) \in Nat
    PROVE  \E g : ChosenAt(g, list, kinds) /\ Layout!OfKind(list, kinds) = g[Len(list)]
<1> DEFINE body(g, n) ==
               IF n = 0 THEN << >>
               ELSE IF list[n].kind \in kinds THEN Append(g[n - 1], list[n]) ELSE g[n - 1]
           is(g, m) == g = [n \in 0 .. m |-> body(g, n)]
           last == CHOOSE g : is(g, Len(list))
<1>1. \A m \in 0 .. Len(list) : \E g : is(g, m)
  <2> DEFINE Bad == {m \in 0 .. Len(list) : ~\E g : is(g, m)}
  <2> SUFFICES ASSUME Bad # {} PROVE FALSE
    OBVIOUS
  <2>1. PICK m \in Bad : \A k \in Bad : m <= k
    <3>1. Bad \subseteq Nat
      OBVIOUS
    <3> HIDE DEF Bad
    <3> QED
      BY <3>1, LeastNumber
  <2>2. CASE m = 0
    <3>1. \A n \in 0 .. m : body([k \in {0} |-> << >>], n) = << >>
      BY <2>2
    <3>2. is([k \in {0} |-> << >>], m)
      BY <2>2, <3>1
    <3> HIDE DEF is
    <3> QED
      BY <2>1, <3>2
  <2>3. CASE m # 0
    <3>1. m \in Nat /\ m - 1 \in 0 .. Len(list) /\ m \in 1 .. Len(list) /\ ~(m <= m - 1)
      BY <2>1, <2>3
    <3>2. m - 1 \notin Bad
      <4> HIDE DEF Bad
      <4> QED
        BY <2>1, <3>1
    <3>3. PICK g : is(g, m - 1)
      BY <3>1, <3>2
    <3>4. \A n \in 0 .. m - 1 : g[n] = body(g, n)
      <4> HIDE DEF body
      <4> QED
        BY <3>3
    <3> DEFINE h == [n \in 0 .. m |-> IF n < m THEN g[n] ELSE body(g, m)]
    <3>5. ASSUME NEW n \in 0 .. m PROVE h[n] = body(h, n)
      <4>1. CASE n < m
        <5>1. n \in 0 .. m - 1 /\ h[n] = g[n] /\ (n # 0 => h[n - 1] = g[n - 1])
          <6> HIDE DEF body
          <6> QED
            BY <3>1, <4>1
        <5>2. g[n] = body(g, n)
          BY <3>4, <5>1
        <5> HIDE DEF h
        <5> QED
          BY <5>1, <5>2
      <4>2. CASE n = m
        <5>1. h[m] = body(g, m) /\ h[m - 1] = g[m - 1]
          <6> HIDE DEF body
          <6> QED
            BY <3>1
        <5> HIDE DEF h
        <5> QED
          BY <2>3, <4>2, <5>1
      <4> QED
        BY <3>1, <4>1, <4>2
    <3>6. h = [n \in 0 .. m |-> h[n]]
      <4> HIDE DEF body
      <4> QED
        OBVIOUS
    <3>7. is(h, m)
      <4> HIDE DEF h, body
      <4> QED
        BY <3>5, <3>6
    <3> HIDE DEF is, h
    <3> QED
      BY <2>1, <3>7
  <2> HIDE DEF Bad
  <2> QED
    BY <2>2, <2>3
<1>2. is(last, Len(list))
  <2> HIDE DEF is
  <2>1. \E g : is(g, Len(list))
    BY <1>1
  <2> QED
    BY <2>1
<1>3. \A n \in 0 .. Len(list) : last[n] = body(last, n)
  <2> HIDE DEF last, body
  <2> QED
    BY <1>2
<1>4. Layout!OfKind(list, kinds) = last[Len(list)]
  BY DEF Layout!OfKind
<1> HIDE DEF last
<1> QED
  BY <1>3, <1>4 DEF ChosenAt

\* What is chosen of the first n places of a list, in their order.
ChosenOf(l, n, list, kinds) ==
    /\ IsList(l)
    /\ \E place \in [1 .. Len(l) -> 1 .. n] :
          /\ \A i, j \in 1 .. Len(l) : i < j => place[i] < place[j]
          /\ \A i \in 1 .. Len(l) : l[i] = list[place[i]] /\ list[place[i]].kind \in kinds
          /\ \A k \in 1 .. n : list[k].kind \in kinds => \E i \in 1 .. Len(l) : place[i] = k

\* One more place of a kind that is chosen.
LEMMA ChooseOne ==
    ASSUME NEW list, NEW kinds, NEW n \in Nat, n # 0, NEW l,
           ChosenOf(l, n - 1, list, kinds), list[n].kind \in kinds
    PROVE  ChosenOf(Append(l, list[n]), n, list, kinds)
<1> DEFINE longer == Append(l, list[n])
<1>1. IsList(l)
  BY DEF ChosenOf
<1>2. /\ IsList(longer) /\ Len(l) \in Nat /\ Len(longer) = Len(l) + 1
      /\ longer[Len(l) + 1] = list[n]
      /\ \A i \in 1 .. Len(l) : longer[i] = l[i]
  BY <1>1, ListAppended
<1> HIDE DEF longer
<1>3. PICK place \in [1 .. Len(l) -> 1 .. n - 1] :
          /\ \A i, j \in 1 .. Len(l) : i < j => place[i] < place[j]
          /\ \A i \in 1 .. Len(l) : l[i] = list[place[i]] /\ list[place[i]].kind \in kinds
          /\ \A k \in 1 .. n - 1 : list[k].kind \in kinds =>
                \E i \in 1 .. Len(l) : place[i] = k
  BY DEF ChosenOf
<1> DEFINE there == [i \in 1 .. Len(longer) |-> IF i <= Len(l) THEN place[i] ELSE n]
<1>4. there \in [1 .. Len(longer) -> 1 .. n]
  <2> SUFFICES ASSUME NEW i \in 1 .. Len(longer)
               PROVE  (IF i <= Len(l) THEN place[i] ELSE n) \in 1 .. n
    OBVIOUS
  <2>1. i <= Len(l) => i \in 1 .. Len(l)
    BY <1>2
  <2> QED
    BY <1>3, <2>1
<1>5. /\ there[Len(l) + 1] = n
      /\ \A i \in 1 .. Len(l) : there[i] = place[i] /\ place[i] \in 1 .. n - 1
  BY <1>2, <1>3
<1>6. 1 .. Len(longer) = 1 .. Len(l) \cup {Len(l) + 1}
  BY <1>2
<1> HIDE DEF there
<1>7. ASSUME NEW i \in 1 .. Len(longer), NEW j \in 1 .. Len(longer), i < j
      PROVE  there[i] < there[j]
  <2>1. i \in 1 .. Len(l)
    BY <1>2, <1>6, <1>7
  <2> QED
    BY <1>2, <1>3, <1>5, <1>6, <1>7, <2>1
<1>8. ASSUME NEW i \in 1 .. Len(longer)
      PROVE  longer[i] = list[there[i]] /\ list[there[i]].kind \in kinds
  BY <1>2, <1>3, <1>5, <1>6
<1>9. ASSUME NEW k \in 1 .. n, list[k].kind \in kinds
      PROVE  \E i \in 1 .. Len(longer) : there[i] = k
  <2>1. CASE k = n
    BY <1>5, <1>6, <2>1
  <2>2. CASE k # n
    <3>1. k \in 1 .. n - 1
      BY <2>2
    <3> QED
      BY <1>3, <1>5, <1>6, <1>9, <3>1
  <2> QED
    BY <2>1, <2>2
<1> QED
  BY <1>2, <1>4, <1>7, <1>8, <1>9 DEF ChosenOf, longer

\* One more place of another kind.
LEMMA PassOne ==
    ASSUME NEW list, NEW kinds, NEW n \in Nat, n # 0, NEW l,
           ChosenOf(l, n - 1, list, kinds), list[n].kind \notin kinds
    PROVE  ChosenOf(l, n, list, kinds)
<1>1. PICK place \in [1 .. Len(l) -> 1 .. n - 1] :
          /\ \A i, j \in 1 .. Len(l) : i < j => place[i] < place[j]
          /\ \A i \in 1 .. Len(l) : l[i] = list[place[i]] /\ list[place[i]].kind \in kinds
          /\ \A k \in 1 .. n - 1 : list[k].kind \in kinds =>
                \E i \in 1 .. Len(l) : place[i] = k
  BY DEF ChosenOf
<1>2. place \in [1 .. Len(l) -> 1 .. n]
  <2>1. 1 .. n - 1 \subseteq 1 .. n
    OBVIOUS
  <2> QED
    BY <2>1
<1>3. \A k \in 1 .. n : list[k].kind \in kinds => k \in 1 .. n - 1
  OBVIOUS
<1> QED
  BY <1>1, <1>2, <1>3 DEF ChosenOf

\* OfKind chooses the elements of the kinds and keeps their order.
LEMMA KindsChosen ==
    ASSUME NEW list, NEW kinds, Len(list) \in Nat
    PROVE  ChosenOf(Layout!OfKind(list, kinds), Len(list), list, kinds)
<1>1. PICK g : ChosenAt(g, list, kinds) /\ Layout!OfKind(list, kinds) = g[Len(list)]
  BY KindSteps, Zenon
<1>2. g[0] = << >> /\ \A n \in 1 .. Len(list) :
          g[n] = IF list[n].kind \in kinds THEN Append(g[n - 1], list[n]) ELSE g[n - 1]
  BY <1>1 DEF ChosenAt
<1>3. ChosenOf(g[0], 0, list, kinds)
  <2>1. << >> \in Seq({}) /\ Len(<< >>) = 0 /\ 1 .. 0 = {}
    OBVIOUS
  <2>2. [x \in {} |-> x] \in [{} -> {}]
    OBVIOUS
  <2> QED
    BY <1>2, <2>1, <2>2 DEF ChosenOf, IsList
<1>4. ASSUME NEW n \in 1 .. Len(list), ChosenOf(g[n - 1], n - 1, list, kinds)
      PROVE  ChosenOf(g[n], n, list, kinds)
  <2>1. n \in Nat /\ n # 0
    OBVIOUS
  <2>2. CASE list[n].kind \in kinds
    <3>1. ChosenOf(Append(g[n - 1], list[n]), n, list, kinds)
      BY <1>4, <2>1, <2>2, ChooseOne, Zenon
    <3> QED
      BY <1>2, <2>2, <3>1, Zenon
  <2>3. CASE list[n].kind \notin kinds
    <3>1. ChosenOf(g[n - 1], n, list, kinds)
      BY <1>4, <2>1, <2>3, PassOne, Zenon
    <3> QED
      BY <1>2, <2>3, <3>1, Zenon
  <2> QED
    BY <2>2, <2>3
<1>5. \A n \in 0 .. Len(list) : ChosenOf(g[n], n, list, kinds)
  <2> DEFINE Bad == {n \in 0 .. Len(list) : ~ChosenOf(g[n], n, list, kinds)}
  <2> SUFFICES ASSUME Bad # {} PROVE FALSE
    OBVIOUS
  <2>1. PICK n \in Bad : \A m \in Bad : n <= m
    <3>1. Bad \subseteq Nat
      OBVIOUS
    <3> HIDE DEF Bad
    <3> QED
      BY <3>1, LeastNumber
  <2>2. n \in 0 .. Len(list) /\ n # 0
    BY <1>3, <2>1
  <2>3. n \in 1 .. Len(list) /\ n - 1 \in 0 .. Len(list) /\ ~(n <= n - 1)
    BY <2>2
  <2>4. ChosenOf(g[n - 1], n - 1, list, kinds)
    BY <2>1, <2>3
  <2> QED
    BY <1>4, <2>1, <2>3, <2>4
<1> QED
  BY <1>1, <1>5

-----------------------------------------------------------------------------
(* What the parser makes of a file. *)

\* The chunks that become items of the syntax tree.
ItemKinds == {"module"} \cup Layout!Declarations \cup Layout!Tracked

\* The least and the greatest of some places.
LEMMA EndsOfSpan ==
    ASSUME NEW S \in SUBSET Nat, S # {}, NEW n \in Nat, \A y \in S : y <= n
    PROVE  /\ Layout!Min(S) \in S /\ Layout!Max(S) \in S
           /\ \A y \in S : Layout!Min(S) <= y /\ y <= Layout!Max(S)
<1>1. \E x \in S : \A y \in S : x <= y
  BY LeastNumber
<1>2. Layout!Min(S) \in S /\ \A y \in S : Layout!Min(S) <= y
  BY <1>1 DEF Layout!Min
<1> DEFINE bounds == {u \in Nat : \A y \in S : y <= u}
<1>3. bounds \in SUBSET Nat /\ n \in bounds
  OBVIOUS
<1>4. PICK u \in bounds : \A v \in bounds : u <= v
  <2> HIDE DEF bounds
  <2> QED
    BY <1>3, LeastNumber
<1>5. u \in Nat /\ \A y \in S : y <= u
  BY <1>4
<1>6. u \in S
  <2> SUFFICES ASSUME u \notin S PROVE FALSE
    OBVIOUS
  <2>1. \A y \in S : y \in Nat /\ y <= u - 1
    BY <1>5
  <2>2. u - 1 \in Nat
    BY <1>1, <1>5, <2>1
  <2>3. u - 1 \in bounds
    BY <2>1, <2>2
  <2> QED
    BY <1>4, <1>5, <2>3
<1>7. \E x \in S : \A y \in S : x >= y
  BY <1>5, <1>6
<1>8. Layout!Max(S) \in S /\ \A y \in S : Layout!Max(S) >= y
  BY <1>7 DEF Layout!Max
<1> QED
  BY <1>2, <1>8

\* A span of tokens lies behind the cursor and before the item.
LEMMA TokensOfSpan ==
    ASSUME NEW file, NEW acc, NEW chunk \in Nat, acc.cursor \in Nat
    PROVE  \/ Layout!TokenSpan(file, acc, chunk) = << >>
           \/ \E first, end \in Nat :
                 /\ acc.cursor <= first /\ first < end /\ end < chunk
                 /\ Layout!TokenSpan(file, acc, chunk) = <<Layout!Opaque(acc.module, first, end)>>
<1> DEFINE tokens == {i \in acc.cursor + 1 .. chunk - 1 : file[i] # "gap"}
<1>1. tokens \in SUBSET Nat /\ \A y \in tokens : acc.cursor + 1 <= y /\ y <= chunk - 1 /\ y <= chunk
  OBVIOUS
<1>2. Layout!TokenSpan(file, acc, chunk) =
          IF tokens = {} THEN << >>
          ELSE <<Layout!Opaque(acc.module, Layout!Min(tokens) - 1, Layout!Max(tokens))>>
  BY DEF Layout!TokenSpan
<1> HIDE DEF tokens
<1>3. CASE tokens # {}
  <2>1. /\ Layout!Min(tokens) \in tokens /\ Layout!Max(tokens) \in tokens
        /\ Layout!Min(tokens) <= Layout!Max(tokens)
    BY <1>1, <1>3, EndsOfSpan
  <2>2. /\ Layout!Min(tokens) \in Nat /\ Layout!Max(tokens) \in Nat
        /\ acc.cursor + 1 <= Layout!Min(tokens) /\ Layout!Max(tokens) <= chunk - 1
    BY <1>1, <2>1
  <2>3. Layout!Min(tokens) - 1 \in Nat /\ acc.cursor <= Layout!Min(tokens) - 1
        /\ Layout!Min(tokens) - 1 < Layout!Max(tokens) /\ Layout!Max(tokens) < chunk
    BY <2>1, <2>2
  <2> QED
    BY <1>2, <1>3, <2>2, <2>3
<1> QED
  BY <1>2, <1>3

\* A list with a list of at most one element behind it.
LEMMA ListExtended ==
    ASSUME NEW list, NEW record, IsList(list)
    PROVE  list \o << >> = list /\ list \o <<record>> = Append(list, record)
<1>1. PICK R : list \in Seq(R)
  BY DEF IsList
<1>2. list \in Seq(R \cup {record}) /\ <<record>> \in Seq(R \cup {record})
  BY <1>1
<1>3. list \o << >> = list
  BY <1>1
<1>4. list \o <<record>> = Append(list, record)
  BY <1>2
<1> QED
  BY <1>3, <1>4

\* The nodes of a tree after the first k chunks: spans of some bytes, and an item for each
\* chunk that is one, in the order of the chunks.
NodesOK(made, k, file) ==
    /\ IsList(made)
    /\ \A i \in 1 .. Len(made) :
          /\ made[i].module = 0 \/ (made[i].module \in 1 .. k /\ file[made[i].module] = "module")
          /\ IF made[i].kind = "opaque"
             THEN /\ made[i].first \in Nat /\ made[i].end \in Nat
                  /\ made[i].first < made[i].end /\ made[i].end <= Len(file)
             ELSE /\ made[i].at \in 1 .. k /\ made[i].kind = file[made[i].at]
                  /\ made[i].kind \in ItemKinds
                  /\ made[i].kind \in Layout!Declarations => made[i].module # 0
    /\ \A i, j \in 1 .. Len(made) :
          i < j /\ made[i].kind # "opaque" /\ made[j].kind # "opaque"
             => made[i].at < made[j].at
    /\ \A c \in 1 .. k : file[c] \in ItemKinds =>
          \E i \in 1 .. Len(made) : made[i].kind = file[c] /\ made[i].at = c

\* A span behind the nodes.
LEMMA NodesSpanned ==
    ASSUME NEW file, NEW k \in Nat, NEW made, NodesOK(made, k, file),
           NEW module, module = 0 \/ (module \in 1 .. k /\ file[module] = "module"),
           NEW first \in Nat, NEW end \in Nat, first < end, end <= Len(file)
    PROVE  NodesOK(Append(made, Layout!Opaque(module, first, end)), k, file)
<1> DEFINE node == Layout!Opaque(module, first, end)
           longer == Append(made, node)
<1>1. node.kind = "opaque" /\ node.module = module /\ node.first = first /\ node.end = end
  BY DEF Layout!Opaque
<1>2. IsList(made)
  BY DEF NodesOK
<1> HIDE DEF node
<1>3. /\ IsList(longer) /\ Len(made) \in Nat /\ Len(longer) = Len(made) + 1
      /\ longer[Len(made) + 1] = node
      /\ \A i \in 1 .. Len(made) : longer[i] = made[i]
  BY <1>2, ListAppended
<1>4. 1 .. Len(longer) = 1 .. Len(made) \cup {Len(made) + 1}
  BY <1>3
<1> HIDE DEF longer
<1>5. ASSUME NEW i \in 1 .. Len(longer)
      PROVE  /\ \/ longer[i].module = 0
                \/ longer[i].module \in 1 .. k /\ file[longer[i].module] = "module"
             /\ IF longer[i].kind = "opaque"
                THEN /\ longer[i].first \in Nat /\ longer[i].end \in Nat
                     /\ longer[i].first < longer[i].end /\ longer[i].end <= Len(file)
                ELSE /\ longer[i].at \in 1 .. k /\ longer[i].kind = file[longer[i].at]
                     /\ longer[i].kind \in ItemKinds
                     /\ longer[i].kind \in Layout!Declarations => longer[i].module # 0
  <2>1. CASE i = Len(made) + 1
    BY <1>1, <1>3, <2>1
  <2>2. CASE i \in 1 .. Len(made)
    BY <1>3, <2>2 DEF NodesOK
  <2> QED
    BY <1>4, <2>1, <2>2
<1>6. ASSUME NEW i \in 1 .. Len(longer), NEW j \in 1 .. Len(longer), i < j,
             longer[i].kind # "opaque", longer[j].kind # "opaque"
      PROVE  longer[i].at < longer[j].at
  <2>1. i \in 1 .. Len(made) /\ j \in 1 .. Len(made)
    BY <1>1, <1>3, <1>4, <1>6
  <2> QED
    BY <1>3, <1>6, <2>1 DEF NodesOK
<1>7. ASSUME NEW c \in 1 .. k, file[c] \in ItemKinds
      PROVE  \E i \in 1 .. Len(longer) : longer[i].kind = file[c] /\ longer[i].at = c
  <2>1. PICK i \in 1 .. Len(made) : made[i].kind = file[c] /\ made[i].at = c
    BY <1>7 DEF NodesOK
  <2> QED
    BY <1>3, <1>4, <2>1
<1>8. NodesOK(longer, k, file)
  BY <1>3, <1>5, <1>6, <1>7 DEF NodesOK
<1> QED
  BY <1>8 DEF longer, node

\* The item of the next chunk behind the nodes.
LEMMA NodesItemized ==
    ASSUME NEW file, NEW k \in Nat, NEW made, NodesOK(made, k, file),
           NEW module, module = 0 \/ (module \in 1 .. k /\ file[module] = "module"),
           file[k + 1] \in ItemKinds, file[k + 1] \in Layout!Declarations => module # 0
    PROVE  NodesOK(Append(made, Layout!Item(file[k + 1], module, k + 1)), k + 1, file)
<1> DEFINE node == Layout!Item(file[k + 1], module, k + 1)
           longer == Append(made, node)
<1>1. node.kind = file[k + 1] /\ node.module = module /\ node.at = k + 1 /\ node.kind # "opaque"
  BY DEF Layout!Item, ItemKinds, Layout!Declarations, Layout!Tracked
<1>2. IsList(made)
  BY DEF NodesOK
<1> HIDE DEF node
<1>3. /\ IsList(longer) /\ Len(made) \in Nat /\ Len(longer) = Len(made) + 1
      /\ longer[Len(made) + 1] = node
      /\ \A i \in 1 .. Len(made) : longer[i] = made[i]
  BY <1>2, ListAppended
<1>4. 1 .. Len(longer) = 1 .. Len(made) \cup {Len(made) + 1}
  BY <1>3
<1>k. 1 .. k + 1 = 1 .. k \cup {k + 1}
  OBVIOUS
<1> HIDE DEF longer
<1>5. ASSUME NEW i \in 1 .. Len(longer)
      PROVE  /\ longer[i].module = 0
                \/ (longer[i].module \in 1 .. k + 1 /\ file[longer[i].module] = "module")
             /\ IF longer[i].kind = "opaque"
                THEN /\ longer[i].first \in Nat /\ longer[i].end \in Nat
                     /\ longer[i].first < longer[i].end /\ longer[i].end <= Len(file)
                ELSE /\ longer[i].at \in 1 .. k + 1 /\ longer[i].kind = file[longer[i].at]
                     /\ longer[i].kind \in ItemKinds
                     /\ longer[i].kind \in Layout!Declarations => longer[i].module # 0
  <2>1. CASE i = Len(made) + 1
    BY <1>1, <1>3, <1>k, <2>1
  <2>2. CASE i \in 1 .. Len(made)
    BY <1>3, <1>k, <2>2 DEF NodesOK
  <2> QED
    BY <1>4, <2>1, <2>2
<1>6. ASSUME NEW i \in 1 .. Len(longer), NEW j \in 1 .. Len(longer), i < j,
             longer[i].kind # "opaque", longer[j].kind # "opaque"
      PROVE  longer[i].at < longer[j].at
  <2>1. i \in 1 .. Len(made)
    BY <1>3, <1>4, <1>6
  <2>2. CASE j \in 1 .. Len(made)
    BY <1>3, <1>6, <2>1, <2>2 DEF NodesOK
  <2>3. CASE j = Len(made) + 1
    <3>1. made[i].at \in 1 .. k /\ longer[i] = made[i]
      BY <1>3, <1>6, <2>1 DEF NodesOK
    <3> QED
      BY <1>1, <1>3, <2>3, <3>1
  <2> QED
    BY <1>4, <2>2, <2>3
<1>7. ASSUME NEW c \in 1 .. k + 1, file[c] \in ItemKinds
      PROVE  \E i \in 1 .. Len(longer) : longer[i].kind = file[c] /\ longer[i].at = c
  <2>1. CASE c \in 1 .. k
    <3>1. PICK i \in 1 .. Len(made) : made[i].kind = file[c] /\ made[i].at = c
      BY <1>7, <2>1 DEF NodesOK
    <3> QED
      BY <1>3, <1>4, <3>1
  <2>2. CASE c = k + 1
    BY <1>1, <1>3, <1>4, <2>2
  <2> QED
    BY <1>k, <2>1, <2>2
<1>8. NodesOK(longer, k + 1, file)
  BY <1>3, <1>5, <1>6, <1>7 DEF NodesOK
<1> QED
  BY <1>8 DEF longer, node

\* A chunk that is no item.
LEMMA NodesPassed ==
    ASSUME NEW file, NEW k \in Nat, NEW made, NodesOK(made, k, file),
           file[k + 1] \notin ItemKinds
    PROVE  NodesOK(made, k + 1, file)
<1>k. 1 .. k + 1 = 1 .. k \cup {k + 1}
  OBVIOUS
<1> QED
  BY <1>k DEF NodesOK

\* A list of nodes with at most one span behind it, of bytes between two places.
Spanned(s, made, module, low, high) ==
    \/ s = made
    \/ \E first, end \in Nat :
          /\ low <= first /\ first < end /\ end <= high
          /\ s = Append(made, Layout!Opaque(module, first, end))

\* What the head of a module does to the state of the parser.
LEMMA ConsumeModule ==
    ASSUME NEW file, NEW acc, NEW chunk \in Nat, IsList(acc.nodes), acc.cursor \in Nat,
           file[chunk] = "module"
    PROVE  \E s : /\ Spanned(s, acc.nodes, acc.module, acc.cursor, chunk - 1)
                  /\ Layout!Consume(file, acc, chunk) =
                        [nodes |-> Append(s, Layout!Item(file[chunk], acc.module, chunk)),
                         module |-> chunk, cursor |-> chunk - 1, bytes |-> 0]
<1> DEFINE item == Layout!Item(file[chunk], acc.module, chunk)
           s == acc.nodes \o Layout!TokenSpan(file, acc, chunk)
<1>1. Layout!Consume(file, acc, chunk) =
          [nodes |-> s \o <<item>>, module |-> chunk, cursor |-> chunk - 1, bytes |-> 0]
  BY DEF Layout!Consume, Layout!Declarations, Layout!Tracked
<1>2. Spanned(s, acc.nodes, acc.module, acc.cursor, chunk - 1) /\ IsList(s)
  <2>1. CASE Layout!TokenSpan(file, acc, chunk) = << >>
    BY <2>1, ListExtended DEF Spanned
  <2>2. CASE Layout!TokenSpan(file, acc, chunk) # << >>
    <3>1. PICK first, end \in Nat :
              /\ acc.cursor <= first /\ first < end /\ end < chunk
              /\ Layout!TokenSpan(file, acc, chunk) = <<Layout!Opaque(acc.module, first, end)>>
      BY <2>2, TokensOfSpan
    <3>2. s = Append(acc.nodes, Layout!Opaque(acc.module, first, end))
      BY <3>1, ListExtended
    <3>3. end <= chunk - 1
      BY <3>1
    <3> HIDE DEF s
    <3> QED
      BY <3>1, <3>2, <3>3, ListGrows DEF Spanned
  <2> QED
    BY <2>1, <2>2
<1> HIDE DEF s, item
<1>3. s \o <<item>> = Append(s, item)
  BY <1>2, ListExtended
<1> QED
  BY <1>1, <1>2, <1>3 DEF item

\* What a typedef, a parameter, an instance or a process does.
LEMMA ConsumeTracked ==
    ASSUME NEW file, NEW acc, NEW chunk \in Nat, IsList(acc.nodes), acc.cursor \in Nat,
           file[chunk] \in Layout!Tracked,
           acc = [nodes |-> acc.nodes, module |-> acc.module, cursor |-> acc.cursor,
                  bytes |-> acc.bytes]
    PROVE  \E s : /\ Spanned(s, acc.nodes, acc.module, acc.cursor, chunk - 1)
                  /\ Layout!Consume(file, acc, chunk) =
                        [nodes |-> Append(s, Layout!Item(file[chunk], acc.module, chunk)),
                         module |-> acc.module, cursor |-> chunk, bytes |-> acc.bytes]
<1> DEFINE item == Layout!Item(file[chunk], acc.module, chunk)
           s == acc.nodes \o Layout!TokenSpan(file, acc, chunk)
<1>k. file[chunk] # "module" /\ file[chunk] \notin Layout!Declarations
  BY DEF Layout!Tracked, Layout!Declarations
<1>1. Layout!Consume(file, acc, chunk) = [acc EXCEPT !.nodes = s \o <<item>>, !.cursor = chunk]
  BY <1>k DEF Layout!Consume, Layout!Declarations, Layout!Tracked
<1>2. Spanned(s, acc.nodes, acc.module, acc.cursor, chunk - 1) /\ IsList(s)
  <2>1. CASE Layout!TokenSpan(file, acc, chunk) = << >>
    BY <2>1, ListExtended DEF Spanned
  <2>2. CASE Layout!TokenSpan(file, acc, chunk) # << >>
    <3>1. PICK first, end \in Nat :
              /\ acc.cursor <= first /\ first < end /\ end < chunk
              /\ Layout!TokenSpan(file, acc, chunk) = <<Layout!Opaque(acc.module, first, end)>>
      BY <2>2, TokensOfSpan
    <3>2. s = Append(acc.nodes, Layout!Opaque(acc.module, first, end))
      BY <3>1, ListExtended
    <3>3. end <= chunk - 1
      BY <3>1
    <3> HIDE DEF s
    <3> QED
      BY <3>1, <3>2, <3>3, ListGrows DEF Spanned
  <2> QED
    BY <2>1, <2>2
<1> HIDE DEF s, item
<1>3. s \o <<item>> = Append(s, item)
  BY <1>2, ListExtended
<1>4. Layout!Consume(file, acc, chunk) =
          [nodes |-> Append(s, item), module |-> acc.module, cursor |-> chunk, bytes |-> acc.bytes]
  BY <1>1, <1>3
<1> QED
  BY <1>2, <1>4 DEF item

\* A list of nodes with the span of the bytes between two places behind it.
Bytes(made, module, from, to) ==
    IF from >= to THEN made ELSE Append(made, Layout!Opaque(module, from, to))

\* What a declaration does.
LEMMA ConsumeDeclaration ==
    ASSUME NEW file, NEW acc, NEW chunk \in Nat, IsList(acc.nodes),
           file[chunk] \in Layout!Declarations,
           acc = [nodes |-> acc.nodes, module |-> acc.module, cursor |-> acc.cursor,
                  bytes |-> acc.bytes]
    PROVE  Layout!Consume(file, acc, chunk) =
              [nodes |-> Append(Bytes(acc.nodes, acc.module, acc.bytes, chunk - 1),
                                Layout!Item(file[chunk], acc.module, chunk)),
               module |-> acc.module, cursor |-> chunk, bytes |-> chunk]
<1> DEFINE item == Layout!Item(file[chunk], acc.module, chunk)
           s == acc.nodes \o Layout!ByteSpan(acc, chunk - 1)
<1>k. file[chunk] # "module"
  BY DEF Layout!Declarations
<1>1. Layout!Consume(file, acc, chunk)
          = [acc EXCEPT !.nodes = s \o <<item>>, !.cursor = chunk, !.bytes = chunk]
  BY <1>k DEF Layout!Consume, Layout!Declarations, Layout!Tracked
<1>2. s = Bytes(acc.nodes, acc.module, acc.bytes, chunk - 1) /\ IsList(s)
  <2>1. CASE acc.bytes >= chunk - 1
    BY <2>1, ListExtended DEF Layout!ByteSpan, Bytes
  <2>2. CASE ~(acc.bytes >= chunk - 1)
    <3>1. s = Append(acc.nodes, Layout!Opaque(acc.module, acc.bytes, chunk - 1))
      BY <2>2, ListExtended DEF Layout!ByteSpan
    <3> QED
      BY <2>2, <3>1, ListGrows DEF Bytes
  <2> QED
    BY <2>1, <2>2
<1> HIDE DEF s, item
<1>3. s \o <<item>> = Append(s, item)
  BY <1>2, ListExtended
<1>4. Layout!Consume(file, acc, chunk) =
          [nodes |-> Append(s, item), module |-> acc.module, cursor |-> chunk, bytes |-> chunk]
  BY <1>1, <1>3
<1> QED
  BY <1>2, <1>4 DEF item

\* What the end of a module does.
LEMMA ConsumeEnd ==
    ASSUME NEW file, NEW acc, NEW chunk \in Nat, IsList(acc.nodes), file[chunk] = "endmodule",
           acc = [nodes |-> acc.nodes, module |-> acc.module, cursor |-> acc.cursor,
                  bytes |-> acc.bytes]
    PROVE  Layout!Consume(file, acc, chunk) =
              [nodes |-> Bytes(acc.nodes, acc.module, acc.bytes, Len(file)),
               module |-> 0, cursor |-> chunk, bytes |-> acc.bytes]
<1> DEFINE s == acc.nodes \o Layout!ByteSpan(acc, Len(file))
<1>1. Layout!Consume(file, acc, chunk) = [acc EXCEPT !.nodes = s, !.module = 0, !.cursor = chunk]
  BY DEF Layout!Consume, Layout!Declarations, Layout!Tracked
<1>2. s = Bytes(acc.nodes, acc.module, acc.bytes, Len(file))
  BY ListExtended DEF Layout!ByteSpan, Bytes
<1> HIDE DEF s
<1> QED
  BY <1>1, <1>2

\* What another chunk does.
LEMMA ConsumeOther ==
    ASSUME NEW file, NEW acc, NEW chunk, file[chunk] \notin ItemKinds \cup {"endmodule"}
    PROVE  Layout!Consume(file, acc, chunk) = acc
  BY DEF Layout!Consume, ItemKinds

\* A span of a module stands behind the head of the module, and no later head before it.
HasSpan(made, head) ==
    \E i \in 1 .. Len(made) :
        /\ made[i].kind = "opaque" /\ made[i].module = head
        /\ \E j \in 1 .. i : made[j].kind = "module" /\ made[j].at = head
        /\ \A j \in 1 .. i : made[j].kind = "module" => made[j].at <= head

\* More nodes leave it there.
LEMMA HasSpanStays ==
    ASSUME NEW made, IsList(made), NEW node, NEW head, HasSpan(made, head)
    PROVE  HasSpan(Append(made, node), head)
<1> DEFINE longer == Append(made, node)
<1>1. /\ Len(made) \in Nat /\ Len(longer) = Len(made) + 1
      /\ \A i \in 1 .. Len(made) : longer[i] = made[i]
  BY ListAppended
<1> HIDE DEF longer
<1>2. PICK i \in 1 .. Len(made) :
        /\ made[i].kind = "opaque" /\ made[i].module = head
        /\ \E j \in 1 .. i : made[j].kind = "module" /\ made[j].at = head
        /\ \A j \in 1 .. i : made[j].kind = "module" => made[j].at <= head
  BY DEF HasSpan
<1>3. i \in 1 .. Len(longer) /\ \A j \in 1 .. i : longer[j] = made[j]
  BY <1>1
<1>4. i \in 1 .. i
  BY <1>1
<1>5. HasSpan(longer, head)
  BY <1>2, <1>3, <1>4 DEF HasSpan
<1> QED
  BY <1>5 DEF longer

\* The state of the parser after k chunks.  The module it is in is one that has not ended;
\* whatever module has ended has a span.
ParseInv(acc, k, file) ==
    /\ acc = [nodes |-> acc.nodes, module |-> acc.module, cursor |-> acc.cursor,
              bytes |-> acc.bytes]
    /\ NodesOK(acc.nodes, k, file)
    /\ acc.cursor \in 0 .. k /\ acc.bytes \in 0 .. acc.cursor
    /\ \/ acc.module = 0
       \/ /\ acc.module \in 1 .. k /\ file[acc.module] = "module"
          /\ \A i \in acc.module + 1 .. k : file[i] \notin {"module", "endmodule"}
    /\ \A head \in 1 .. k : file[head] = "module" /\ head # acc.module =>
          /\ HasSpan(acc.nodes, head)
          /\ \E i \in head + 1 .. k : file[i] = "endmodule"

\* A span before an item keeps what is true of the nodes.
LEMMA SpanKeeps ==
    ASSUME NEW file, NEW k \in Nat, k < Len(file), Len(file) \in Nat,
           NEW acc, ParseInv(acc, k, file),
           NEW s, NEW low \in Nat, NEW high \in Nat, high <= Len(file),
           Spanned(s, acc.nodes, acc.module, low, high)
    PROVE  /\ NodesOK(s, k, file)
           /\ \A head : HasSpan(acc.nodes, head) => HasSpan(s, head)
<1>1. IsList(acc.nodes) /\ NodesOK(acc.nodes, k, file)
      /\ (acc.module = 0 \/ (acc.module \in 1 .. k /\ file[acc.module] = "module"))
  <2>1. NodesOK(acc.nodes, k, file)
    BY DEF ParseInv
  <2>2. IsList(acc.nodes)
    BY <2>1 DEF NodesOK
  <2>3. \/ acc.module = 0
        \/ /\ acc.module \in 1 .. k /\ file[acc.module] = "module"
           /\ \A i \in acc.module + 1 .. k : file[i] \notin {"module", "endmodule"}
    BY DEF ParseInv
  <2> QED
    BY <2>1, <2>2, <2>3
<1>2. CASE s = acc.nodes
  BY <1>1, <1>2
<1>3. CASE s # acc.nodes
  <2>1. PICK first \in Nat, end \in Nat :
            /\ low <= first /\ first < end /\ end <= high
            /\ s = Append(acc.nodes, Layout!Opaque(acc.module, first, end))
    BY <1>3 DEF Spanned
  <2>2. end <= Len(file)
    BY <2>1
  <2>3. NodesOK(Append(acc.nodes, Layout!Opaque(acc.module, first, end)), k, file)
    BY <1>1, <2>1, <2>2, NodesSpanned
  <2> QED
    BY <1>1, <2>1, <2>3, HasSpanStays
<1> QED
  BY <1>2, <1>3

\* In a file a module ends before the next begins, and what belongs in one is in one.
LEMMA HeadsAndEnds ==
    ASSUME NEW file \in SourceFiles, NEW k \in Nat, k < Len(file), NEW acc, ParseInv(acc, k, file)
    PROVE  /\ Len(file) \in Nat /\ k + 1 \in DOMAIN file
           /\ file[k + 1] \in Layout!Declarations \cup {"endmodule"} => acc.module # 0
           /\ file[k + 1] = "module" => acc.module = 0
<1>1. /\ file \in Seq(Chunk)
      /\ \A chunk \in DOMAIN file : file[chunk] \in {"port", "signal", "endmodule"} =>
            \E head \in 1 .. chunk - 1 : InModule(file, head, chunk)
      /\ \A head \in DOMAIN file : file[head] = "module" =>
            \E chunk \in head + 1 .. Len(file) :
                InModule(file, head, chunk) /\ file[chunk] = "endmodule"
  BY FilesAssumption
<1>2. Len(file) \in Nat /\ DOMAIN file = 1 .. Len(file) /\ k + 1 \in DOMAIN file
  BY <1>1
<1>3. ASSUME file[k + 1] \in Layout!Declarations \cup {"endmodule"}, acc.module = 0
      PROVE  FALSE
  <2>1. file[k + 1] \in {"port", "signal", "endmodule"}
    BY <1>3 DEF Layout!Declarations
  <2>2. PICK head \in 1 .. k + 1 - 1 : InModule(file, head, k + 1)
    BY <1>1, <1>2, <2>1
  <2>3. head \in 1 .. k /\ file[head] = "module" /\ head # acc.module
    BY <1>3, <2>2 DEF InModule
  <2>4. PICK i \in head + 1 .. k : file[i] = "endmodule"
    BY <2>3 DEF ParseInv
  <2>5. i \in head + 1 .. k + 1 - 1
    BY <2>3, <2>4
  <2> QED
    BY <2>2, <2>4, <2>5 DEF InModule
<1>4. ASSUME file[k + 1] = "module", acc.module # 0
      PROVE  FALSE
  <2>1. /\ acc.module \in 1 .. k /\ file[acc.module] = "module"
        /\ \A i \in acc.module + 1 .. k : file[i] \notin {"module", "endmodule"}
    BY <1>4 DEF ParseInv
  <2>2. acc.module \in DOMAIN file
    BY <1>2, <2>1
  <2>3. PICK chunk \in acc.module + 1 .. Len(file) :
            InModule(file, acc.module, chunk) /\ file[chunk] = "endmodule"
    BY <1>1, <2>1, <2>2
  <2>4. ~(chunk \in acc.module + 1 .. k) /\ chunk # k + 1
    BY <1>4, <2>1, <2>3
  <2>5. k + 1 \in acc.module + 1 .. chunk - 1
    BY <1>2, <2>1, <2>3, <2>4
  <2> QED
    BY <1>4, <2>3, <2>5 DEF InModule
<1> QED
  BY <1>2, <1>3, <1>4

\* A chunk that is passed or becomes an item leaves the module open.
LEMMA SameModule ==
    ASSUME NEW file \in SourceFiles, NEW k \in Nat, k < Len(file), NEW acc, ParseInv(acc, k, file),
           file[k + 1] \notin {"module", "endmodule"},
           NEW s, NodesOK(s, k + 1, file), \A head : HasSpan(acc.nodes, head) => HasSpan(s, head),
           NEW cursor \in 0 .. k + 1, NEW bytes \in 0 .. cursor
    PROVE  ParseInv([nodes |-> s, module |-> acc.module, cursor |-> cursor, bytes |-> bytes],
                    k + 1, file)
<1>1. 1 .. k + 1 = 1 .. k \cup {k + 1}
  OBVIOUS
<1>2. \/ acc.module = 0
      \/ /\ acc.module \in 1 .. k + 1 /\ file[acc.module] = "module"
         /\ \A i \in acc.module + 1 .. k + 1 : file[i] \notin {"module", "endmodule"}
  <2>1. acc.module \in 1 .. k => acc.module + 1 .. k + 1 = (acc.module + 1 .. k) \cup {k + 1}
    OBVIOUS
  <2> QED
    BY <1>1, <2>1 DEF ParseInv
<1>3. ASSUME NEW head \in 1 .. k + 1, file[head] = "module", head # acc.module
      PROVE  /\ HasSpan(s, head)
             /\ \E i \in head + 1 .. k + 1 : file[i] = "endmodule"
  <2>1. head \in 1 .. k
    BY <1>1, <1>3
  <2>2. HasSpan(acc.nodes, head) /\ \E i \in head + 1 .. k : file[i] = "endmodule"
    BY <1>3, <2>1 DEF ParseInv
  <2>3. head + 1 .. k \subseteq head + 1 .. k + 1
    BY <2>1
  <2> QED
    BY <2>2, <2>3
<1> DEFINE after == [nodes |-> s, module |-> acc.module, cursor |-> cursor, bytes |-> bytes]
<1>4. /\ after.nodes = s /\ after.module = acc.module /\ after.cursor = cursor
      /\ after.bytes = bytes
      /\ after = [nodes |-> after.nodes, module |-> after.module, cursor |-> after.cursor,
                  bytes |-> after.bytes]
  OBVIOUS
<1> HIDE DEF after
<1>5. ParseInv(after, k + 1, file)
  BY <1>2, <1>3, <1>4 DEF ParseInv
<1> QED
  BY <1>5 DEF after

\* The first head of a module starts a module, when none is open.
LEMMA ModuleStarts ==
    ASSUME NEW file \in SourceFiles, NEW k \in Nat, k < Len(file), NEW acc, ParseInv(acc, k, file),
           file[k + 1] = "module"
    PROVE  ParseInv(Layout!Consume(file, acc, k + 1), k + 1, file)
<1>1. Len(file) \in Nat /\ acc.module = 0
  BY HeadsAndEnds
<1>2. /\ NodesOK(acc.nodes, k, file) /\ acc.cursor \in 0 .. k
  BY DEF ParseInv
<1>3. IsList(acc.nodes) /\ acc.cursor \in Nat /\ k + 1 \in Nat
  BY <1>2 DEF NodesOK
<1> DEFINE chunk == k + 1
<1>a. chunk \in Nat /\ file[chunk] = "module" /\ chunk - 1 = k /\ k <= Len(file)
  BY <1>1
<1> HIDE DEF chunk
<1>4. PICK s : /\ Spanned(s, acc.nodes, acc.module, acc.cursor, chunk - 1)
               /\ Layout!Consume(file, acc, chunk) =
                     [nodes |-> Append(s, Layout!Item(file[chunk], acc.module, chunk)),
                      module |-> chunk, cursor |-> chunk - 1, bytes |-> 0]
  BY <1>3, <1>a, ConsumeModule
<1>5. NodesOK(s, k, file) /\ \A head : HasSpan(acc.nodes, head) => HasSpan(s, head)
  <2>1. Spanned(s, acc.nodes, acc.module, acc.cursor, k)
    BY <1>4, <1>a
  <2> QED
    BY <1>1, <1>3, <1>a, <2>1, SpanKeeps
<1> DEFINE longer == Append(s, Layout!Item(file[k + 1], acc.module, k + 1))
<1>6. NodesOK(longer, k + 1, file)
  <2>1. file[k + 1] \in ItemKinds
    BY DEF ItemKinds
  <2>2. file[k + 1] \in Layout!Declarations => acc.module # 0
    BY DEF Layout!Declarations
  <2>3. acc.module = 0 \/ (acc.module \in 1 .. k /\ file[acc.module] = "module")
    BY <1>1
  <2> QED
    BY <1>5, <2>1, <2>2, <2>3, NodesItemized
<1>7. \A head : HasSpan(acc.nodes, head) => HasSpan(longer, head)
  <2>1. IsList(s)
    BY <1>5 DEF NodesOK
  <2> QED
    BY <1>5, <2>1, HasSpanStays
<1> HIDE DEF longer
<1>8. ASSUME NEW head \in 1 .. k + 1, file[head] = "module", head # k + 1
      PROVE  /\ HasSpan(longer, head)
             /\ \E i \in head + 1 .. k + 1 : file[i] = "endmodule"
  <2>1. head \in 1 .. k /\ head # acc.module
    BY <1>1, <1>8
  <2>2. HasSpan(acc.nodes, head) /\ \E i \in head + 1 .. k : file[i] = "endmodule"
    BY <1>8, <2>1 DEF ParseInv
  <2>3. head + 1 .. k \subseteq head + 1 .. k + 1
    BY <2>1
  <2> QED
    BY <1>7, <2>2, <2>3
<1> DEFINE after == [nodes |-> longer, module |-> k + 1, cursor |-> k, bytes |-> 0]
<1>9. /\ after.nodes = longer /\ after.module = k + 1 /\ after.cursor = k /\ after.bytes = 0
      /\ after = [nodes |-> after.nodes, module |-> after.module, cursor |-> after.cursor,
                  bytes |-> after.bytes]
  OBVIOUS
<1>10. Layout!Consume(file, acc, k + 1) = after
  BY <1>4, <1>a DEF longer, chunk
<1>11. k \in 0 .. k + 1 /\ 0 \in 0 .. k /\ k + 1 \in 1 .. k + 1 /\ k + 1 + 1 .. k + 1 = {}
  OBVIOUS
<1> HIDE DEF after
<1>12. ParseInv(after, k + 1, file)
  BY <1>6, <1>8, <1>9, <1>11 DEF ParseInv
<1> QED
  BY <1>10, <1>12

\* The end of a module gives it its last span.
LEMMA ModuleEnds ==
    ASSUME NEW file \in SourceFiles, NEW k \in Nat, k < Len(file), NEW acc, ParseInv(acc, k, file),
           file[k + 1] = "endmodule"
    PROVE  ParseInv(Layout!Consume(file, acc, k + 1), k + 1, file)
<1>1. Len(file) \in Nat /\ acc.module # 0
  BY HeadsAndEnds
<1>2. /\ NodesOK(acc.nodes, k, file) /\ acc.cursor \in 0 .. k /\ acc.bytes \in 0 .. acc.cursor
      /\ acc = [nodes |-> acc.nodes, module |-> acc.module, cursor |-> acc.cursor,
                bytes |-> acc.bytes]
      /\ acc.module \in 1 .. k /\ file[acc.module] = "module"
      /\ \A i \in acc.module + 1 .. k : file[i] \notin {"module", "endmodule"}
  BY <1>1 DEF ParseInv
<1>3. IsList(acc.nodes) /\ k + 1 \in Nat /\ acc.bytes \in Nat /\ acc.bytes < Len(file)
  BY <1>1, <1>2 DEF NodesOK
<1> DEFINE node == Layout!Opaque(acc.module, acc.bytes, Len(file))
           longer == Append(acc.nodes, node)
<1>4. Layout!Consume(file, acc, k + 1) =
          [nodes |-> longer, module |-> 0, cursor |-> k + 1, bytes |-> acc.bytes]
  <2>1. Bytes(acc.nodes, acc.module, acc.bytes, Len(file)) = longer
    BY <1>1, <1>3 DEF Bytes
  <2> HIDE DEF longer
  <2> QED
    BY <1>2, <1>3, <2>1, ConsumeEnd
<1>5. NodesOK(longer, k, file)
  <2>1. acc.module = 0 \/ (acc.module \in 1 .. k /\ file[acc.module] = "module")
    BY <1>2
  <2>2. Len(file) <= Len(file)
    BY <1>1
  <2> QED
    BY <1>1, <1>2, <1>3, <2>1, <2>2, NodesSpanned
<1>6. NodesOK(longer, k + 1, file)
  <2>1. file[k + 1] \notin ItemKinds
    BY DEF ItemKinds, Layout!Declarations, Layout!Tracked
  <2> HIDE DEF longer
  <2> QED
    BY <1>5, <2>1, NodesPassed
<1>7. \A head : HasSpan(acc.nodes, head) => HasSpan(longer, head)
  BY <1>3, HasSpanStays
<1>8. HasSpan(longer, acc.module)
  <2>1. /\ Len(acc.nodes) \in Nat /\ Len(longer) = Len(acc.nodes) + 1
        /\ longer[Len(acc.nodes) + 1] = node
        /\ \A i \in 1 .. Len(acc.nodes) : longer[i] = acc.nodes[i]
    BY <1>3, ListAppended
  <2>2. node.kind = "opaque" /\ node.module = acc.module
    BY DEF Layout!Opaque
  <2>3. PICK j \in 1 .. Len(acc.nodes) :
            acc.nodes[j].kind = "module" /\ acc.nodes[j].at = acc.module
    <3>1. file[acc.module] \in ItemKinds
      BY <1>2 DEF ItemKinds
    <3> QED
      BY <1>2, <3>1 DEF NodesOK
  <2>4. ASSUME NEW i \in 1 .. Len(acc.nodes), acc.nodes[i].kind = "module"
        PROVE  acc.nodes[i].at <= acc.module
    <3>1. acc.nodes[i].at \in 1 .. k /\ file[acc.nodes[i].at] = "module"
      BY <1>2, <2>4 DEF NodesOK
    <3>2. ~(acc.nodes[i].at \in acc.module + 1 .. k)
      BY <1>2, <3>1
    <3> QED
      BY <1>2, <3>1, <3>2
  <2> HIDE DEF longer, node
  <2>5. 1 .. Len(longer) = 1 .. Len(acc.nodes) \cup {Len(acc.nodes) + 1}
    BY <2>1
  <2>6. \A i \in 1 .. Len(longer) : longer[i].kind = "module" => longer[i].at <= acc.module
    BY <2>1, <2>2, <2>4, <2>5
  <2>7. Len(longer) \in 1 .. Len(longer) /\ j \in 1 .. Len(longer)
    BY <2>1, <2>3
  <2> QED
    BY <2>1, <2>2, <2>3, <2>6, <2>7 DEF HasSpan
<1> HIDE DEF longer
<1>9. ASSUME NEW head \in 1 .. k + 1, file[head] = "module"
      PROVE  /\ HasSpan(longer, head)
             /\ \E i \in head + 1 .. k + 1 : file[i] = "endmodule"
  <2>1. head \in 1 .. k
    BY <1>9
  <2>2. HasSpan(longer, head)
    BY <1>7, <1>8, <1>9, <2>1 DEF ParseInv
  <2>3. k + 1 \in head + 1 .. k + 1
    BY <2>1
  <2> QED
    BY <2>2, <2>3
<1> DEFINE after == [nodes |-> longer, module |-> 0, cursor |-> k + 1, bytes |-> acc.bytes]
<1>10. /\ after.nodes = longer /\ after.module = 0 /\ after.cursor = k + 1
       /\ after.bytes = acc.bytes
       /\ after = [nodes |-> after.nodes, module |-> after.module, cursor |-> after.cursor,
                   bytes |-> after.bytes]
  OBVIOUS
<1>11. k + 1 \in 0 .. k + 1 /\ acc.bytes \in 0 .. k + 1
  BY <1>2
<1>12. Layout!Consume(file, acc, k + 1) = after
  BY <1>4
<1> HIDE DEF after
<1>13. ParseInv(after, k + 1, file)
  BY <1>6, <1>9, <1>10, <1>11 DEF ParseInv
<1> QED
  BY <1>12, <1>13

\* Every chunk keeps the invariant of the parser.
LEMMA ParseStep ==
    ASSUME NEW file \in SourceFiles, NEW k \in Nat, k < Len(file), NEW acc, ParseInv(acc, k, file)
    PROVE  ParseInv(Layout!Consume(file, acc, k + 1), k + 1, file)
<1>1. /\ Len(file) \in Nat
      /\ file[k + 1] \in Layout!Declarations \cup {"endmodule"} => acc.module # 0
  BY HeadsAndEnds
<1>2. /\ NodesOK(acc.nodes, k, file) /\ acc.cursor \in 0 .. k /\ acc.bytes \in 0 .. acc.cursor
      /\ acc = [nodes |-> acc.nodes, module |-> acc.module, cursor |-> acc.cursor,
                bytes |-> acc.bytes]
  BY DEF ParseInv
<1>3. IsList(acc.nodes) /\ k + 1 \in Nat /\ acc.cursor \in Nat /\ acc.bytes \in Nat
  BY <1>2 DEF NodesOK
<1>4. acc.module = 0 \/ (acc.module \in 1 .. k /\ file[acc.module] = "module")
  BY DEF ParseInv
<1>5. CASE file[k + 1] \in Layout!Tracked
  <2> DEFINE chunk == k + 1
  <2>1. /\ chunk \in Nat /\ file[chunk] \in Layout!Tracked /\ chunk - 1 = k /\ k <= Len(file)
    BY <1>1, <1>5
  <2> HIDE DEF chunk
  <2>2. PICK s : /\ Spanned(s, acc.nodes, acc.module, acc.cursor, chunk - 1)
                 /\ Layout!Consume(file, acc, chunk) =
                       [nodes |-> Append(s, Layout!Item(file[chunk], acc.module, chunk)),
                        module |-> acc.module, cursor |-> chunk, bytes |-> acc.bytes]
    BY <1>2, <1>3, <2>1, ConsumeTracked
  <2>3. NodesOK(s, k, file) /\ \A head : HasSpan(acc.nodes, head) => HasSpan(s, head)
    <3>1. Spanned(s, acc.nodes, acc.module, acc.cursor, k)
      BY <2>1, <2>2
    <3> QED
      BY <1>1, <1>3, <2>1, <3>1, SpanKeeps
  <2>4. IsList(s)
    BY <2>3 DEF NodesOK
  <2> DEFINE longer == Append(s, Layout!Item(file[k + 1], acc.module, k + 1))
  <2>5. NodesOK(longer, k + 1, file)
    <3>1. file[k + 1] \in ItemKinds /\ (file[k + 1] \in Layout!Declarations => acc.module # 0)
      BY <1>1, <1>5 DEF ItemKinds
    <3> QED
      BY <1>4, <2>3, <3>1, NodesItemized
  <2>6. \A head : HasSpan(acc.nodes, head) => HasSpan(longer, head)
    BY <2>3, <2>4, HasSpanStays
  <2>7. Layout!Consume(file, acc, k + 1) =
            [nodes |-> longer, module |-> acc.module, cursor |-> k + 1, bytes |-> acc.bytes]
    BY <2>2 DEF chunk
  <2>8. /\ file[k + 1] \notin {"module", "endmodule"}
        /\ k + 1 \in 0 .. k + 1 /\ acc.bytes \in 0 .. k + 1
    BY <1>2, <1>5 DEF Layout!Tracked
  <2> HIDE DEF longer
  <2> QED
    BY <2>5, <2>6, <2>7, <2>8, SameModule
<1>6. CASE file[k + 1] \in Layout!Declarations
  <2> DEFINE chunk == k + 1
             s == Bytes(acc.nodes, acc.module, acc.bytes, k)
  <2>1. /\ chunk \in Nat /\ file[chunk] \in Layout!Declarations /\ chunk - 1 = k /\ k <= Len(file)
    BY <1>1, <1>6
  <2> HIDE DEF chunk
  <2>2. Layout!Consume(file, acc, chunk) =
            [nodes |-> Append(Bytes(acc.nodes, acc.module, acc.bytes, chunk - 1),
                              Layout!Item(file[chunk], acc.module, chunk)),
             module |-> acc.module, cursor |-> chunk, bytes |-> chunk]
    BY <1>2, <1>3, <2>1, ConsumeDeclaration
  <2>3. NodesOK(s, k, file) /\ \A head : HasSpan(acc.nodes, head) => HasSpan(s, head)
    <3>1. Spanned(s, acc.nodes, acc.module, acc.bytes, k)
      BY <1>3 DEF Spanned, Bytes
    <3> HIDE DEF s
    <3> QED
      BY <1>1, <1>3, <2>1, <3>1, SpanKeeps
  <2>4. IsList(s)
    BY <2>3 DEF NodesOK
  <2> HIDE DEF s
  <2> DEFINE longer == Append(s, Layout!Item(file[k + 1], acc.module, k + 1))
  <2>5. NodesOK(longer, k + 1, file)
    <3>1. file[k + 1] \in ItemKinds /\ (file[k + 1] \in Layout!Declarations => acc.module # 0)
      BY <1>1, <1>6 DEF ItemKinds
    <3> QED
      BY <1>4, <2>3, <3>1, NodesItemized
  <2>6. \A head : HasSpan(acc.nodes, head) => HasSpan(longer, head)
    BY <2>3, <2>4, HasSpanStays
  <2>7. Layout!Consume(file, acc, k + 1) =
            [nodes |-> longer, module |-> acc.module, cursor |-> k + 1, bytes |-> k + 1]
    BY <2>1, <2>2 DEF chunk, s
  <2>8. file[k + 1] \notin {"module", "endmodule"} /\ k + 1 \in 0 .. k + 1
    BY <1>6 DEF Layout!Declarations
  <2> HIDE DEF longer
  <2> QED
    BY <2>5, <2>6, <2>7, <2>8, SameModule
<1>7. CASE file[k + 1] \notin ItemKinds \cup {"endmodule"}
  <2>1. Layout!Consume(file, acc, k + 1) =
            [nodes |-> acc.nodes, module |-> acc.module, cursor |-> acc.cursor,
             bytes |-> acc.bytes]
    BY <1>2, <1>7, ConsumeOther
  <2>2. NodesOK(acc.nodes, k + 1, file)
    BY <1>2, <1>7, NodesPassed
  <2>3. file[k + 1] \notin {"module", "endmodule"}
    BY <1>7 DEF ItemKinds
  <2>4. acc.cursor \in 0 .. k + 1
    BY <1>2
  <2> QED
    BY <1>2, <2>1, <2>2, <2>3, <2>4, SameModule
<1> QED
  BY <1>5, <1>6, <1>7, ModuleStarts, ModuleEnds DEF ItemKinds

\* Before the first chunk.
LEMMA ParseInvInit == ASSUME NEW file PROVE ParseInv(Layout!Start, 0, file)
<1>1. << >> \in Seq({}) /\ Len(<< >>) = 0 /\ 1 .. 0 = {}
  OBVIOUS
<1>2. NodesOK(<< >>, 0, file)
  BY <1>1 DEF NodesOK, IsList
<1>3. /\ Layout!Start.nodes = << >> /\ Layout!Start.module = 0 /\ Layout!Start.cursor = 0
      /\ Layout!Start.bytes = 0
      /\ Layout!Start = [nodes |-> Layout!Start.nodes, module |-> Layout!Start.module,
                         cursor |-> Layout!Start.cursor, bytes |-> Layout!Start.bytes]
  BY DEF Layout!Start
<1> QED
  BY <1>1, <1>2, <1>3 DEF ParseInv

\* After every chunk.
LEMMA ParseInvAll ==
    ASSUME NEW file \in SourceFiles, NEW g, ParseStates(g, file)
    PROVE  \A k \in 0 .. Len(file) : ParseInv(g[k], k, file)
<1>1. Len(file) \in Nat
  BY FilesAssumption
<1> DEFINE Bad == {k \in 0 .. Len(file) : ~ParseInv(g[k], k, file)}
<1> SUFFICES ASSUME Bad # {} PROVE FALSE
  OBVIOUS
<1>2. PICK k \in Bad : \A m \in Bad : k <= m
  <2>1. Bad \subseteq Nat
    BY <1>1
  <2> HIDE DEF Bad
  <2> QED
    BY <2>1, LeastNumber
<1>3. k # 0
  BY <1>2, ParseInvInit DEF ParseStates
<1>4. /\ k - 1 \in Nat /\ k - 1 < Len(file) /\ k - 1 \in 0 .. Len(file) /\ ~(k <= k - 1)
      /\ k \in 1 .. Len(file) /\ k - 1 + 1 = k
  BY <1>1, <1>2, <1>3
<1>5. ParseInv(g[k - 1], k - 1, file)
  BY <1>2, <1>4
<1>6. ParseInv(Layout!Consume(file, g[k - 1], k - 1 + 1), k - 1 + 1, file)
  BY <1>4, <1>5, ParseStep
<1>7. g[k] = Layout!Consume(file, g[k - 1], k)
  BY <1>4 DEF ParseStates
<1> QED
  BY <1>2, <1>4, <1>6, <1>7

-----------------------------------------------------------------------------
(* What spans cover that never go back. *)

\* The length of a list is a number.
LEMMA ListLength ==
    ASSUME NEW list, IsList(list)
    PROVE  Len(list) \in Nat /\ DOMAIN list = 1 .. Len(list)
BY DEF IsList

\* The spans of a tree do not go back.
Ordered(tree) ==
    \A i, j \in 1 .. Len(tree) :
        i < j /\ tree[i].kind = "opaque" /\ tree[j].kind = "opaque" => tree[i].end <= tree[j].first

\* What the spans of some nodes cover, how far they reach, and what module they belong to.
Covered(made, byte) ==
    \E i \in 1 .. Len(made) :
        made[i].kind = "opaque" /\ made[i].first < byte /\ byte <= made[i].end
EndBy(made, limit) ==
    \A i \in 1 .. Len(made) : made[i].kind = "opaque" => made[i].end <= limit
Reaches(made, limit) ==
    \E i \in 1 .. Len(made) : made[i].kind = "opaque" /\ made[i].end = limit
Owned(made, head) ==
    \A i \in 1 .. Len(made) : made[i].kind = "opaque" =>
        made[i].module = head /\ \E j \in 1 .. i : made[j].kind = "module"

\* An item behind the nodes changes nothing of that.
LEMMA ItemBehind ==
    ASSUME NEW made, IsList(made), NEW node, node.kind # "opaque"
    PROVE  LET longer == Append(made, node)
           IN  /\ \A byte : Covered(longer, byte) <=> Covered(made, byte)
               /\ \A limit : EndBy(longer, limit) <=> EndBy(made, limit)
               /\ \A limit : Reaches(made, limit) => Reaches(longer, limit)
               /\ \A head : Owned(made, head) => Owned(longer, head)
               /\ Ordered(longer) => Ordered(made)
<1> DEFINE longer == Append(made, node)
<1>1. /\ Len(made) \in Nat /\ Len(longer) = Len(made) + 1 /\ longer[Len(made) + 1] = node
      /\ \A i \in 1 .. Len(made) : longer[i] = made[i]
  BY ListAppended
<1> HIDE DEF longer
<1>2. 1 .. Len(longer) = 1 .. Len(made) \cup {Len(made) + 1}
  BY <1>1
<1>3. \A i \in 1 .. Len(longer) : longer[i].kind = "opaque" =>
          i \in 1 .. Len(made) /\ longer[i] = made[i]
  BY <1>1, <1>2
<1>4. \A i \in 1 .. Len(made) : i \in 1 .. Len(longer) /\ longer[i] = made[i]
  BY <1>1, <1>2
<1>5. \A byte : Covered(longer, byte) <=> Covered(made, byte)
  BY <1>3, <1>4 DEF Covered
<1>6. \A limit : EndBy(longer, limit) <=> EndBy(made, limit)
  BY <1>3, <1>4 DEF EndBy
<1>7. \A limit : Reaches(made, limit) => Reaches(longer, limit)
  BY <1>4 DEF Reaches
<1>8. ASSUME NEW head, Owned(made, head)
      PROVE  Owned(longer, head)
  <2> SUFFICES ASSUME NEW i \in 1 .. Len(longer), longer[i].kind = "opaque"
               PROVE  longer[i].module = head /\ \E j \in 1 .. i : longer[j].kind = "module"
    BY DEF Owned
  <2>1. i \in 1 .. Len(made) /\ longer[i] = made[i]
    BY <1>3
  <2>2. PICK j \in 1 .. i : made[j].kind = "module"
    BY <1>8, <2>1 DEF Owned
  <2>3. j \in 1 .. Len(made)
    BY <1>1, <2>1
  <2> QED
    BY <1>4, <1>8, <2>1, <2>2, <2>3 DEF Owned
<1>9. Ordered(longer) => Ordered(made)
  BY <1>4 DEF Ordered
<1> QED
  BY <1>5, <1>6, <1>7, <1>8, <1>9 DEF longer

\* A span behind the nodes.
LEMMA SpanBehind ==
    ASSUME NEW made, IsList(made), NEW module, NEW first, NEW end
    PROVE  LET longer == Append(made, Layout!Opaque(module, first, end))
           IN  /\ IsList(longer)
               /\ \A byte : Covered(longer, byte)
                               <=> Covered(made, byte) \/ (first < byte /\ byte <= end)
               /\ \A limit : EndBy(longer, limit) <=> EndBy(made, limit) /\ end <= limit
               /\ Reaches(longer, end)
               /\ (\E j \in 1 .. Len(made) : made[j].kind = "module") /\ Owned(made, module)
                     => Owned(longer, module)
               /\ Ordered(longer) => Ordered(made) /\ EndBy(made, first)
<1> DEFINE node == Layout!Opaque(module, first, end)
           longer == Append(made, node)
<1>0. node.kind = "opaque" /\ node.module = module /\ node.first = first /\ node.end = end
  BY DEF Layout!Opaque
<1> HIDE DEF node
<1>1. /\ IsList(longer)
      /\ Len(made) \in Nat /\ Len(longer) = Len(made) + 1 /\ longer[Len(made) + 1] = node
      /\ \A i \in 1 .. Len(made) : longer[i] = made[i]
  BY ListAppended
<1> HIDE DEF longer
<1>2. 1 .. Len(longer) = 1 .. Len(made) \cup {Len(made) + 1}
  BY <1>1
<1>3. /\ \A i \in 1 .. Len(made) : i \in 1 .. Len(longer) /\ longer[i] = made[i]
      /\ Len(made) + 1 \in 1 .. Len(longer)
      /\ \A i \in 1 .. Len(longer) : i \in 1 .. Len(made) \/ i = Len(made) + 1
  BY <1>1, <1>2
<1>4. \A byte : Covered(longer, byte) <=> Covered(made, byte) \/ (first < byte /\ byte <= end)
  BY <1>0, <1>1, <1>3 DEF Covered
<1>5. \A limit : EndBy(longer, limit) <=> EndBy(made, limit) /\ end <= limit
  BY <1>0, <1>1, <1>3 DEF EndBy
<1>6. Reaches(longer, end)
  BY <1>0, <1>1, <1>3 DEF Reaches
<1>7. ASSUME NEW head \in 1 .. Len(made), made[head].kind = "module", Owned(made, module)
      PROVE  Owned(longer, module)
  <2> SUFFICES ASSUME NEW i \in 1 .. Len(longer), longer[i].kind = "opaque"
               PROVE  longer[i].module = module /\ \E j \in 1 .. i : longer[j].kind = "module"
    BY DEF Owned
  <2>1. CASE i \in 1 .. Len(made)
    <3>1. PICK j \in 1 .. i : made[j].kind = "module"
      BY <1>3, <1>7, <2>1 DEF Owned
    <3>2. j \in 1 .. Len(made)
      BY <1>1, <2>1
    <3> QED
      BY <1>3, <1>7, <2>1, <3>1, <3>2 DEF Owned
  <2>2. CASE i = Len(made) + 1
    <3>1. head \in 1 .. i
      BY <1>1, <2>2
    <3> QED
      BY <1>0, <1>1, <1>3, <1>7, <2>2, <3>1
  <2> QED
    BY <1>3, <2>1, <2>2
<1>8. ASSUME Ordered(longer)
      PROVE  Ordered(made) /\ EndBy(made, first)
  <2>1. Ordered(made)
    BY <1>3, <1>8 DEF Ordered
  <2>2. ASSUME NEW i \in 1 .. Len(made), made[i].kind = "opaque"
        PROVE  made[i].end <= first
    <3>1. i < Len(made) + 1
      BY <1>1
    <3> QED
      BY <1>0, <1>1, <1>3, <1>8, <2>2, <3>1 DEF Ordered
  <2> QED
    BY <2>1, <2>2 DEF EndBy
<1> QED
  BY <1>1, <1>4, <1>5, <1>6, <1>7, <1>8 DEF longer, node

\* A file of one module.
OneHead(file, head) ==
    /\ Len(file) \in Nat /\ head \in 1 .. Len(file) /\ file[head] = "module"
    /\ \A i \in 1 .. Len(file) : file[i] = "module" => i = head

\* What the spans of the file are to be.
Full(made, file, head) ==
    /\ \A byte \in 1 .. Len(file) : Covered(made, byte) <=> file[byte] \notin Layout!Declarations
    /\ Owned(made, head) /\ Reaches(made, Len(file))

\* What they are up to the byte cursor, before the end of the module: as they are to be, or
\* one of them has passed the byte cursor and will meet the next span of bytes.
Half(acc, k, file, head) ==
    /\ EndBy(acc.nodes, k)
    /\ k < head => acc.bytes = 0
    /\ \A i \in acc.bytes + 1 .. k : file[i] \notin Layout!Declarations
    /\ Ordered(acc.nodes) /\ EndBy(acc.nodes, acc.bytes) =>
          /\ Owned(acc.nodes, head)
          /\ \A byte \in 1 .. acc.bytes :
                Covered(acc.nodes, byte) <=> file[byte] \notin Layout!Declarations

CoverInv(acc, k, file, head) ==
    IF k < head \/ acc.module # 0 THEN Half(acc, k, file, head)
    ELSE Ordered(acc.nodes) => Full(acc.nodes, file, head)

\* What the spans of some nodes are is not changed by an item that is behind them.
LEMMA HalfItem ==
    ASSUME NEW file, NEW head, NEW k, NEW made, IsList(made), NEW node, node.kind # "opaque",
           NEW module, NEW cursor, NEW bytes,
           Half([nodes |-> made, module |-> module, cursor |-> cursor, bytes |-> bytes],
                k, file, head)
    PROVE  Half([nodes |-> Append(made, node), module |-> module, cursor |-> cursor,
                 bytes |-> bytes], k, file, head)
<1> DEFINE longer == Append(made, node)
           before == [nodes |-> made, module |-> module, cursor |-> cursor, bytes |-> bytes]
           after == [nodes |-> longer, module |-> module, cursor |-> cursor, bytes |-> bytes]
<1>1. /\ \A byte : Covered(longer, byte) <=> Covered(made, byte)
      /\ \A limit : EndBy(longer, limit) <=> EndBy(made, limit)
      /\ Owned(made, head) => Owned(longer, head)
      /\ Ordered(longer) => Ordered(made)
  BY ItemBehind
<1> HIDE DEF longer
<1>2. before.nodes = made /\ before.bytes = bytes /\ after.nodes = longer /\ after.bytes = bytes
  OBVIOUS
<1>3. Half(before, k, file, head)
  OBVIOUS
<1> HIDE DEF before, after
<1>4. Half(after, k, file, head)
  BY <1>1, <1>2, <1>3 DEF Half
<1> QED
  BY <1>4 DEF after, longer

\* Nor what they are to be.
LEMMA FullItem ==
    ASSUME NEW file, NEW head, NEW made, IsList(made), NEW node, node.kind # "opaque",
           Full(made, file, head)
    PROVE  Full(Append(made, node), file, head)
<1> DEFINE longer == Append(made, node)
<1>1. /\ \A byte : Covered(longer, byte) <=> Covered(made, byte)
      /\ \A limit : Reaches(made, limit) => Reaches(longer, limit)
      /\ Owned(made, head) => Owned(longer, head)
  BY ItemBehind
<1> HIDE DEF longer
<1>2. Full(longer, file, head)
  BY <1>1 DEF Full
<1> QED
  BY <1>2 DEF longer

\* A span of tokens behind the nodes: it passes the byte cursor.
LEMMA HalfTokens ==
    ASSUME NEW file, NEW head, NEW k \in Nat, NEW acc, Half(acc, k, file, head),
           IsList(acc.nodes), acc.bytes \in Nat, acc.cursor \in Nat, acc.bytes <= acc.cursor,
           NEW s, Spanned(s, acc.nodes, acc.module, acc.cursor, k), NEW module, NEW cursor
    PROVE  /\ IsList(s)
           /\ Half([nodes |-> s, module |-> module, cursor |-> cursor, bytes |-> acc.bytes],
                   k, file, head)
<1> DEFINE after == [nodes |-> s, module |-> module, cursor |-> cursor, bytes |-> acc.bytes]
<1>1. after.nodes = s /\ after.bytes = acc.bytes
  OBVIOUS
<1> HIDE DEF after
<1>2. CASE s = acc.nodes
  BY <1>1, <1>2 DEF Half, after
<1>3. CASE s # acc.nodes
  <2>1. PICK first \in Nat, end \in Nat :
            /\ acc.cursor <= first /\ first < end /\ end <= k
            /\ s = Append(acc.nodes, Layout!Opaque(acc.module, first, end))
    BY <1>3 DEF Spanned
  <2>2. /\ IsList(s)
        /\ \A limit : EndBy(s, limit) <=> EndBy(acc.nodes, limit) /\ end <= limit
    BY <2>1, SpanBehind
  <2>3. ~EndBy(s, acc.bytes) /\ EndBy(s, k)
    BY <2>1, <2>2 DEF Half
  <2>4. Half(after, k, file, head)
    BY <1>1, <2>3 DEF Half
  <2> QED
    BY <2>2, <2>4 DEF after
<1> QED
  BY <1>2, <1>3

\* After the end of the module it would go back.
LEMMA FullTokens ==
    ASSUME NEW file, NEW head, Len(file) \in Nat, NEW k \in Nat, k <= Len(file), NEW made,
           IsList(made), Ordered(made) => Full(made, file, head),
           NEW s, NEW module, NEW low \in Nat, Spanned(s, made, module, low, k)
    PROVE  /\ IsList(s)
           /\ Ordered(s) => Full(s, file, head)
<1>1. CASE s = made
  BY <1>1
<1>2. CASE s # made
  <2>1. PICK first \in Nat, end \in Nat :
            /\ low <= first /\ first < end /\ end <= k
            /\ s = Append(made, Layout!Opaque(module, first, end))
    BY <1>2 DEF Spanned
  <2>2. IsList(s) /\ (Ordered(s) => Ordered(made) /\ EndBy(made, first))
    BY <2>1, SpanBehind
  <2>3. ASSUME Ordered(s)
        PROVE  FALSE
    <3>1. Reaches(made, Len(file)) /\ EndBy(made, first)
      BY <2>2, <2>3 DEF Full
    <3>2. Len(file) <= first
      BY <3>1 DEF Reaches, EndBy
    <3> QED
      BY <2>1, <3>2
  <2> QED
    BY <2>2, <2>3
<1> QED
  BY <1>1, <1>2

\* One chunk more, that is no declaration.
LEMMA HalfMore ==
    ASSUME NEW file, NEW head \in Nat, NEW k \in Nat, NEW acc, Half(acc, k, file, head),
           NEW m, NodesOK(acc.nodes, m, file), acc.bytes \in Nat,
           file[k + 1] \notin Layout!Declarations
    PROVE  Half(acc, k + 1, file, head)
<1>1. EndBy(acc.nodes, k + 1)
  <2> SUFFICES ASSUME NEW i \in 1 .. Len(acc.nodes), acc.nodes[i].kind = "opaque"
               PROVE  acc.nodes[i].end <= k + 1
    BY DEF EndBy
  <2>1. acc.nodes[i].end \in Nat
    BY DEF NodesOK
  <2>2. acc.nodes[i].end <= k
    BY DEF Half, EndBy
  <2> QED
    BY <2>1, <2>2
<1>2. k + 1 < head => k < head
  OBVIOUS
<1>3. \A i \in acc.bytes + 1 .. k + 1 : i \in acc.bytes + 1 .. k \/ i = k + 1
  OBVIOUS
<1> QED
  BY <1>1, <1>2, <1>3 DEF Half

\* What the parser knows of a file of one module.
LEMMA OneHeadKnown ==
    ASSUME NEW file \in SourceFiles, NEW head, OneHead(file, head),
           NEW k \in Nat, k < Len(file), NEW acc, ParseInv(acc, k, file)
    PROVE  /\ head \in Nat /\ Len(file) \in Nat /\ k + 1 \in Nat
           /\ NodesOK(acc.nodes, k, file) /\ IsList(acc.nodes)
           /\ acc.cursor \in Nat /\ acc.bytes \in Nat /\ acc.bytes <= acc.cursor /\ acc.cursor <= k
           /\ acc = [nodes |-> acc.nodes, module |-> acc.module, cursor |-> acc.cursor,
                     bytes |-> acc.bytes]
           /\ acc.module = 0 \/ (acc.module = head /\ head <= k)
           /\ file[k + 1] = "module" => k + 1 = head
           /\ file[k + 1] \in Layout!Declarations \cup {"endmodule"} => acc.module = head
           /\ head <= k => \E j \in 1 .. Len(acc.nodes) : acc.nodes[j].kind = "module"
<1>1. /\ NodesOK(acc.nodes, k, file) /\ acc.cursor \in 0 .. k /\ acc.bytes \in 0 .. acc.cursor
      /\ acc = [nodes |-> acc.nodes, module |-> acc.module, cursor |-> acc.cursor,
                bytes |-> acc.bytes]
      /\ acc.module = 0 \/ (acc.module \in 1 .. k /\ file[acc.module] = "module")
  <2>1. \/ acc.module = 0
        \/ /\ acc.module \in 1 .. k /\ file[acc.module] = "module"
           /\ \A i \in acc.module + 1 .. k : file[i] \notin {"module", "endmodule"}
    BY DEF ParseInv
  <2>2. acc.module = 0 \/ (acc.module \in 1 .. k /\ file[acc.module] = "module")
    BY <2>1
  <2> QED
    BY <2>2 DEF ParseInv
<1>2. /\ head \in 1 .. Len(file) /\ Len(file) \in Nat /\ file[head] = "module"
      /\ \A i \in 1 .. Len(file) : file[i] = "module" => i = head
  BY DEF OneHead
<1>3. acc.module = 0 \/ (acc.module = head /\ head <= k)
  BY <1>1, <1>2
<1>4. file[k + 1] = "module" => k + 1 = head
  BY <1>2
<1>5. file[k + 1] \in Layout!Declarations \cup {"endmodule"} => acc.module = head
  BY <1>2, <1>3, HeadsAndEnds
<1>6. ASSUME head <= k
      PROVE  \E j \in 1 .. Len(acc.nodes) : acc.nodes[j].kind = "module"
  <2>1. head \in 1 .. k /\ file[head] \in ItemKinds
    BY <1>2, <1>6 DEF ItemKinds
  <2> QED
    BY <1>1, <1>2, <2>1 DEF NodesOK
<1>7. IsList(acc.nodes)
  BY <1>1 DEF NodesOK
<1>8. acc.cursor \in Nat /\ acc.bytes \in Nat /\ acc.bytes <= acc.cursor /\ acc.cursor <= k
  BY <1>1
<1> QED
  BY <1>1, <1>2, <1>3, <1>4, <1>5, <1>6, <1>7, <1>8

\* A typedef, a parameter, an instance or a process keeps what is true of the spans.
LEMMA CoverTracked ==
    ASSUME NEW file \in SourceFiles, NEW head, OneHead(file, head),
           NEW k \in Nat, k < Len(file), NEW acc, ParseInv(acc, k, file),
           CoverInv(acc, k, file, head), file[k + 1] \in Layout!Tracked
    PROVE  CoverInv(Layout!Consume(file, acc, k + 1), k + 1, file, head)
<1> DEFINE chunk == k + 1
<1>1. /\ head \in Nat /\ Len(file) \in Nat /\ chunk \in Nat
      /\ NodesOK(acc.nodes, k, file) /\ IsList(acc.nodes)
      /\ acc.cursor \in Nat /\ acc.bytes \in Nat /\ acc.bytes <= acc.cursor /\ acc.cursor <= k
      /\ acc = [nodes |-> acc.nodes, module |-> acc.module, cursor |-> acc.cursor,
                bytes |-> acc.bytes]
  BY OneHeadKnown
<1>2. /\ chunk - 1 = k /\ file[chunk] \in Layout!Tracked /\ file[chunk] \notin Layout!Declarations
      /\ file[chunk] # "module" /\ file[chunk] # "opaque" /\ chunk # head
  BY <1>1 DEF Layout!Tracked, Layout!Declarations, OneHead
<1> HIDE DEF chunk
<1>3. PICK s : /\ Spanned(s, acc.nodes, acc.module, acc.cursor, chunk - 1)
               /\ Layout!Consume(file, acc, chunk) =
                     [nodes |-> Append(s, Layout!Item(file[chunk], acc.module, chunk)),
                      module |-> acc.module, cursor |-> chunk, bytes |-> acc.bytes]
  BY <1>1, <1>2, ConsumeTracked
<1>4. Spanned(s, acc.nodes, acc.module, acc.cursor, k)
  BY <1>2, <1>3
<1> DEFINE node == Layout!Item(file[chunk], acc.module, chunk)
           after == Layout!Consume(file, acc, chunk)
<1>5. node.kind # "opaque"
  BY <1>2 DEF Layout!Item
<1> HIDE DEF node
<1>6. /\ after = [nodes |-> Append(s, node), module |-> acc.module, cursor |-> chunk,
                  bytes |-> acc.bytes]
      /\ after.module = acc.module /\ after.nodes = Append(s, node) /\ after.bytes = acc.bytes
  BY <1>3 DEF node
<1> HIDE DEF after
<1>7. CASE k < head \/ acc.module # 0
  <2>1. Half(acc, k, file, head)
    BY <1>7 DEF CoverInv
  <2>2. /\ IsList(s)
        /\ Half([nodes |-> s, module |-> acc.module, cursor |-> chunk, bytes |-> acc.bytes],
                k, file, head)
    BY <1>1, <1>4, <2>1, HalfTokens
  <2>3. Half(after, k, file, head)
    BY <1>5, <1>6, <2>2, HalfItem
  <2>4. NodesOK(after.nodes, k + 1, file)
    <3>1. ParseInv(after, k + 1, file)
      BY ParseStep DEF after, chunk
    <3> QED
      BY <3>1 DEF ParseInv
  <2>5. Half(after, k + 1, file, head)
    BY <1>1, <1>2, <1>6, <2>3, <2>4, HalfMore DEF chunk
  <2>6. k + 1 < head \/ acc.module # 0
    BY <1>1, <1>2, <1>7 DEF chunk
  <2>7. CoverInv(after, k + 1, file, head)
    BY <1>6, <2>5, <2>6 DEF CoverInv
  <2> QED
    BY <2>7 DEF after, chunk
<1>8. CASE ~(k < head \/ acc.module # 0)
  <2>1. Ordered(acc.nodes) => Full(acc.nodes, file, head)
    BY <1>8 DEF CoverInv
  <2>2. IsList(s) /\ (Ordered(s) => Full(s, file, head))
    <3>1. k <= Len(file)
      BY <1>1
    <3> QED
      BY <1>1, <1>4, <2>1, <3>1, FullTokens
  <2>3. Ordered(after.nodes) => Ordered(s)
    BY <1>5, <1>6, <2>2, ItemBehind
  <2>4. Full(s, file, head) => Full(after.nodes, file, head)
    BY <1>5, <1>6, <2>2, FullItem
  <2>5. ~(k + 1 < head \/ after.module # 0)
    BY <1>1, <1>6, <1>8
  <2>6. CoverInv(after, k + 1, file, head)
    BY <2>2, <2>3, <2>4, <2>5 DEF CoverInv
  <2> QED
    BY <2>6 DEF after, chunk
<1> QED
  BY <1>7, <1>8

\* The head of the module.
LEMMA CoverModule ==
    ASSUME NEW file \in SourceFiles, NEW head, OneHead(file, head),
           NEW k \in Nat, k < Len(file), NEW acc, ParseInv(acc, k, file),
           CoverInv(acc, k, file, head), file[k + 1] = "module"
    PROVE  CoverInv(Layout!Consume(file, acc, k + 1), k + 1, file, head)
<1> DEFINE chunk == k + 1
<1>1. /\ head \in Nat /\ Len(file) \in Nat /\ chunk \in Nat
      /\ NodesOK(acc.nodes, k, file) /\ IsList(acc.nodes)
      /\ acc.cursor \in Nat /\ acc.bytes \in Nat /\ acc.bytes <= acc.cursor /\ acc.cursor <= k
      /\ chunk = head
  BY OneHeadKnown
<1>2. chunk - 1 = k /\ file[chunk] = "module" /\ file[chunk] \notin Layout!Declarations
  BY <1>1 DEF Layout!Declarations
<1> HIDE DEF chunk
<1>3. PICK s : /\ Spanned(s, acc.nodes, acc.module, acc.cursor, chunk - 1)
               /\ Layout!Consume(file, acc, chunk) =
                     [nodes |-> Append(s, Layout!Item(file[chunk], acc.module, chunk)),
                      module |-> chunk, cursor |-> chunk - 1, bytes |-> 0]
  BY <1>1, <1>2, ConsumeModule
<1>4. Spanned(s, acc.nodes, acc.module, acc.cursor, k)
  BY <1>2, <1>3
<1> DEFINE node == Layout!Item(file[chunk], acc.module, chunk)
           after == Layout!Consume(file, acc, chunk)
<1>5. node.kind # "opaque"
  BY <1>2 DEF Layout!Item
<1> HIDE DEF node
<1>6. k < head
  BY <1>1 DEF chunk
<1>7. Half(acc, k, file, head) /\ acc.bytes = 0
  BY <1>6 DEF CoverInv, Half
<1>8. /\ after = [nodes |-> Append(s, node), module |-> chunk, cursor |-> chunk - 1,
                  bytes |-> acc.bytes]
      /\ after.module = chunk /\ after.nodes = Append(s, node) /\ after.bytes = 0
  BY <1>3, <1>7 DEF node
<1> HIDE DEF after
<1>9. /\ IsList(s)
      /\ Half([nodes |-> s, module |-> chunk, cursor |-> chunk - 1, bytes |-> acc.bytes],
              k, file, head)
  BY <1>1, <1>4, <1>7, HalfTokens
<1>10. Half(after, k, file, head)
  BY <1>5, <1>8, <1>9, HalfItem
<1>11. NodesOK(after.nodes, k + 1, file)
  <2>1. ParseInv(after, k + 1, file)
    BY ParseStep DEF after, chunk
  <2> QED
    BY <2>1 DEF ParseInv
<1>12. Half(after, k + 1, file, head)
  BY <1>1, <1>2, <1>8, <1>10, <1>11, HalfMore DEF chunk
<1>13. CoverInv(after, k + 1, file, head)
  <2>1. after.module # 0
    BY <1>1, <1>8 DEF chunk
  <2> QED
    BY <1>12, <2>1 DEF CoverInv
<1> QED
  BY <1>13 DEF after, chunk

\* A declaration: the span of bytes before it meets what has passed the byte cursor.
LEMMA CoverDeclaration ==
    ASSUME NEW file \in SourceFiles, NEW head, OneHead(file, head),
           NEW k \in Nat, k < Len(file), NEW acc, ParseInv(acc, k, file),
           CoverInv(acc, k, file, head), file[k + 1] \in Layout!Declarations
    PROVE  CoverInv(Layout!Consume(file, acc, k + 1), k + 1, file, head)
<1> DEFINE chunk == k + 1
           s == Bytes(acc.nodes, head, acc.bytes, k)
           after == Layout!Consume(file, acc, chunk)
           node == Layout!Item(file[chunk], head, chunk)
<1>1. /\ head \in Nat /\ Len(file) \in Nat /\ chunk \in Nat
      /\ NodesOK(acc.nodes, k, file) /\ IsList(acc.nodes)
      /\ acc.cursor \in Nat /\ acc.bytes \in Nat /\ acc.bytes <= acc.cursor /\ acc.cursor <= k
      /\ acc = [nodes |-> acc.nodes, module |-> acc.module, cursor |-> acc.cursor,
                bytes |-> acc.bytes]
      /\ acc.module = head
  BY OneHeadKnown
<1>2. head # 0 /\ head <= k
  <2>1. head # 0
    BY DEF OneHead
  <2>2. acc.module = 0 \/ (acc.module = head /\ head <= k)
    BY OneHeadKnown
  <2> QED
    BY <1>1, <2>1, <2>2
<1>3. \E j \in 1 .. Len(acc.nodes) : acc.nodes[j].kind = "module"
  BY <1>2, OneHeadKnown
<1>4. chunk - 1 = k /\ file[chunk] \in Layout!Declarations /\ file[chunk] # "opaque"
  BY <1>1 DEF Layout!Declarations
<1>5. Half(acc, k, file, head)
  BY <1>1, <1>2 DEF CoverInv
<1>6. EndBy(acc.nodes, k) /\ \A i \in acc.bytes + 1 .. k : file[i] \notin Layout!Declarations
  BY <1>5 DEF Half
<1>7. /\ IsList(s) /\ EndBy(s, k)
      /\ Ordered(s) => /\ Owned(s, head)
                       /\ \A byte \in 1 .. k :
                             Covered(s, byte) <=> file[byte] \notin Layout!Declarations
  <2>1. CASE acc.bytes >= k
    <3>1. s = acc.nodes /\ acc.bytes = k
      BY <1>1, <2>1 DEF Bytes
    <3> QED
      BY <1>1, <1>5, <1>6, <3>1 DEF Half
  <2>2. CASE ~(acc.bytes >= k)
    <3>1. s = Append(acc.nodes, Layout!Opaque(head, acc.bytes, k))
      BY <2>2 DEF Bytes
    <3> HIDE DEF s
    <3>2. /\ IsList(s)
          /\ \A byte : Covered(s, byte)
                          <=> Covered(acc.nodes, byte) \/ (acc.bytes < byte /\ byte <= k)
          /\ \A limit : EndBy(s, limit) <=> EndBy(acc.nodes, limit) /\ k <= limit
          /\ Owned(acc.nodes, head) => Owned(s, head)
          /\ Ordered(s) => Ordered(acc.nodes) /\ EndBy(acc.nodes, acc.bytes)
      BY <1>1, <1>3, <3>1, SpanBehind
    <3>3. EndBy(s, k)
      BY <1>6, <3>2
    <3>4. ASSUME Ordered(s)
          PROVE  /\ Owned(s, head)
                 /\ \A byte \in 1 .. k :
                       Covered(s, byte) <=> file[byte] \notin Layout!Declarations
      <4>1. /\ Owned(acc.nodes, head) /\ EndBy(acc.nodes, acc.bytes)
            /\ \A byte \in 1 .. acc.bytes :
                  Covered(acc.nodes, byte) <=> file[byte] \notin Layout!Declarations
        BY <1>5, <3>2, <3>4 DEF Half
      <4>2. ASSUME NEW byte \in 1 .. k
            PROVE  Covered(s, byte) <=> file[byte] \notin Layout!Declarations
        <5>1. CASE byte <= acc.bytes
          <6>1. byte \in 1 .. acc.bytes /\ ~(acc.bytes < byte)
            BY <1>1, <5>1
          <6> QED
            BY <3>2, <4>1, <6>1
        <5>2. CASE ~(byte <= acc.bytes)
          <6>1. byte \in acc.bytes + 1 .. k /\ acc.bytes < byte /\ byte <= k
            BY <1>1, <5>2
          <6> QED
            BY <1>6, <3>2, <6>1
        <5> QED
          BY <5>1, <5>2
      <4> QED
        BY <3>2, <4>1, <4>2
    <3> QED
      BY <3>2, <3>3, <3>4
  <2> QED
    BY <2>1, <2>2
<1>8. after = [nodes |-> Append(s, node), module |-> head, cursor |-> chunk, bytes |-> chunk]
  <2> HIDE DEF chunk
  <2> QED
    BY <1>1, <1>4, ConsumeDeclaration
<1>9. node.kind # "opaque"
  BY <1>4 DEF Layout!Item
<1> HIDE DEF s, node
<1> DEFINE longer == Append(s, node)
<1>10. /\ \A byte : Covered(longer, byte) <=> Covered(s, byte)
       /\ \A limit : EndBy(longer, limit) <=> EndBy(s, limit)
       /\ Owned(s, head) => Owned(longer, head)
       /\ Ordered(longer) => Ordered(s)
  BY <1>7, <1>9, ItemBehind
<1>11. after.nodes = longer /\ after.module = head /\ after.bytes = k + 1
  BY <1>8
<1> HIDE DEF longer, after
<1>12. NodesOK(longer, k + 1, file)
  <2>1. ParseInv(after, k + 1, file)
    BY ParseStep DEF after
  <2> QED
    BY <1>11, <2>1 DEF ParseInv
<1>13. EndBy(longer, k + 1)
  <2> SUFFICES ASSUME NEW i \in 1 .. Len(longer), longer[i].kind = "opaque"
               PROVE  longer[i].end <= k + 1
    BY DEF EndBy
  <2>1. longer[i].end \in Nat
    BY <1>12 DEF NodesOK
  <2>2. EndBy(longer, k)
    BY <1>7, <1>10
  <2>3. longer[i].end <= k
    BY <2>2 DEF EndBy
  <2> QED
    BY <2>1, <2>3
<1>14. ~Covered(longer, k + 1)
  <2> SUFFICES ASSUME Covered(longer, k + 1)
               PROVE  FALSE
    OBVIOUS
  <2>1. PICK i \in 1 .. Len(longer) : longer[i].kind = "opaque" /\ k + 1 <= longer[i].end
    BY DEF Covered
  <2>2. EndBy(longer, k)
    BY <1>7, <1>10
  <2>3. longer[i].end <= k /\ longer[i].end \in Nat
    BY <1>12, <2>1, <2>2 DEF EndBy, NodesOK
  <2> QED
    BY <2>1, <2>3
<1>15. \A byte \in 1 .. k + 1 : byte \in 1 .. k \/ byte = k + 1
  OBVIOUS
<1>16. ASSUME Ordered(longer)
       PROVE  /\ Owned(longer, head)
              /\ \A byte \in 1 .. k + 1 :
                    Covered(longer, byte) <=> file[byte] \notin Layout!Declarations
  BY <1>4, <1>7, <1>10, <1>14, <1>15, <1>16
<1>17. /\ k + 1 + 1 .. k + 1 = {} /\ ~(k + 1 < head)
  BY <1>1, <1>2
<1>18. Half(after, k + 1, file, head)
  BY <1>11, <1>13, <1>16, <1>17 DEF Half
<1>19. CoverInv(after, k + 1, file, head)
  BY <1>2, <1>11, <1>18 DEF CoverInv
<1> QED
  BY <1>19 DEF after

\* The end of the module: the span of the bytes up to the end of the file is the last.
LEMMA CoverEnd ==
    ASSUME NEW file \in SourceFiles, NEW head, OneHead(file, head),
           NEW k \in Nat, k < Len(file), NEW acc, ParseInv(acc, k, file),
           CoverInv(acc, k, file, head), file[k + 1] = "endmodule"
    PROVE  CoverInv(Layout!Consume(file, acc, k + 1), k + 1, file, head)
<1> DEFINE chunk == k + 1
           after == Layout!Consume(file, acc, chunk)
           longer == Append(acc.nodes, Layout!Opaque(head, acc.bytes, Len(file)))
<1>1. /\ head \in Nat /\ Len(file) \in Nat /\ chunk \in Nat
      /\ NodesOK(acc.nodes, k, file) /\ IsList(acc.nodes)
      /\ acc.cursor \in Nat /\ acc.bytes \in Nat /\ acc.bytes <= acc.cursor /\ acc.cursor <= k
      /\ acc = [nodes |-> acc.nodes, module |-> acc.module, cursor |-> acc.cursor,
                bytes |-> acc.bytes]
      /\ acc.module = head
  BY OneHeadKnown
<1>2. head # 0 /\ head <= k
  <2>1. head # 0
    BY DEF OneHead
  <2>2. acc.module = 0 \/ (acc.module = head /\ head <= k)
    BY OneHeadKnown
  <2> QED
    BY <1>1, <2>1, <2>2
<1>3. \E j \in 1 .. Len(acc.nodes) : acc.nodes[j].kind = "module"
  BY <1>2, OneHeadKnown
<1>5. Half(acc, k, file, head)
  BY <1>1, <1>2 DEF CoverInv
<1>6. \A i \in acc.bytes + 1 .. k : file[i] \notin Layout!Declarations
  BY <1>5 DEF Half
<1>7. \A i \in acc.bytes + 1 .. Len(file) : file[i] \notin Layout!Declarations
  <2> SUFFICES ASSUME NEW i \in acc.bytes + 1 .. Len(file), file[i] \in Layout!Declarations
               PROVE  FALSE
    OBVIOUS
  <2>1. i \in k + 1 .. Len(file) /\ i # k + 1
    <3>1. i \notin acc.bytes + 1 .. k
      BY <1>6
    <3>2. i # k + 1
      BY DEF Layout!Declarations
    <3> QED
      BY <1>1, <3>1, <3>2
  <2>2. /\ file \in Seq(Chunk)
        /\ \A c \in DOMAIN file : file[c] \in {"port", "signal", "endmodule"} =>
              \E h \in 1 .. c - 1 : InModule(file, h, c)
    BY FilesAssumption
  <2>3. DOMAIN file = 1 .. Len(file) /\ i \in DOMAIN file
    BY <1>1, <2>1, <2>2
  <2>4. PICK h \in 1 .. i - 1 : InModule(file, h, i)
    BY <2>2, <2>3 DEF Layout!Declarations
  <2>5. h = head
    BY <1>1, <2>1, <2>4 DEF InModule, OneHead
  <2>6. k + 1 \in h + 1 .. i - 1
    BY <1>1, <1>2, <2>1, <2>5
  <2> QED
    BY <2>4, <2>6 DEF InModule
<1>8. after = [nodes |-> longer, module |-> 0, cursor |-> chunk, bytes |-> acc.bytes]
  <2>1. Bytes(acc.nodes, head, acc.bytes, Len(file)) = longer
    BY <1>1 DEF Bytes
  <2> HIDE DEF chunk, longer
  <2>2. file[chunk] = "endmodule"
    BY DEF chunk
  <2> QED
    BY <1>1, <2>1, <2>2, ConsumeEnd
<1>9. /\ \A byte : Covered(longer, byte)
                      <=> Covered(acc.nodes, byte) \/ (acc.bytes < byte /\ byte <= Len(file))
      /\ Reaches(longer, Len(file))
      /\ Owned(acc.nodes, head) => Owned(longer, head)
      /\ Ordered(longer) => Ordered(acc.nodes) /\ EndBy(acc.nodes, acc.bytes)
  BY <1>1, <1>3, SpanBehind
<1>10. after.nodes = longer /\ after.module = 0
  BY <1>8
<1> HIDE DEF longer, after
<1>11. ASSUME Ordered(longer)
       PROVE  Full(longer, file, head)
  <2>1. /\ Owned(acc.nodes, head) /\ EndBy(acc.nodes, acc.bytes)
        /\ \A byte \in 1 .. acc.bytes :
              Covered(acc.nodes, byte) <=> file[byte] \notin Layout!Declarations
    BY <1>5, <1>9, <1>11 DEF Half
  <2>2. ASSUME NEW byte \in 1 .. Len(file)
        PROVE  Covered(longer, byte) <=> file[byte] \notin Layout!Declarations
    <3>1. CASE byte <= acc.bytes
      <4>1. byte \in 1 .. acc.bytes /\ ~(acc.bytes < byte)
        BY <1>1, <3>1
      <4> QED
        BY <1>9, <2>1, <4>1
    <3>2. CASE ~(byte <= acc.bytes)
      <4>1. byte \in acc.bytes + 1 .. Len(file) /\ acc.bytes < byte /\ byte <= Len(file)
        BY <1>1, <3>2
      <4> QED
        BY <1>7, <1>9, <4>1
    <3> QED
      BY <3>1, <3>2
  <2> QED
    BY <1>9, <2>1, <2>2 DEF Full
<1>12. ~(k + 1 < head \/ after.module # 0)
  BY <1>1, <1>2, <1>10
<1>13. CoverInv(after, k + 1, file, head)
  BY <1>10, <1>11, <1>12 DEF CoverInv
<1> QED
  BY <1>13 DEF after

\* Any other chunk.
LEMMA CoverOther ==
    ASSUME NEW file \in SourceFiles, NEW head, OneHead(file, head),
           NEW k \in Nat, k < Len(file), NEW acc, ParseInv(acc, k, file),
           CoverInv(acc, k, file, head), file[k + 1] \notin ItemKinds \cup {"endmodule"}
    PROVE  CoverInv(Layout!Consume(file, acc, k + 1), k + 1, file, head)
<1>1. /\ head \in Nat /\ Len(file) \in Nat /\ NodesOK(acc.nodes, k, file) /\ acc.bytes \in Nat
      /\ k + 1 # head /\ file[k + 1] \notin Layout!Declarations
  <2>1. k + 1 # head /\ file[k + 1] \notin Layout!Declarations
    BY DEF OneHead, ItemKinds
  <2> QED
    BY <2>1, OneHeadKnown
<1>2. Layout!Consume(file, acc, k + 1) = acc
  BY ConsumeOther
<1>3. k + 1 < head <=> k < head
  BY <1>1
<1>4. Half(acc, k, file, head) => Half(acc, k + 1, file, head)
  BY <1>1, HalfMore
<1>5. CoverInv(acc, k + 1, file, head)
  BY <1>3, <1>4 DEF CoverInv
<1> QED
  BY <1>2, <1>5

\* After every chunk.
LEMMA CoverAll ==
    ASSUME NEW file \in SourceFiles, NEW head, OneHead(file, head), NEW g, ParseStates(g, file)
    PROVE  \A k \in 0 .. Len(file) : CoverInv(g[k], k, file, head)
<1>1. Len(file) \in Nat /\ head \in Nat /\ head # 0
  BY DEF OneHead
<1>2. \A k \in 0 .. Len(file) : ParseInv(g[k], k, file)
  BY ParseInvAll
<1>3. \A n \in 1 .. Len(file) : g[n] = Layout!Consume(file, g[n - 1], n)
  BY DEF ParseStates
<1>4. CoverInv(g[0], 0, file, head)
  <2>1. g[0].nodes = << >> /\ g[0].bytes = 0
    BY DEF ParseStates, Layout!Start
  <2>2. Len(g[0].nodes) = 0 /\ 0 < head
    BY <1>1, <2>1
  <2>3. 1 .. Len(g[0].nodes) = {} /\ 1 .. g[0].bytes = {} /\ g[0].bytes + 1 .. 0 = {}
    BY <2>1, <2>2
  <2>4. Half(g[0], 0, file, head)
    BY <2>1, <2>3 DEF Half, EndBy, Owned
  <2> QED
    BY <2>2, <2>4 DEF CoverInv
<1>5. ASSUME NEW n \in 0 .. Len(file), n < Len(file), CoverInv(g[n], n, file, head)
      PROVE  CoverInv(g[n + 1], n + 1, file, head)
  <2>1. n \in Nat /\ ParseInv(g[n], n, file)
    BY <1>2
  <2>2. g[n + 1] = Layout!Consume(file, g[n], n + 1)
    <3> DEFINE m == n + 1
    <3>1. m \in 1 .. Len(file) /\ m - 1 = n
      BY <1>1, <1>5
    <3> HIDE DEF m
    <3>2. g[m] = Layout!Consume(file, g[n], m)
      BY <1>3, <3>1
    <3> QED
      BY <3>2 DEF m
  <2>3. CASE file[n + 1] = "module"
    BY <1>5, <2>1, <2>2, <2>3, CoverModule
  <2>4. CASE file[n + 1] \in Layout!Declarations
    BY <1>5, <2>1, <2>2, <2>4, CoverDeclaration
  <2>5. CASE file[n + 1] \in Layout!Tracked
    BY <1>5, <2>1, <2>2, <2>5, CoverTracked
  <2>6. CASE file[n + 1] = "endmodule"
    BY <1>5, <2>1, <2>2, <2>6, CoverEnd
  <2>7. CASE file[n + 1] \notin ItemKinds \cup {"endmodule"}
    BY <1>5, <2>1, <2>2, <2>7, CoverOther
  <2> QED
    BY <2>3, <2>4, <2>5, <2>6, <2>7 DEF ItemKinds
<1> SUFFICES ASSUME NEW k \in 0 .. Len(file), ~CoverInv(g[k], k, file, head)
             PROVE  FALSE
  OBVIOUS
<1> DEFINE bad == {m \in 0 .. Len(file) : ~CoverInv(g[m], m, file, head)}
<1>6. bad \subseteq Nat /\ k \in bad
  OBVIOUS
<1>7. PICK m \in bad : \A i \in bad : m <= i
  <2> HIDE DEF bad
  <2> QED
    BY <1>6, LeastNumber
<1>8. m \in 1 .. Len(file) /\ m - 1 \in 0 .. Len(file) /\ m - 1 \notin bad
  BY <1>1, <1>4, <1>7
<1>9. CoverInv(g[m - 1], m - 1, file, head)
  BY <1>8
<1> DEFINE n == m - 1
<1>10. n \in 0 .. Len(file) /\ n < Len(file) /\ n + 1 = m /\ CoverInv(g[n], n, file, head)
  BY <1>1, <1>8, <1>9
<1> HIDE DEF n
<1>11. CoverInv(g[m], m, file, head)
  BY <1>5, <1>10
<1> QED
  BY <1>7, <1>11

\* The tree of a file: what the tokens behind the last module add is no more than a span.
LEMMA TreeKnown ==
    ASSUME NEW file \in SourceFiles
    PROVE  LET tree == Layout!ParsedNodes(file)
           IN  /\ Len(file) \in Nat /\ DOMAIN file = 1 .. Len(file) /\ Len(tree) \in Nat
               /\ NodesOK(tree, Len(file), file)
               /\ \A head \in 1 .. Len(file) : file[head] = "module" => HasSpan(tree, head)
               /\ \A head : OneHead(file, head) /\ Ordered(tree) => Full(tree, file, head)
<1> DEFINE tree == Layout!ParsedNodes(file)
           acc == Layout!Parsed(file)
           n == Len(file)
           past == n + 1
           rest == Layout!TokenSpan(file, acc, past)
<1>1. /\ file \in Seq(Chunk)
      /\ \A head \in DOMAIN file : file[head] = "module" =>
            \E chunk \in head + 1 .. Len(file) :
                InModule(file, head, chunk) /\ file[chunk] = "endmodule"
  BY FilesAssumption
<1>2. n \in Nat /\ DOMAIN file = 1 .. n
  BY <1>1
<1>3. PICK g : ParseStates(g, file) /\ acc = g[n]
  BY <1>2, ParseSteps
<1>4. tree = acc.nodes \o rest
  BY DEF Layout!ParsedNodes
<1> HIDE DEF acc, tree
<1>5. ParseInv(acc, n, file)
  <2>1. n \in 0 .. n
    BY <1>2
  <2> QED
    BY <1>3, <2>1, ParseInvAll
<1>6. NodesOK(acc.nodes, n, file) /\ IsList(acc.nodes) /\ acc.cursor \in Nat
  BY <1>5 DEF ParseInv, NodesOK
<1>7. acc.module = 0
  <2> SUFFICES ASSUME acc.module # 0
               PROVE  FALSE
    OBVIOUS
  <2>1. /\ acc.module \in 1 .. n /\ file[acc.module] = "module"
        /\ \A i \in acc.module + 1 .. n : file[i] \notin {"module", "endmodule"}
    BY <1>5 DEF ParseInv
  <2> QED
    BY <1>1, <1>2, <2>1
<1>8. Spanned(tree, acc.nodes, 0, acc.cursor, n)
  <2>1. CASE rest = << >>
    BY <1>4, <1>6, <2>1, ListExtended DEF Spanned
  <2>2. CASE rest # << >>
    <3>1. past \in Nat /\ past = n + 1
      BY <1>2
    <3> HIDE DEF past
    <3>2. PICK first, end \in Nat :
              /\ acc.cursor <= first /\ first < end /\ end < past
              /\ rest = <<Layout!Opaque(acc.module, first, end)>>
      BY <1>6, <2>2, <3>1, TokensOfSpan
    <3>3. end <= n
      BY <1>2, <3>1, <3>2
    <3> DEFINE span == Layout!Opaque(0, first, end)
    <3>4. rest = <<span>>
      BY <1>7, <3>2
    <3> HIDE DEF rest, span
    <3>5. tree = Append(acc.nodes, span)
      BY <1>4, <1>6, <3>4, ListExtended
    <3> QED
      BY <3>2, <3>3, <3>5 DEF Spanned, span
  <2> QED
    BY <2>1, <2>2
<1> HIDE DEF rest
<1>9. NodesOK(tree, n, file) /\ \A head : HasSpan(acc.nodes, head) => HasSpan(tree, head)
  <2>1. CASE tree = acc.nodes
    BY <1>6, <2>1
  <2>2. CASE tree # acc.nodes
    <3>1. PICK first \in Nat, end \in Nat :
              /\ acc.cursor <= first /\ first < end /\ end <= n
              /\ tree = Append(acc.nodes, Layout!Opaque(0, first, end))
      BY <1>8, <2>2 DEF Spanned
    <3>2. NodesOK(Append(acc.nodes, Layout!Opaque(0, first, end)), n, file)
      BY <1>2, <1>6, <3>1, NodesSpanned
    <3> QED
      BY <1>6, <3>1, <3>2, HasSpanStays
  <2> QED
    BY <2>1, <2>2
<1>10. \A head \in 1 .. n : file[head] = "module" => HasSpan(tree, head)
  <2> SUFFICES ASSUME NEW head \in 1 .. n, file[head] = "module"
               PROVE  HasSpan(tree, head)
    OBVIOUS
  <2>1. head # acc.module
    BY <1>7
  <2> QED
    BY <1>5, <1>9, <2>1 DEF ParseInv
<1>11. ASSUME NEW head, OneHead(file, head), Ordered(tree)
       PROVE  Full(tree, file, head)
  <2>1. n \in 0 .. n /\ ~(n < head)
    BY <1>2, <1>11 DEF OneHead
  <2>2. CoverInv(acc, n, file, head)
    BY <1>3, <1>11, <2>1, CoverAll
  <2>3. Ordered(acc.nodes) => Full(acc.nodes, file, head)
    BY <1>7, <2>1, <2>2 DEF CoverInv
  <2>4. n <= n
    BY <1>2
  <2> QED
    BY <1>2, <1>6, <1>8, <1>11, <2>3, <2>4, FullTokens
<1>12. Len(tree) \in Nat
  BY <1>9, ListLength DEF NodesOK
<1> QED
  BY <1>2, <1>9, <1>10, <1>11, <1>12 DEF tree
=============================================================================
