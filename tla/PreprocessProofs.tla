--------------------------- MODULE PreprocessProofs ---------------------------
(***************************************************************************)
(* Theorems about the walk of the preprocessor, for every source text,     *)
(* every provider and whatever expansion yields.                           *)
(***************************************************************************)
EXTENDS Preprocess, FiniteSetTheorems, SequenceTheorems, NaturalsInduction,
        WellFoundedInduction, TLAPS

-----------------------------------------------------------------------------
(* Facts about numbers and lists. *)

\* A set of natural numbers that is not empty has a least member, and Min finds it.
LEMMA LeastMember ==
    ASSUME NEW S \in SUBSET Nat, S # {}
    PROVE  /\ Min(S) \in S
           /\ \A y \in S : Min(S) <= y
<1> DEFINE R == {ss \in Nat \X Nat : ss[1] < ss[2]}
<1>1. IsWellFoundedOn(R, Nat)
  BY NatLessThanWellFounded DEF OpToRel
<1> HIDE DEF R
<1>2. PICK x \in S : \A y \in S : ~(<<y, x>> \in R)
  BY <1>1, WFMin
<1>3. \A y \in S : <<y, x>> \in R <=> y < x
  BY DEF R
<1>4. \A y \in S : x <= y
  <2> TAKE y \in S
  <2>1. x \in Nat /\ y \in Nat /\ ~(y < x)
    BY <1>2, <1>3
  <2> QED
    BY <2>1
<1> QED
  BY <1>4 DEF Min

\* A bounded one that is not empty has a greatest member, and Max finds it.
LEMMA GreatestMember ==
    ASSUME NEW S \in SUBSET Nat, S # {}, NEW n \in Nat, \A y \in S : y <= n
    PROVE  /\ Max(S) \in S
           /\ \A y \in S : y <= Max(S)
<1> DEFINE bounds == {u \in Nat : \A y \in S : y <= u}
<1>1. bounds \in SUBSET Nat /\ n \in bounds
  OBVIOUS
<1>2. PICK m \in bounds : \A u \in bounds : m <= u
  BY <1>1, LeastMember
<1>3. m \in Nat /\ \A y \in S : y \in Nat /\ y <= m
  BY <1>2
<1>4. m \in S
  <2> SUFFICES ASSUME m \notin S PROVE FALSE
    OBVIOUS
  <2>1. \A y \in S : y < m
    BY <1>3
  <2>2. PICK y \in S : TRUE
    OBVIOUS
  <2>3. m > 0
    BY <1>3, <2>1, <2>2
  <2>4. m - 1 \in Nat /\ \A x \in S : x <= m - 1
    BY <1>3, <2>1, <2>3
  <2>5. m - 1 \in bounds
    BY <2>4
  <2> QED
    BY <1>2, <1>3, <2>5
<1>5. \E x \in S : \A y \in S : x >= y
  BY <1>3, <1>4
<1> QED
  <2>1. Max(S) \in S /\ \A y \in S : Max(S) >= y
    BY <1>5 DEF Max
  <2> QED
    BY <2>1, <1>3

\* A list, whatever its members are.
IsList(list) == \E R : list \in Seq(R)

\* A list with one more member is a list.
LEMMA ListGrows == ASSUME NEW list, NEW record, IsList(list)
                   PROVE  IsList(Append(list, record))
<1>1. PICK R : list \in Seq(R)
  BY DEF IsList
<1>2. list \in Seq(R \cup {record}) /\ record \in R \cup {record}
  BY <1>1
<1>3. Append(list, record) \in Seq(R \cup {record})
  BY <1>2
<1> QED
  BY <1>3 DEF IsList

\* A record appended to a list takes the place after its last one.
LEMMA ListAppended ==
    ASSUME NEW list, NEW record, IsList(list)
    PROVE  LET longer == Append(list, record)
           IN  /\ IsList(longer)
               /\ Len(list) \in Nat /\ Len(longer) = Len(list) + 1
               /\ DOMAIN list = 1 .. Len(list) /\ DOMAIN longer = 1 .. Len(list) + 1
               /\ longer[Len(list) + 1] = record
               /\ \A i \in 1 .. Len(list) : longer[i] = list[i]
<1>1. PICK R : list \in Seq(R)
  BY DEF IsList
<1>2. list \in Seq(R \cup {record}) /\ record \in R \cup {record}
  BY <1>1
<1>3. IsList(Append(list, record))
  BY ListGrows
<1>4. /\ Len(list) \in Nat /\ DOMAIN list = 1 .. Len(list)
  BY <1>2
<1>5. /\ Len(Append(list, record)) = Len(list) + 1
      /\ \A i \in 1 .. Len(list) : Append(list, record)[i] = list[i]
      /\ Append(list, record)[Len(list) + 1] = record
  BY <1>2, AppendProperties
<1>6. Append(list, record) \in Seq(R \cup {record})
  BY <1>2
<1>7. DOMAIN Append(list, record) = 1 .. Len(list) + 1
  BY <1>5, <1>6
<1> QED
  BY <1>3, <1>4, <1>5, <1>7

-----------------------------------------------------------------------------
(* The sources and the places in them. *)

Token == [text : STRING, line : Nat, tight : BOOLEAN]

\* The sources are those of a program: nothing rewrites them.
SourcesOK ==
    /\ Root \in DOMAIN sources
    /\ \A path \in DOMAIN Loader : Loader[path] \subseteq DOMAIN sources
    /\ \A s \in DOMAIN sources :
          /\ sources[s] \in Seq(Token) /\ sources[s] # << >>
          /\ \A i \in 1..Len(sources[s]) : sources[s][i].text = EndOfFile <=> i = Len(sources[s])

\* The assumption on the programs is what the sources start with.
LEMMA SourcesInit == Init => SourcesOK
<1> SUFFICES ASSUME Init PROVE SourcesOK
  OBVIOUS
<1>1. PICK family \in Programs : sources \in family
  BY DEF Init
<1>2. /\ Root \in DOMAIN sources
      /\ \A path \in DOMAIN Loader : Loader[path] \subseteq DOMAIN sources
  BY <1>1, ProgramsAssumption
<1>3. ASSUME NEW s \in DOMAIN sources
      PROVE  /\ sources[s] \in Seq(Token) /\ sources[s] # << >>
             /\ \A i \in 1..Len(sources[s]) :
                   sources[s][i].text = EndOfFile <=> i = Len(sources[s])
  <2>1. /\ sources[s] \in Seq(Token) /\ sources[s] # << >>
        /\ \A i \in DOMAIN sources[s] : sources[s][i].text = EndOfFile <=> i = Len(sources[s])
    BY <1>1, ProgramsAssumption DEF Token
  <2> QED
    BY <2>1
<1> QED
  BY <1>2, <1>3 DEF SourcesOK

\* Every token of a source is one, and the last is its end of file.
LEMMA TokensOf ==
    ASSUME SourcesOK, NEW s \in DOMAIN sources
    PROVE  /\ Len(sources[s]) \in Nat /\ Len(sources[s]) >= 1
           /\ \A i \in 1..Len(sources[s]) :
                 /\ sources[s][i].text \in STRING
                 /\ sources[s][i].text = EndOfFile <=> i = Len(sources[s])
<1>1. /\ sources[s] \in Seq(Token) /\ sources[s] # << >>
      /\ \A i \in 1..Len(sources[s]) : sources[s][i].text = EndOfFile <=> i = Len(sources[s])
  BY DEF SourcesOK
<1>2. Len(sources[s]) \in Nat /\ Len(sources[s]) >= 1
  BY <1>1
<1>3. \A i \in 1..Len(sources[s]) : sources[s][i] \in Token
  BY <1>1
<1> QED
  BY <1>1, <1>2, <1>3 DEF Token

\* A directive is its grave accent and its name, in front of the end of the file.
LEMMA DirectiveTokens ==
    ASSUME SourcesOK, NEW s \in DOMAIN sources, NEW i \in Nat, i >= 1,
           DirectiveAt(s, i) # "none"
    PROVE  /\ DirectiveAt(s, i) \in DirectiveNames
           /\ i + 2 \in 1..Len(sources[s])
           /\ sources[s][i].text = Grave
           /\ sources[s][i + 1].text = DirectiveAt(s, i)
           /\ sources[s][i + 1].line = sources[s][i].line
<1>1. /\ i < Len(sources[s]) /\ sources[s][i].text = Grave
      /\ sources[s][i + 1].text \in DirectiveNames
      /\ sources[s][i + 1].line = sources[s][i].line
      /\ DirectiveAt(s, i) = sources[s][i + 1].text
  BY DEF DirectiveAt
<1>2. Len(sources[s]) \in Nat
  BY TokensOf
<1>5. i + 1 \in 1..Len(sources[s])
  BY <1>1, <1>2
<1>3. sources[s][i + 1].text # EndOfFile
  BY <1>1 DEF DirectiveNames, ConditionalNames, EndOfFile
<1>4. i + 1 # Len(sources[s])
  BY <1>5, <1>3, TokensOf
<1> QED
  BY <1>1, <1>2, <1>4, <1>5

\* What stands at a place is a directive or nothing.
LEMMA DirectiveIsKnown ==
    ASSUME NEW s, NEW i PROVE DirectiveAt(s, i) \in DirectiveNames \cup {"none"}
BY DEF DirectiveAt

\* The line of a token ends behind it, and no later than the file.
LEMMA LineIsAhead ==
    ASSUME SourcesOK, NEW s \in DOMAIN sources, NEW i \in 1..Len(sources[s]),
           sources[s][i].text # EndOfFile
    PROVE  LineAfter(s, i) \in i + 1..Len(sources[s])
<1> DEFINE ends == {j \in i..Len(sources[s]) : \/ sources[s][j].text = EndOfFile
                                               \/ sources[s][j].line # sources[s][i].line}
<1>1. Len(sources[s]) \in Nat /\ i \in Nat
  BY TokensOf
<1>2. Len(sources[s]) \in ends
  BY <1>1, TokensOf
<1>3. ends \in SUBSET Nat
  BY <1>1
<1>4. i \notin ends
  OBVIOUS
<1>5. Min(ends) \in ends
  BY <1>2, <1>3, LeastMember
<1>6. LineAfter(s, i) = Min(ends)
  BY DEF LineAfter
<1> HIDE DEF ends
<1>7. Min(ends) \in i..Len(sources[s]) /\ Min(ends) # i
  BY <1>4, <1>5 DEF ends
<1> QED
  BY <1>1, <1>6, <1>7

\* So do the lines a directive continues on.
LEMMA ContinuedIsAhead ==
    ASSUME SourcesOK, NEW s \in DOMAIN sources, NEW i \in 1..Len(sources[s]) - 1
    PROVE  ContinuedAfter(s, i) \in i + 1..Len(sources[s])
<1> DEFINE ends == {j \in i + 1..Len(sources[s]) :
                       /\ sources[s][j].text = EndOfFile \/ sources[s][j].line # sources[s][j - 1].line
                       /\ ~Continues(s, j)}
<1>1. Len(sources[s]) \in Nat /\ i \in Nat
  BY TokensOf
<1>2. sources[s][Len(sources[s])].text = EndOfFile
  BY <1>1, TokensOf
<1>3. ~Continues(s, Len(sources[s]))
  BY <1>2 DEF Continues
<1>4. Len(sources[s]) \in ends
  BY <1>1, <1>2, <1>3
<1>5. ends \in SUBSET Nat
  BY <1>1
<1>6. Min(ends) \in ends
  BY <1>4, <1>5, LeastMember
<1>7. ContinuedAfter(s, i) = Min(ends)
  BY DEF ContinuedAfter
<1> QED
  BY <1>6, <1>7

\* A run of text ends where the next directive begins, or earlier, or with the file.
LEMMA SegmentIsText ==
    ASSUME SourcesOK, NEW s \in DOMAIN sources, NEW i \in 1..Len(sources[s])
    PROVE  /\ SegmentAfter(s, i) \in i..Len(sources[s]) + 1
           /\ \A j \in i..SegmentAfter(s, i) - 1 : DirectiveAt(s, j) = "none"
<1> DEFINE ends == {Len(sources[s]) + 1}
                     \cup {j \in i..Len(sources[s]) :
                             \/ DirectiveAt(s, j) # "none"
                             \/ sources[s][j].text = EndOfFile /\ Len(reading) > 1}
<1>1. Len(sources[s]) \in Nat /\ i \in Nat
  BY TokensOf
<1>2. /\ \A j \in ends : j \in i..Len(sources[s]) + 1
      /\ Len(sources[s]) + 1 \in ends
  BY <1>1
<1>3. ends \in SUBSET Nat /\ ends # {}
  BY <1>1, <1>2
<1>7. Min(ends) \in ends /\ \A j \in ends : Min(ends) <= j
  BY <1>3, LeastMember
<1>4. SegmentAfter(s, i) = Min(ends)
  BY DEF SegmentAfter
<1>5. Min(ends) \in i..Len(sources[s]) + 1
  BY <1>2, <1>7
<1> HIDE DEF ends
<1>6. ASSUME NEW j \in i..Min(ends) - 1 PROVE DirectiveAt(s, j) = "none"
  <2>1. j \in Nat /\ j < Min(ends) /\ j \in i..Len(sources[s])
    BY <1>1, <1>5
  <2>2. j \notin ends
    BY <1>1, <1>7, <1>5, <2>1
  <2> QED
    BY <2>1, <2>2 DEF ends
<1> QED
  BY <1>4, <1>5, <1>6

-----------------------------------------------------------------------------
(* What a step does to the sources being read. *)

Position == {i \in Nat : i >= 1}
Place == [source : DOMAIN sources, at : Position]
Edge == [site : [kind : {"source"}, source : DOMAIN sources, at : Position], included : DOMAIN sources]

\* The sources are read somewhere, and there is one as long as the run goes on.
ReadingOK ==
    /\ SourcesOK
    /\ reading \in Seq(Place)
    /\ status = "running" => reading # << >>
    /\ edges \subseteq Edge

\* Where the walk goes on behind what stands at a token.
Beyond(s, i) ==
    CASE DirectiveAt(s, i) = "define" -> ContinuedAfter(s, i)
      [] DirectiveAt(s, i) \in {"include", "undef"} -> LineAfter(s, i)
      [] DirectiveAt(s, i) \in {"ifdef", "ifndef", "elsif"} -> i + 3
      [] DirectiveAt(s, i) \in {"else", "endif"} -> i + 2
      [] OTHER -> i + 1

\* A position it may go on from: behind the directive it is at, or behind some text.
Reached(s, i, after) ==
    \/ after = Beyond(s, i)
    \/ after \in Nat /\ after > i /\ \A j \in i..after - 1 : j <= Len(sources[s]) /\ DirectiveAt(s, j) = "none"

\* The steps, by what they do to the sources being read.
Walks ==
    /\ InSource /\ UNCHANGED <<sources, status, edges>>
    /\ \E after \in Nat : Reached(Here.source, Here.at, after) /\ Consume(after)

Enters ==
    /\ InSource /\ Active /\ Directive = "include" /\ UNCHANGED <<sources, status, macros, conditionals>>
    /\ LET after == LineAfter(Here.source, Here.at)
           site == FromSource(Here.source, Here.at)
       IN  /\ Visit(after)
           /\ \E included \in DOMAIN sources :
                 /\ ~OnStack(included) /\ ~Inconsistent(site, included)
                 /\ edges' = edges \cup {[site |-> site, included |-> included]}
                 /\ reading' = Append([reading EXCEPT ![Len(reading)].at = after],
                                      [source |-> included, at |-> 1])

Leaves ==
    /\ status = "running" /\ reading' = Front(reading)
    /\ status' = IF Len(reading) = 1 THEN "done" ELSE "running"
    /\ UNCHANGED <<sources, macros, conditionals, edges, visited>>

\* The place the walk is at.
LEMMA HereIsPlace ==
    ASSUME ReadingOK, status = "running"
    PROVE  /\ Len(reading) \in Nat /\ Len(reading) >= 1
           /\ Here = reading[Len(reading)] /\ Here \in Place
           /\ Here.source \in DOMAIN sources /\ Here.at \in Nat /\ Here.at >= 1
<1>1. reading \in Seq(Place) /\ reading # << >>
  BY DEF ReadingOK
<1>2. Len(reading) \in Nat /\ Len(reading) >= 1
  BY <1>1
<1>3. reading[Len(reading)] \in Place
  BY <1>1, <1>2
<1>4. Here = reading[Len(reading)]
  BY DEF Here, Last
<1> QED
  BY <1>2, <1>3, <1>4 DEF Place, Position

\* In a source, it is at a token of it.
LEMMA HereIsToken ==
    ASSUME ReadingOK, InSource
    PROVE  /\ status = "running" /\ Here.source \in DOMAIN sources
           /\ Here.at \in 1..Len(sources[Here.source])
           /\ Directive = DirectiveAt(Here.source, Here.at)
<1>1. status = "running" /\ Here.at <= Len(sources[Here.source])
  BY DEF InSource
<1>2. Here.source \in DOMAIN sources /\ Here.at \in Nat /\ Here.at >= 1
  BY <1>1, HereIsPlace
<1>3. Len(sources[Here.source]) \in Nat
  BY <1>2, TokensOf DEF ReadingOK
<1>4. ~(Here.at > Len(sources[Here.source]))
  BY <1>1, <1>2, <1>3
<1> QED
  BY <1>1, <1>2, <1>3, <1>4 DEF Directive

\* The walk only goes forward.
LEMMA BeyondIsAhead ==
    ASSUME SourcesOK, NEW s \in DOMAIN sources, NEW i \in 1..Len(sources[s])
    PROVE  Beyond(s, i) \in Nat /\ Beyond(s, i) > i
<1>1. Len(sources[s]) \in Nat /\ i \in Nat /\ i >= 1
  BY TokensOf
<1>2. CASE DirectiveAt(s, i) = "define"
  <2>1. i + 2 \in 1..Len(sources[s])
    BY <1>1, <1>2, DirectiveTokens
  <2>2. i \in 1..Len(sources[s]) - 1
    BY <1>1, <2>1
  <2>3. ContinuedAfter(s, i) \in i + 1..Len(sources[s])
    BY <2>2, ContinuedIsAhead
  <2> QED
    BY <1>1, <1>2, <2>3 DEF Beyond
<1>3. CASE DirectiveAt(s, i) \in {"include", "undef"}
  <2>1. DirectiveAt(s, i) # "none" /\ DirectiveAt(s, i) # "define"
    BY <1>3
  <2>2. sources[s][i].text = Grave
    BY <1>1, <2>1, DirectiveTokens
  <2>3. sources[s][i].text # EndOfFile
    BY <2>2 DEF Grave, EndOfFile
  <2>4. LineAfter(s, i) \in i + 1..Len(sources[s])
    BY <2>3, LineIsAhead
  <2> QED
    BY <1>1, <1>3, <2>1, <2>4 DEF Beyond
<1>4. CASE DirectiveAt(s, i) \notin {"define", "include", "undef"}
  BY <1>1, <1>4 DEF Beyond
<1> QED
  BY <1>2, <1>3, <1>4

\* So does what a step reaches.
LEMMA ReachedIsAhead ==
    ASSUME SourcesOK, NEW s \in DOMAIN sources, NEW i \in 1..Len(sources[s]),
           NEW after, Reached(s, i, after)
    PROVE  after \in Nat /\ after > i
BY BeyondIsAhead DEF Reached

\* Each action is one of these steps.
LEMMA KindOfStep ==
    ASSUME ReadingOK, [Next]_pvars
    PROVE  UNCHANGED pvars \/ Fail \/ Walks \/ Enters \/ Leaves
<1> DEFINE s == Here.source
           at == Here.at
<1>0. ASSUME InSource
      PROVE  /\ s \in DOMAIN sources /\ at \in 1..Len(sources[s]) /\ at \in Nat
             /\ Directive = DirectiveAt(s, at) /\ Directive \in DirectiveNames \cup {"none"}
  <2>1. /\ s \in DOMAIN sources /\ at \in 1..Len(sources[s]) /\ Directive = DirectiveAt(s, at)
    BY <1>0, HereIsToken
  <2>2. at \in Nat
    BY <1>0, HereIsPlace DEF InSource
  <2> QED
    BY <2>1, <2>2, DirectiveIsKnown
<1>w. ASSUME InSource, UNCHANGED <<sources, status, edges>>, Consume(Beyond(s, at)) PROVE Walks
  <2>1. Beyond(s, at) \in Nat
    BY <1>w, <1>0, BeyondIsAhead DEF ReadingOK
  <2> QED
    BY <1>w, <2>1 DEF Walks, Reached
<1>1. CASE OpenConditional
  <2>1. InSource /\ UNCHANGED <<sources, status, edges>> /\ Consume(at + 3) /\ Directive \in {"ifdef", "ifndef"}
    BY <1>1 DEF OpenConditional, OnlyConditionals
  <2>2. Beyond(s, at) = at + 3
    BY <1>0, <2>1 DEF Beyond
  <2> QED
    BY <1>w, <2>1, <2>2
<1>2. CASE ElsifBranch
  <2>1. InSource /\ UNCHANGED <<sources, status, edges>> /\ Consume(at + 3) /\ Directive = "elsif"
    BY <1>2 DEF ElsifBranch, OnlyConditionals
  <2>2. Beyond(s, at) = at + 3
    BY <1>0, <2>1 DEF Beyond
  <2> QED
    BY <1>w, <2>1, <2>2
<1>3. CASE ElseBranch
  <2>1. InSource /\ UNCHANGED <<sources, status, edges>> /\ Consume(at + 2) /\ Directive = "else"
    BY <1>3 DEF ElseBranch, OnlyConditionals
  <2>2. Beyond(s, at) = at + 2
    BY <1>0, <2>1 DEF Beyond
  <2> QED
    BY <1>w, <2>1, <2>2
<1>4. CASE CloseConditional
  <2>1. InSource /\ UNCHANGED <<sources, status, edges>> /\ Consume(at + 2) /\ Directive = "endif"
    BY <1>4 DEF CloseConditional, OnlyConditionals
  <2>2. Beyond(s, at) = at + 2
    BY <1>0, <2>1 DEF Beyond
  <2> QED
    BY <1>w, <2>1, <2>2
<1>5. CASE RejectConditional
  BY <1>5 DEF RejectConditional
<1>6. CASE Skip
  <2>1. InSource /\ UNCHANGED <<sources, status, edges>> /\ Directive \notin ConditionalNames
    BY <1>6 DEF Skip
  <2>2. Consume(CASE Directive = "define" -> ContinuedAfter(s, at)
                  [] Directive \in {"include", "undef"} -> LineAfter(s, at)
                  [] OTHER -> at + 1)
    BY <1>6 DEF Skip
  <2>3. Beyond(s, at) = CASE Directive = "define" -> ContinuedAfter(s, at)
                          [] Directive \in {"include", "undef"} -> LineAfter(s, at)
                          [] OTHER -> at + 1
    BY <1>0, <2>1 DEF Beyond, ConditionalNames
  <2> QED
    BY <1>w, <2>1, <2>2, <2>3
<1>7. CASE DefineMacro
  <2>1. CASE Definition(s, at).ok
    <3>1. InSource /\ UNCHANGED <<sources, status, edges>> /\ Directive = "define"
      BY <1>7, <2>1 DEF DefineMacro
    <3>2. Consume(ContinuedAfter(s, at))
      BY <1>7, <2>1 DEF DefineMacro
    <3>3. Beyond(s, at) = ContinuedAfter(s, at)
      BY <1>0, <3>1 DEF Beyond
    <3> QED
      BY <1>w, <3>1, <3>2, <3>3
  <2>2. CASE ~Definition(s, at).ok
    BY <1>7, <2>2 DEF DefineMacro
  <2> QED
    BY <2>1, <2>2
<1>8. CASE UndefineMacro
  <2>1. CASE Operand \notin Identifiers \/ LineAfter(s, at) = at + 2
    BY <1>8, <2>1 DEF UndefineMacro
  <2>2. CASE ~(Operand \notin Identifiers \/ LineAfter(s, at) = at + 2)
    <3>1. InSource /\ UNCHANGED <<sources, status, edges>> /\ Directive = "undef"
      BY <1>8, <2>2 DEF UndefineMacro
    <3>2. Consume(LineAfter(s, at))
      BY <1>8, <2>2 DEF UndefineMacro
    <3>3. Beyond(s, at) = LineAfter(s, at)
      BY <1>0, <3>1 DEF Beyond
    <3> QED
      BY <1>w, <3>1, <3>2, <3>3
  <2> QED
    BY <2>1, <2>2
<1>9. CASE IncludeSource
  <2> DEFINE site == FromSource(s, at)
             after == LineAfter(s, at)
             path == IncludePath(Expand(sources, macros, RawTokens(s, at + 2, after)))
  <2>1. InSource /\ Active /\ Directive = "include"
    BY <1>9 DEF IncludeSource
  <2>2. \/ Fail
        \/ /\ path \in DOMAIN Loader
           /\ \E included \in Loader[path] :
                 IF Inconsistent(site, included) \/ OnStack(included) THEN Fail
                 ELSE /\ edges' = edges \cup {[site |-> site, included |-> included]}
                      /\ reading' = Append([reading EXCEPT ![Len(reading)].at = after],
                                           [source |-> included, at |-> 1])
                      /\ Visit(after)
                      /\ UNCHANGED <<sources, macros, status, conditionals, output>>
    BY <1>9 DEF IncludeSource
  <2> HIDE DEF path
  <2>3. CASE Fail
    BY <2>3
  <2>4. CASE ~Fail
    <3>1. path \in DOMAIN Loader
      BY <2>2, <2>4
    <3>2. PICK included \in Loader[path] :
             /\ ~(Inconsistent(site, included) \/ OnStack(included))
             /\ edges' = edges \cup {[site |-> site, included |-> included]}
             /\ reading' = Append([reading EXCEPT ![Len(reading)].at = after],
                                  [source |-> included, at |-> 1])
             /\ Visit(after)
             /\ UNCHANGED <<sources, macros, status, conditionals, output>>
      BY <2>2, <2>4
    <3>3. included \in DOMAIN sources
      BY <3>1, <3>2 DEF ReadingOK, SourcesOK
    <3> QED
      BY <2>1, <3>2, <3>3 DEF Enters
  <2> QED
    BY <2>3, <2>4
<1>10. CASE ExpandSegment
  <2> DEFINE after == SegmentAfter(s, at)
             expanded == Expand(sources, macros, RawTokens(s, at, after))
  <2>1. InSource /\ Directive = "none"
    BY <1>10 DEF ExpandSegment
  <2>2. \/ Fail
        \/ Consume(IF after = at THEN after + 1 ELSE after) /\ UNCHANGED <<sources, status, edges>>
    BY <1>10 DEF ExpandSegment
  <2>3. CASE Fail
    BY <2>3
  <2>4. CASE Consume(IF after = at THEN after + 1 ELSE after) /\ UNCHANGED <<sources, status, edges>>
    <3>1. /\ after \in at..Len(sources[s]) + 1
          /\ \A j \in at..after - 1 : DirectiveAt(s, j) = "none"
      BY <1>0, <2>1, SegmentIsText DEF ReadingOK
    <3>2. Len(sources[s]) \in Nat
      BY <1>0, <2>1, TokensOf DEF ReadingOK
    <3> HIDE DEF after, s, at
    <3>3. CASE after = at
      <4>1. Consume(at + 1)
        BY <2>4, <3>3
      <4>2. Beyond(s, at) = at + 1
        BY <1>0, <2>1 DEF Beyond, s, at
      <4> QED
        BY <1>w, <2>1, <2>4, <4>1, <4>2 DEF s, at
    <3>4. CASE after # at
      <4>1. Consume(after)
        BY <2>4, <3>4
      <4>2. /\ after \in Nat /\ after > at
            /\ \A j \in at..after - 1 : j <= Len(sources[s]) /\ DirectiveAt(s, j) = "none"
        BY <1>0, <2>1, <3>1, <3>2, <3>4
      <4>3. Reached(s, at, after)
        BY <4>2 DEF Reached
      <4> QED
        BY <2>1, <2>4, <4>1, <4>2, <4>3 DEF Walks, s, at
    <3> QED
      BY <3>3, <3>4
  <2> QED
    BY <2>2, <2>3, <2>4
<1>11. CASE EndSource
  <2>1. CASE Len(reading) = 1 /\ conditionals # << >>
    BY <1>11, <2>1 DEF EndSource
  <2>2. CASE ~(Len(reading) = 1 /\ conditionals # << >>)
    BY <1>11, <2>2 DEF EndSource, Leaves
  <2> QED
    BY <2>1, <2>2
<1>12. CASE Stopped
  BY <1>12 DEF Stopped
<1>13. CASE UNCHANGED pvars
  BY <1>13
<1> QED
  BY <1>1, <1>2, <1>3, <1>4, <1>5, <1>6, <1>7, <1>8, <1>9, <1>10, <1>11, <1>12, <1>13 DEF Next

\* The sources being read when the innermost is read on from a position.
ReadOn(after) == [reading EXCEPT ![Len(reading)].at = after]

\* Reading on changes the innermost position only.
LEMMA ReadOnKeeps ==
    ASSUME ReadingOK, status = "running", NEW after \in Nat, after >= 1
    PROVE  /\ ReadOn(after) \in Seq(Place) /\ Len(ReadOn(after)) = Len(reading)
           /\ \A k \in 1..Len(reading) :
                 /\ ReadOn(after)[k].source = reading[k].source
                 /\ ReadOn(after)[k].at = IF k = Len(reading) THEN after ELSE reading[k].at
<1>1. reading \in Seq(Place) /\ Len(reading) \in Nat /\ Len(reading) >= 1
  BY HereIsPlace DEF ReadingOK
<1>2. DOMAIN reading = 1..Len(reading) /\ \A k \in 1..Len(reading) : reading[k] \in Place
  BY <1>1
<1>3. ASSUME NEW k \in 1..Len(reading)
      PROVE  /\ ReadOn(after)[k] \in Place
             /\ ReadOn(after)[k].source = reading[k].source
             /\ ReadOn(after)[k].at = IF k = Len(reading) THEN after ELSE reading[k].at
  <2>1. reading[k] \in Place
    BY <1>2
  <2>2. CASE k = Len(reading)
    <3>1. ReadOn(after)[k] = [reading[k] EXCEPT !.at = after]
      BY <1>2, <2>2 DEF ReadOn
    <3> QED
      BY <2>1, <2>2, <3>1 DEF Place, Position
  <2>3. CASE k # Len(reading)
    <3>1. ReadOn(after)[k] = reading[k]
      BY <1>2, <2>3 DEF ReadOn
    <3> QED
      BY <2>1, <2>3, <3>1
  <2> QED
    BY <2>2, <2>3
<1>4. DOMAIN ReadOn(after) = 1..Len(reading)
  BY <1>2 DEF ReadOn
<1>6. ReadOn(after) = [k \in 1..Len(reading) |-> ReadOn(after)[k]]
  BY <1>2 DEF ReadOn
<1>5. ReadOn(after) \in Seq(Place) /\ Len(ReadOn(after)) = Len(reading)
  <2> DEFINE r == ReadOn(after)
  <2> HIDE DEF r
  <2>1. r = [k \in 1..Len(reading) |-> r[k]] /\ \A k \in 1..Len(reading) : r[k] \in Place
    BY <1>6, <1>3 DEF r
  <2>2. r \in [1..Len(reading) -> Place]
    BY <2>1
  <2>3. r \in Seq(Place)
    BY <1>1, <2>2, SeqDef
  <2>4. Len(r) = Len(reading)
    BY <1>1, <1>4, <2>3, LenProperties DEF r
  <2> QED
    BY <2>3, <2>4 DEF r
<1> QED
  BY <1>3, <1>5

\* The sources being read once another is entered behind what includes it.
LEMMA EnteredKeeps ==
    ASSUME ReadingOK, status = "running", NEW after \in Nat, after >= 1, NEW included \in DOMAIN sources
    PROVE  LET entered == Append(ReadOn(after), [source |-> included, at |-> 1])
           IN  /\ entered \in Seq(Place) /\ entered # << >> /\ Len(entered) = Len(reading) + 1
               /\ entered[Len(reading) + 1] = [source |-> included, at |-> 1]
               /\ \A k \in 1..Len(reading) : entered[k] = ReadOn(after)[k]
<1>1. ReadOn(after) \in Seq(Place) /\ Len(ReadOn(after)) = Len(reading)
  BY ReadOnKeeps
<1>2. [source |-> included, at |-> 1] \in Place
  BY DEF Place, Position
<1> HIDE DEF Place
<1> QED
  BY <1>1, <1>2, AppendProperties

\* What is left when the innermost source ends.
LEMMA LeftKeeps ==
    ASSUME ReadingOK, status = "running"
    PROVE  /\ Front(reading) \in Seq(Place) /\ Len(Front(reading)) = Len(reading) - 1
           /\ \A k \in 1..Len(reading) - 1 : Front(reading)[k] = reading[k]
<1>1. reading \in Seq(Place) /\ Len(reading) \in Nat /\ Len(reading) >= 1
  BY HereIsPlace DEF ReadingOK
<1>2. Front(reading) = SubSeq(reading, 1, Len(reading) - 1)
  BY DEF Front
<1> HIDE DEF Place
<1>3. \A k \in 1..Len(reading) - 1 : reading[k] \in Place
  BY <1>1
<1>4. /\ SubSeq(reading, 1, Len(reading) - 1) \in Seq(Place)
      /\ Len(SubSeq(reading, 1, Len(reading) - 1))
           = IF 1 <= Len(reading) - 1 THEN Len(reading) - 1 - 1 + 1 ELSE 0
      /\ \A k \in 1..Len(reading) - 1 - 1 + 1 :
            SubSeq(reading, 1, Len(reading) - 1)[k] = reading[1 + k - 1]
  BY <1>1, <1>3, SubSeqProperties
<1>5. Len(Front(reading)) = Len(reading) - 1
  <2> DEFINE n == Len(reading)
             front == SubSeq(reading, 1, n - 1)
  <2>1. n \in Nat /\ n >= 1 /\ Len(front) = IF 1 <= n - 1 THEN n - 1 - 1 + 1 ELSE 0
    BY <1>1, <1>4
  <2> HIDE DEF n, front
  <2>2. Len(front) = n - 1
    BY <2>1
  <2> QED
    BY <1>2, <2>2 DEF n, front
<1>6. ASSUME NEW k \in 1..Len(reading) - 1 PROVE Front(reading)[k] = reading[k]
  <2>1. Front(reading)[k] = reading[1 + k - 1] /\ 1 + k - 1 = k
    BY <1>1, <1>2, <1>4
  <2> QED
    BY <2>1
<1> QED
  BY <1>2, <1>4, <1>5, <1>6

\* The run starts at the first token of the root,
LEMMA ReadingInit == Init => ReadingOK
<1> SUFFICES ASSUME Init PROVE ReadingOK
  OBVIOUS
<1>1. SourcesOK
  BY SourcesInit
<1>2. [source |-> Root, at |-> 1] \in Place
  BY <1>1 DEF SourcesOK, Place, Position
<1>3. reading = <<[source |-> Root, at |-> 1]>> /\ edges = {}
  BY DEF Init
<1> HIDE DEF Place
<1> QED
  BY <1>1, <1>2, <1>3 DEF ReadingOK

\* and no step leaves the sources.
LEMMA ReadingStep == ASSUME ReadingOK, [Next]_pvars PROVE ReadingOK'
<1>s. ASSUME UNCHANGED sources PROVE SourcesOK' /\ Place' = Place /\ Edge' = Edge
  BY <1>s DEF SourcesOK, ReadingOK, Place, Edge
<1>1. CASE UNCHANGED pvars
  BY <1>1 DEF ReadingOK, SourcesOK, Place, Edge, pvars
<1>2. CASE Fail
  <2>1. UNCHANGED sources /\ reading' = << >> /\ status' = "failed" /\ edges' = {}
    BY <1>2 DEF Fail
  <2> QED
    BY <1>s, <2>1 DEF ReadingOK
<1>3. CASE Walks
  <2>1. PICK after \in Nat : Reached(Here.source, Here.at, after) /\ Consume(after)
    BY <1>3 DEF Walks
  <2>2. InSource /\ UNCHANGED <<sources, edges>> /\ status' = status /\ status = "running"
    BY <1>3 DEF Walks, InSource
  <2>3. Here.source \in DOMAIN sources /\ Here.at \in 1..Len(sources[Here.source]) /\ Here.at \in Nat /\ Here.at >= 1
    BY <2>2, HereIsToken, HereIsPlace
  <2>4. after > Here.at
    BY <2>1, <2>3, ReachedIsAhead DEF ReadingOK
  <2>5. reading' = ReadOn(after)
    BY <2>1 DEF Consume, ReadOn
  <2>6. reading' \in Seq(Place) /\ Len(reading') = Len(reading) /\ Len(reading) >= 1
    BY <2>2, <2>3, <2>4, <2>5, ReadOnKeeps, HereIsPlace
  <2>7. reading' # << >>
    BY <2>6
  <2> QED
    BY <1>s, <2>2, <2>6, <2>7 DEF ReadingOK
<1>4. CASE Enters
  <2> DEFINE after == LineAfter(Here.source, Here.at)
  <2>1. InSource /\ UNCHANGED sources /\ status' = status /\ status = "running" /\ Directive = "include"
    BY <1>4 DEF Enters, InSource
  <2>2. PICK included \in DOMAIN sources :
           /\ edges' = edges \cup {[site |-> FromSource(Here.source, Here.at), included |-> included]}
           /\ reading' = Append(ReadOn(after), [source |-> included, at |-> 1])
    BY <1>4 DEF Enters, ReadOn
  <2>3. /\ Here.source \in DOMAIN sources /\ Here.at \in 1..Len(sources[Here.source]) /\ Here.at \in Nat
        /\ DirectiveAt(Here.source, Here.at) = "include"
    BY <2>1, HereIsToken, HereIsPlace
  <2>4. after = Beyond(Here.source, Here.at)
    BY <2>3 DEF Beyond
  <2>5. after \in Nat /\ after >= 1
    BY <2>3, <2>4, BeyondIsAhead DEF ReadingOK
  <2> HIDE DEF after
  <2>6. reading' \in Seq(Place) /\ reading' # << >>
    BY <2>1, <2>2, <2>5, EnteredKeeps
  <2>7. [site |-> FromSource(Here.source, Here.at), included |-> included] \in Edge
    BY <2>3 DEF Edge, FromSource, Position
  <2>8. edges' \subseteq Edge
    BY <2>2, <2>7 DEF ReadingOK
  <2> QED
    BY <1>s, <2>1, <2>6, <2>8 DEF ReadingOK
<1>5. CASE Leaves
  <2>1. /\ status = "running" /\ UNCHANGED <<sources, edges>> /\ reading' = Front(reading)
        /\ status' = IF Len(reading) = 1 THEN "done" ELSE "running"
    BY <1>5 DEF Leaves
  <2>2. /\ reading' \in Seq(Place) /\ Len(reading') = Len(reading) - 1
        /\ Len(reading) \in Nat /\ Len(reading) >= 1
    BY <2>1, LeftKeeps, HereIsPlace
  <2>3. status' = "running" => reading' # << >>
    BY <2>1, <2>2
  <2> QED
    BY <1>s, <2>1, <2>2, <2>3 DEF ReadingOK
<1> QED
  BY <1>1, <1>2, <1>3, <1>4, <1>5, KindOfStep

-----------------------------------------------------------------------------
(* No source inside itself. *)

\* A step keeps the sources being read apart, and every site its answer.
LEMMA TreeStep ==
    ASSUME ReadingOK, IncludesAreATree, [Next]_pvars PROVE IncludesAreATree'
<1>t. \A j, k \in 1..Len(reading) : reading[j].source = reading[k].source => j = k
  BY DEF IncludesAreATree, ReadingOK
<1>1. CASE UNCHANGED pvars
  BY <1>1 DEF IncludesAreATree, pvars
<1>2. CASE Fail
  <2>1. reading' = << >> /\ edges' = {}
    BY <1>2 DEF Fail
  <2> QED
    BY <2>1 DEF IncludesAreATree
<1>3. CASE Walks
  <2>1. PICK after \in Nat : Reached(Here.source, Here.at, after) /\ Consume(after)
    BY <1>3 DEF Walks
  <2>2. InSource /\ UNCHANGED <<sources, edges>> /\ status = "running"
    BY <1>3 DEF Walks, InSource
  <2>3. Here.source \in DOMAIN sources /\ Here.at \in 1..Len(sources[Here.source]) /\ Here.at \in Nat
    BY <2>2, HereIsToken, HereIsPlace
  <2>4. after >= 1
    BY <2>1, <2>3, ReachedIsAhead DEF ReadingOK
  <2>5. reading' = ReadOn(after)
    BY <2>1 DEF Consume, ReadOn
  <2>6. /\ reading' \in Seq(Place) /\ Len(reading') = Len(reading)
        /\ \A k \in 1..Len(reading) : reading'[k].source = reading[k].source
    BY <2>2, <2>4, <2>5, ReadOnKeeps
  <2>7. DOMAIN reading' = 1..Len(reading)
    BY <2>6
  <2> QED
    BY <1>t, <2>2, <2>6, <2>7 DEF IncludesAreATree
<1>4. CASE Enters
  <2> DEFINE after == LineAfter(Here.source, Here.at)
             site == FromSource(Here.source, Here.at)
  <2>1. InSource /\ status = "running" /\ Directive = "include"
    BY <1>4 DEF Enters, InSource
  <2>2. PICK included \in DOMAIN sources :
           /\ ~OnStack(included) /\ ~Inconsistent(site, included)
           /\ edges' = edges \cup {[site |-> site, included |-> included]}
           /\ reading' = Append(ReadOn(after), [source |-> included, at |-> 1])
    BY <1>4 DEF Enters, ReadOn
  <2>3. /\ Here.source \in DOMAIN sources /\ Here.at \in 1..Len(sources[Here.source]) /\ Here.at \in Nat
        /\ DirectiveAt(Here.source, Here.at) = "include"
    BY <2>1, HereIsToken, HereIsPlace
  <2>4. after = Beyond(Here.source, Here.at)
    BY <2>3 DEF Beyond
  <2>5. after \in Nat /\ after >= 1
    BY <2>3, <2>4, BeyondIsAhead DEF ReadingOK
  <2> HIDE DEF after, site
  <2>6. /\ reading' \in Seq(Place) /\ Len(reading') = Len(reading) + 1
        /\ reading'[Len(reading) + 1].source = included
        /\ \A k \in 1..Len(reading) : reading'[k].source = reading[k].source
    <3>1. /\ reading' \in Seq(Place) /\ Len(reading') = Len(reading) + 1
          /\ reading'[Len(reading) + 1] = [source |-> included, at |-> 1]
          /\ \A k \in 1..Len(reading) : reading'[k] = ReadOn(after)[k]
      BY <2>1, <2>2, <2>5, EnteredKeeps
    <3>2. \A k \in 1..Len(reading) : ReadOn(after)[k].source = reading[k].source
      BY <2>1, <2>5, ReadOnKeeps
    <3> QED
      BY <3>1, <3>2
  <2>7. Len(reading) \in Nat /\ DOMAIN reading' = 1..Len(reading) + 1 /\ DOMAIN reading = 1..Len(reading)
    BY <2>1, <2>6, HereIsPlace DEF ReadingOK
  <2>8. \A k \in 1..Len(reading) : reading[k].source # included
    BY <2>2, <2>7 DEF OnStack
  <2>9. ASSUME NEW j \in 1..Len(reading) + 1, NEW k \in 1..Len(reading) + 1,
               reading'[j].source = reading'[k].source
        PROVE  j = k
    BY <1>t, <2>6, <2>7, <2>8, <2>9
  <2>10. ASSUME NEW d \in edges', NEW e \in edges', d.site = e.site PROVE d = e
    <3> DEFINE new == [site |-> site, included |-> included]
    <3>1. \A x \in edges : x.site = site => x.included = included
      BY <2>2 DEF Inconsistent
    <3>2. d \in edges /\ e \in edges => d = e
      BY <2>10 DEF IncludesAreATree
    <3>3. d \in edges \cup {new} /\ e \in edges \cup {new}
      BY <2>2, <2>10
    <3>4. new.site = site /\ new.included = included
      OBVIOUS
    <3>5. \A x \in edges : x.site = site => x = new
      BY <3>1 DEF ReadingOK, Edge
    <3> HIDE DEF new
    <3> QED
      BY <2>10, <3>2, <3>3, <3>4, <3>5
  <2> QED
    BY <2>7, <2>9, <2>10 DEF IncludesAreATree
<1>5. CASE Leaves
  <2>1. status = "running" /\ UNCHANGED <<sources, edges>> /\ reading' = Front(reading)
    BY <1>5 DEF Leaves
  <2>2. /\ reading' \in Seq(Place) /\ Len(reading') = Len(reading) - 1 /\ Len(reading) \in Nat
        /\ \A k \in 1..Len(reading) - 1 : reading'[k] = reading[k]
    BY <2>1, LeftKeeps, HereIsPlace
  <2>3. DOMAIN reading' = 1..Len(reading) - 1
    BY <2>2
  <2>4. \A k \in 1..Len(reading) - 1 : k \in 1..Len(reading)
    BY <2>2
  <2> QED
    BY <1>t, <2>1, <2>2, <2>3, <2>4 DEF IncludesAreATree
<1> QED
  BY <1>1, <1>2, <1>3, <1>4, <1>5, KindOfStep

\* The walk stays in the sources.
LEMMA ReadingAlways == Spec => []ReadingOK
<1>1. Init => ReadingOK
  BY ReadingInit
<1>2. ReadingOK /\ [Next]_pvars => ReadingOK'
  BY ReadingStep
<1> QED
  BY <1>1, <1>2, PTL DEF Spec

\* However sources include one another and whatever the provider answers, no source
\* is read inside itself and every include site names one source (source_on_stack,
\* record_include).
THEOREM IncludesAlwaysATree == Spec => []IncludesAreATree
<1>1. Init => IncludesAreATree
  BY DEF Init, IncludesAreATree
<1>2. ReadingOK /\ IncludesAreATree /\ [Next]_pvars => IncludesAreATree'
  BY TreeStep
<1> QED
  BY <1>1, <1>2, ReadingAlways, PTL DEF Spec

-----------------------------------------------------------------------------
(* Directives stay whole. *)

\* A set that holds the first position of a source and is closed under going on.
Closed(s, X) == 1 \in X /\ \A i \in X : i >= 1 /\ i <= Len(sources[s]) => Beyond(s, i) \in X

\* The positions a walk from the beginning of a source comes by.
Boundary(s) == {i \in Nat : \A X \in SUBSET Nat : Closed(s, X) => i \in X}

\* They are the least closed set.
LEMMA BoundaryIsLeast ==
    ASSUME NEW s, NEW X \in SUBSET Nat, Closed(s, X)
    PROVE  Boundary(s) \subseteq X
BY DEF Boundary

\* The first position is one of them, and they are closed.
LEMMA BoundaryIsClosed ==
    ASSUME SourcesOK, NEW s \in DOMAIN sources
    PROVE  /\ 1 \in Boundary(s)
           /\ \A i \in Boundary(s) : i \in Nat /\ i >= 1
           /\ \A i \in Boundary(s) : i <= Len(sources[s]) => Beyond(s, i) \in Boundary(s)
<1>0. Len(sources[s]) \in Nat
  BY TokensOf
<1>a. ASSUME NEW i \in Nat, i >= 1, i <= Len(sources[s])
      PROVE  Beyond(s, i) \in Nat /\ Beyond(s, i) > i
  BY <1>0, <1>a, BeyondIsAhead
<1>1. 1 \in Boundary(s)
  BY DEF Boundary, Closed
<1>2. ASSUME NEW i \in Boundary(s) PROVE i \in Nat /\ i >= 1
  <2> DEFINE X == {j \in Nat : j >= 1}
  <2>1. \A j \in X : j <= Len(sources[s]) => Beyond(s, j) \in X
    BY <1>0, <1>a
  <2>2. X \in SUBSET Nat /\ 1 \in X
    OBVIOUS
  <2>3. Closed(s, X)
    BY <2>1, <2>2 DEF Closed
  <2>4. i \in X
    BY <2>2, <2>3, BoundaryIsLeast
  <2> QED
    BY <2>4
<1>3. ASSUME NEW i \in Boundary(s), i <= Len(sources[s]) PROVE Beyond(s, i) \in Boundary(s)
  <2>1. i \in Nat /\ i >= 1
    BY <1>2
  <2>2. Beyond(s, i) \in Nat
    BY <1>a, <1>3, <2>1
  <2>3. ASSUME NEW X \in SUBSET Nat, Closed(s, X) PROVE Beyond(s, i) \in X
    <3>1. i \in X
      BY <2>3, BoundaryIsLeast
    <3> QED
      BY <1>3, <2>1, <2>3, <3>1 DEF Closed
  <2> QED
    BY <2>2, <2>3 DEF Boundary
<1> QED
  BY <1>1, <1>2, <1>3

\* What a step reaches from one of them is one.
LEMMA ReachedIsBoundary ==
    ASSUME SourcesOK, NEW s \in DOMAIN sources, NEW i \in Boundary(s), i <= Len(sources[s]),
           NEW after \in Nat, Reached(s, i, after)
    PROVE  after \in Boundary(s)
<1>0. i \in Nat /\ i >= 1 /\ Len(sources[s]) \in Nat
  BY BoundaryIsClosed, TokensOf
<1>1. CASE after = Beyond(s, i)
  BY <1>1, BoundaryIsClosed
<1>2. CASE after > i /\ \A j \in i..after - 1 : j <= Len(sources[s]) /\ DirectiveAt(s, j) = "none"
  <2> SUFFICES ASSUME after \notin Boundary(s) PROVE FALSE
    OBVIOUS
  <2> DEFINE bad == {k \in i..after : k \notin Boundary(s)}
  <2>1. bad \in SUBSET Nat /\ after \in bad
    BY <1>0, <1>2
  <2>2. Min(bad) \in bad /\ \A k \in bad : Min(bad) <= k
    BY <2>1, LeastMember
  <2>3. PICK m \in bad : \A k \in bad : m <= k
    BY <2>2
  <2>4. m \in Nat /\ m > i /\ m <= after /\ m \notin Boundary(s)
    BY <1>0, <2>3
  <2>5. m - 1 \in i..after - 1 /\ m - 1 \in Nat /\ m - 1 >= 1
    BY <1>0, <1>2, <2>4
  <2>6. m - 1 \in Boundary(s)
    BY <1>0, <2>3, <2>4, <2>5
  <2>7. DirectiveAt(s, m - 1) = "none" /\ m - 1 <= Len(sources[s])
    BY <1>2, <2>5
  <2>8. Beyond(s, m - 1) = m - 1 + 1
    BY <2>7 DEF Beyond
  <2>9. m - 1 + 1 = m
    BY <2>4
  <2> QED
    BY <2>4, <2>6, <2>7, <2>8, <2>9, BoundaryIsClosed
<1> QED
  BY <1>1, <1>2 DEF Reached

\* None lies between another and what the walk goes on from behind that.
LEMMA BoundariesApart ==
    ASSUME SourcesOK, NEW s \in DOMAIN sources, NEW i \in Boundary(s), NEW j \in Boundary(s),
           j <= Len(sources[s]), j < i
    PROVE  Beyond(s, j) <= i
<1>0. Len(sources[s]) \in Nat
  BY TokensOf
<1>a. \A k \in Boundary(s) : k <= Len(sources[s]) => Beyond(s, k) \in Nat /\ Beyond(s, k) > k
  BY <1>0, BoundaryIsClosed, BeyondIsAhead
<1>b. \A k \in Boundary(s) : k \in Nat /\ k >= 1
  BY BoundaryIsClosed
<1> DEFINE Reaches(k) == \A h \in Boundary(s) : h <= Len(sources[s]) /\ h < k => Beyond(s, h) <= k
           X == {k \in Boundary(s) : Reaches(k)}
<1>1. X \in SUBSET Nat
  BY <1>b
<1>2. 1 \in X
  BY <1>b, BoundaryIsClosed
<1>3. ASSUME NEW k \in X, k <= Len(sources[s]) PROVE Beyond(s, k) \in X
  <2> DEFINE Y == {h \in Boundary(s) : h <= k \/ Beyond(s, k) <= h}
  <2>0. k \in Nat /\ k >= 1 /\ Beyond(s, k) \in Nat /\ Beyond(s, k) > k
    BY <1>3, <1>a, <1>b
  <2>1. Y \in SUBSET Nat /\ 1 \in Y
    BY <1>b, <2>0, BoundaryIsClosed
  <2>2. ASSUME NEW h \in Y, h <= Len(sources[s]) PROVE Beyond(s, h) \in Y
    <3>1. h \in Boundary(s) /\ h \in Nat /\ Beyond(s, h) \in Nat /\ Beyond(s, h) > h
      BY <1>a, <1>b, <2>2
    <3>2. Beyond(s, h) \in Boundary(s)
      BY <2>2, <3>1, BoundaryIsClosed
    <3>3. CASE h < k
      BY <2>2, <3>1, <3>2, <3>3
    <3>4. CASE h = k
      BY <2>0, <3>2, <3>4
    <3>5. CASE Beyond(s, k) <= h
      BY <2>0, <3>1, <3>2, <3>5
    <3> QED
      BY <2>0, <3>1, <3>3, <3>4, <3>5
  <2>3. Closed(s, Y)
    BY <2>1, <2>2 DEF Closed
  <2>4. \A h \in Boundary(s) : h <= k \/ Beyond(s, k) <= h
    BY <2>1, <2>3, BoundaryIsLeast
  <2>5. Beyond(s, k) \in Boundary(s)
    BY <1>3, BoundaryIsClosed
  <2>6. ASSUME NEW h \in Boundary(s), h <= Len(sources[s]), h < Beyond(s, k)
        PROVE  Beyond(s, h) <= Beyond(s, k)
    <3>1. h \in Nat /\ Beyond(s, h) \in Nat /\ h <= k
      BY <1>a, <1>b, <2>0, <2>4, <2>6
    <3>2. h < k => Beyond(s, h) <= k
      BY <2>6
    <3> QED
      BY <2>0, <3>1, <3>2
  <2> QED
    BY <2>5, <2>6
<1>4. Closed(s, X)
  BY <1>2, <1>3 DEF Closed
<1>5. i \in X
  BY <1>1, <1>4, BoundaryIsLeast
<1> QED
  BY <1>5

\* The source a place is in, and the boundaries it is one of.
Comes(place) == /\ place.source \in DOMAIN sources
                /\ place.at \in Boundary(place.source)

\* What has been read and what will be begins at boundaries.
WholeInv ==
    /\ \A k \in 1..Len(reading) : Comes(reading[k])
    /\ IsList(visited)
    /\ \A p \in 1..Len(visited) : /\ Comes(visited[p])
                                  /\ visited[p].at <= Len(sources[visited[p].source])

\* The boundaries are those of the sources, which no step rewrites.
LEMMA SameBoundaries ==
    ASSUME UNCHANGED sources, NEW place PROVE Comes(place)' = Comes(place)
<1>1. \A s, i : DirectiveAt(s, i)' = DirectiveAt(s, i)
  BY DEF DirectiveAt
<1>2. \A s, i : LineAfter(s, i)' = LineAfter(s, i)
  BY DEF LineAfter
<1>3. \A s, i : Continues(s, i)' = Continues(s, i)
  BY DEF Continues
<1>4. \A s, i : ContinuedAfter(s, i)' = ContinuedAfter(s, i)
  BY <1>3 DEF ContinuedAfter
<1>5. \A s, i : Beyond(s, i)' = Beyond(s, i)
  BY <1>1, <1>2, <1>4 DEF Beyond
<1>6. \A s, X : Closed(s, X)' = Closed(s, X)
  BY <1>5 DEF Closed
<1>7. \A s : Boundary(s)' = Boundary(s)
  BY <1>6 DEF Boundary
<1> QED
  BY <1>7 DEF Comes

\* A visit is written behind the others.
LEMMA VisitAdds ==
    ASSUME IsList(visited), NEW after, Visit(after)
    PROVE  /\ IsList(visited') /\ Len(visited) \in Nat /\ Len(visited') = Len(visited) + 1
           /\ DOMAIN visited = 1..Len(visited) /\ DOMAIN visited' = 1..Len(visited) + 1
           /\ visited'[Len(visited) + 1] =
                 [source |-> Here.source, at |-> Here.at, after |-> after, active |-> Active]
           /\ \A p \in 1..Len(visited) : visited'[p] = visited[p]
<1> DEFINE new == [source |-> Here.source, at |-> Here.at, after |-> after, active |-> Active]
<1>1. visited' = Append(visited, new)
  BY DEF Visit
<1> HIDE DEF new
<1>2. /\ IsList(visited') /\ Len(visited) \in Nat /\ Len(visited') = Len(visited) + 1
      /\ DOMAIN visited = 1..Len(visited) /\ DOMAIN visited' = 1..Len(visited) + 1
      /\ visited'[Len(visited) + 1] = new
      /\ \A p \in 1..Len(visited) : visited'[p] = visited[p]
  BY <1>1, ListAppended
<1> QED
  BY <1>2 DEF new

\* The invariant holds from the first token of the root on,
LEMMA WholeInit == Init => WholeInv
<1> SUFFICES ASSUME Init PROVE WholeInv
  OBVIOUS
<1>1. SourcesOK /\ Root \in DOMAIN sources
  BY SourcesInit DEF SourcesOK
<1>2. Comes([source |-> Root, at |-> 1])
  BY <1>1, BoundaryIsClosed DEF Comes
<1>3. reading = <<[source |-> Root, at |-> 1]>> /\ visited = << >>
  BY DEF Init
<1>4. IsList(visited)
  BY <1>3 DEF IsList
<1> HIDE DEF Comes
<1> QED
  BY <1>2, <1>3, <1>4 DEF WholeInv

\* a step visits a boundary,
LEMMA WholeVisit ==
    ASSUME ReadingOK, WholeInv, InSource, UNCHANGED sources, NEW after, Visit(after)
    PROVE  /\ IsList(visited')
           /\ \A p \in 1..Len(visited') : /\ Comes(visited'[p])
                                          /\ visited'[p].at <= Len(sources[visited'[p].source])
<1>1. /\ IsList(visited') /\ Len(visited) \in Nat /\ Len(visited') = Len(visited) + 1
      /\ visited'[Len(visited) + 1] =
            [source |-> Here.source, at |-> Here.at, after |-> after, active |-> Active]
      /\ \A p \in 1..Len(visited) : visited'[p] = visited[p]
  BY VisitAdds DEF WholeInv
<1>2. /\ Here = reading[Len(reading)] /\ Len(reading) \in Nat /\ Len(reading) >= 1
      /\ Here.source \in DOMAIN sources /\ Here.at <= Len(sources[Here.source])
  BY HereIsPlace DEF InSource
<1>3. Comes(Here)
  BY <1>2 DEF WholeInv
<1>4. visited'[Len(visited) + 1].source = Here.source /\ visited'[Len(visited) + 1].at = Here.at
  BY <1>1
<1>5. /\ Comes(visited'[Len(visited) + 1])
      /\ visited'[Len(visited) + 1].at <= Len(sources[visited'[Len(visited) + 1].source])
  BY <1>2, <1>3, <1>4 DEF Comes
<1>6. ASSUME NEW p \in 1..Len(visited') PROVE p \in 1..Len(visited) \/ p = Len(visited) + 1
  BY <1>1
<1> QED
  BY <1>1, <1>5, <1>6 DEF WholeInv

\* and goes on from one.
LEMMA WholeStep == ASSUME ReadingOK, WholeInv, [Next]_pvars PROVE WholeInv'
<1>s. ASSUME UNCHANGED sources, NEW place PROVE Comes(place)' = Comes(place)
  BY <1>s, SameBoundaries
<1>v. ASSUME UNCHANGED sources, UNCHANGED visited
      PROVE  /\ IsList(visited')
             /\ \A p \in 1..Len(visited') : /\ Comes(visited'[p])
                                            /\ visited'[p].at <= Len(sources[visited'[p].source])
  BY <1>v DEF WholeInv
<1>q. ASSUME UNCHANGED sources,
             \A k \in 1..Len(reading') : Comes(reading'[k]),
             IsList(visited'),
             \A p \in 1..Len(visited') : /\ Comes(visited'[p])
                                         /\ visited'[p].at <= Len(sources[visited'[p].source])
      PROVE  WholeInv'
  BY <1>q, <1>s DEF WholeInv
<1>1. CASE UNCHANGED pvars
  <2>1. UNCHANGED sources /\ UNCHANGED visited /\ reading' = reading
    BY <1>1 DEF pvars
  <2>2. \A k \in 1..Len(reading') : Comes(reading'[k])
    BY <2>1 DEF WholeInv
  <2> QED
    BY <1>q, <1>v, <2>1, <2>2
<1>2. CASE Fail
  <2>1. UNCHANGED sources /\ UNCHANGED visited /\ reading' = << >>
    BY <1>2 DEF Fail
  <2>2. \A k \in 1..Len(reading') : Comes(reading'[k])
    BY <2>1
  <2> QED
    BY <1>q, <1>v, <2>1, <2>2
<1>3. CASE Walks
  <2>1. PICK after \in Nat : Reached(Here.source, Here.at, after) /\ Consume(after)
    BY <1>3 DEF Walks
  <2>2. InSource /\ UNCHANGED sources /\ status = "running"
    BY <1>3 DEF Walks, InSource
  <2>3. /\ Here.source \in DOMAIN sources /\ Here.at \in 1..Len(sources[Here.source])
        /\ Here.at \in Nat /\ Here.at <= Len(sources[Here.source])
        /\ Here = reading[Len(reading)] /\ Len(reading) \in Nat /\ Len(reading) >= 1
    BY <2>2, HereIsToken, HereIsPlace DEF InSource
  <2>4. after >= 1
    BY <2>1, <2>3, ReachedIsAhead DEF ReadingOK
  <2>5. reading' = ReadOn(after) /\ Visit(after)
    BY <2>1 DEF Consume, ReadOn
  <2>6. Here.at \in Boundary(Here.source)
    BY <2>3 DEF WholeInv, Comes
  <2>7. after \in Boundary(Here.source)
    BY <2>1, <2>3, <2>6, ReachedIsBoundary DEF ReadingOK
  <2>8. /\ Len(reading') = Len(reading)
        /\ \A k \in 1..Len(reading) :
              /\ reading'[k].source = reading[k].source
              /\ reading'[k].at = IF k = Len(reading) THEN after ELSE reading[k].at
    BY <2>2, <2>4, <2>5, ReadOnKeeps
  <2>9. ASSUME NEW k \in 1..Len(reading') PROVE Comes(reading'[k])
    <3>1. Comes(reading[k])
      BY <2>8 DEF WholeInv
    <3>2. CASE k = Len(reading)
      BY <2>3, <2>7, <2>8, <3>2 DEF Comes
    <3>3. CASE k # Len(reading)
      BY <2>8, <3>1, <3>3 DEF Comes
    <3> QED
      BY <3>2, <3>3
  <2> QED
    BY <1>q, <2>2, <2>5, <2>9, WholeVisit
<1>4. CASE Enters
  <2> DEFINE after == LineAfter(Here.source, Here.at)
  <2>1. InSource /\ UNCHANGED sources /\ status = "running" /\ Directive = "include" /\ Visit(after)
    BY <1>4 DEF Enters, InSource
  <2>2. PICK included \in DOMAIN sources :
           reading' = Append(ReadOn(after), [source |-> included, at |-> 1])
    BY <1>4 DEF Enters, ReadOn
  <2>3. /\ Here.source \in DOMAIN sources /\ Here.at \in 1..Len(sources[Here.source]) /\ Here.at \in Nat
        /\ DirectiveAt(Here.source, Here.at) = "include" /\ Here.at <= Len(sources[Here.source])
        /\ Here = reading[Len(reading)] /\ Len(reading) \in Nat /\ Len(reading) >= 1
    BY <2>1, HereIsToken, HereIsPlace DEF InSource
  <2>4. after = Beyond(Here.source, Here.at)
    BY <2>3 DEF Beyond
  <2>5. after \in Nat /\ after >= 1
    BY <2>3, <2>4, BeyondIsAhead DEF ReadingOK
  <2>6. Here.at \in Boundary(Here.source)
    BY <2>3 DEF WholeInv, Comes
  <2>7. after \in Boundary(Here.source)
    BY <2>3, <2>4, <2>6, BoundaryIsClosed DEF ReadingOK
  <2> HIDE DEF after
  <2>8. /\ Len(reading') = Len(reading) + 1
        /\ reading'[Len(reading) + 1] = [source |-> included, at |-> 1]
        /\ \A k \in 1..Len(reading) : reading'[k] = ReadOn(after)[k]
    BY <2>1, <2>2, <2>5, EnteredKeeps
  <2>9. \A k \in 1..Len(reading) :
           /\ ReadOn(after)[k].source = reading[k].source
           /\ ReadOn(after)[k].at = IF k = Len(reading) THEN after ELSE reading[k].at
    BY <2>1, <2>5, ReadOnKeeps
  <2>10. Comes([source |-> included, at |-> 1])
    BY BoundaryIsClosed DEF Comes, ReadingOK
  <2>11. ASSUME NEW k \in 1..Len(reading) PROVE Comes(reading'[k])
    <3>1. Comes(reading[k])
      BY DEF WholeInv
    <3>2. CASE k = Len(reading)
      BY <2>3, <2>7, <2>8, <2>9, <3>2 DEF Comes
    <3>3. CASE k # Len(reading)
      BY <2>8, <2>9, <3>1, <3>3 DEF Comes
    <3> QED
      BY <3>2, <3>3
  <2>12. \A k \in 1..Len(reading') : Comes(reading'[k])
    <3>1. \A k \in 1..Len(reading') : k \in 1..Len(reading) \/ k = Len(reading) + 1
      BY <2>3, <2>8
    <3> QED
      BY <2>8, <2>10, <2>11, <3>1
  <2> QED
    BY <1>q, <2>1, <2>12, WholeVisit
<1>5. CASE Leaves
  <2>1. status = "running" /\ UNCHANGED sources /\ UNCHANGED visited /\ reading' = Front(reading)
    BY <1>5 DEF Leaves
  <2>2. /\ Len(reading') = Len(reading) - 1 /\ Len(reading) \in Nat
        /\ \A k \in 1..Len(reading) - 1 : reading'[k] = reading[k]
    BY <2>1, LeftKeeps, HereIsPlace
  <2>3. \A k \in 1..Len(reading') : k \in 1..Len(reading) /\ reading'[k] = reading[k]
    BY <2>2
  <2>4. \A k \in 1..Len(reading') : Comes(reading'[k])
    BY <2>3 DEF WholeInv
  <2> QED
    BY <1>q, <1>v, <2>1, <2>4
<1> QED
  BY <1>1, <1>2, <1>3, <1>4, <1>5, KindOfStep

\* What the walk has read and where it is.
LEMMA WholeAlways == Spec => []WholeInv
<1>1. Init => WholeInv
  BY WholeInit
<1>2. ReadingOK /\ WholeInv /\ [Next]_pvars => WholeInv'
  BY WholeStep
<1> QED
  BY <1>1, <1>2, ReadingAlways, PTL DEF Spec

\* Whatever the sources say, no step begins inside a definition, an inclusion or a
\* removal that another step read or passed over (continued_directive_after,
\* raw_line_after).
THEOREM DirectivesAlwaysWhole == Spec => []DirectivesStayWhole
<1>1. ReadingOK /\ WholeInv => DirectivesStayWhole
  <2> SUFFICES ASSUME ReadingOK, WholeInv,
                      NEW p \in DOMAIN visited, NEW q \in DOMAIN visited,
                      visited[q].source = visited[p].source
               PROVE  LET extent == CASE NamedAt(visited, p) = "define" ->
                                           ContinuedAfter(visited[p].source, visited[p].at)
                                      [] NamedAt(visited, p) \in {"include", "undef"} ->
                                           LineAfter(visited[p].source, visited[p].at)
                                      [] OTHER -> 0
                      IN  visited[q].at \notin visited[p].at + 1..extent - 1
    BY DEF DirectivesStayWhole
  <2> DEFINE s == visited[p].source
             j == visited[p].at
             i == visited[q].at
  <2>1. DOMAIN visited = 1..Len(visited)
    BY DEF WholeInv, IsList
  <2>2. /\ s \in DOMAIN sources /\ j \in Boundary(s) /\ i \in Boundary(s)
        /\ j <= Len(sources[s])
    BY <2>1 DEF WholeInv, Comes
  <2>3. NamedAt(visited, p) = DirectiveAt(s, j)
    BY DEF NamedAt
  <2>4. j < i => Beyond(s, j) <= i
    BY <2>2, BoundariesApart DEF ReadingOK
  <2>5. i \in Nat /\ j \in Nat /\ j >= 1 /\ Len(sources[s]) \in Nat
    BY <2>2, BoundaryIsClosed, TokensOf DEF ReadingOK
  <2>6. Beyond(s, j) \in Nat
    BY <2>2, <2>5, BeyondIsAhead DEF ReadingOK
  <2> HIDE DEF s, j, i
  <2>7. CASE DirectiveAt(s, j) = "define"
    <3>1. Beyond(s, j) = ContinuedAfter(s, j)
      BY <2>7 DEF Beyond
    <3>2. i \notin j + 1..ContinuedAfter(s, j) - 1
      BY <2>4, <2>5, <2>6, <3>1
    <3> QED
      BY <2>3, <2>7, <3>2 DEF s, j, i
  <2>8. CASE DirectiveAt(s, j) \in {"include", "undef"}
    <3>1. Beyond(s, j) = LineAfter(s, j) /\ DirectiveAt(s, j) # "define"
      BY <2>8 DEF Beyond
    <3>2. i \notin j + 1..LineAfter(s, j) - 1
      BY <2>4, <2>5, <2>6, <3>1
    <3> QED
      BY <2>3, <2>8, <3>1, <3>2 DEF s, j, i
  <2>9. CASE DirectiveAt(s, j) \notin {"define", "include", "undef"}
    <3>1. i \notin j + 1..0 - 1
      BY <2>5
    <3> QED
      BY <2>3, <2>9, <3>1 DEF s, j, i
  <2> QED
    BY <2>7, <2>8, <2>9
<1> QED
  BY <1>1, ReadingAlways, WholeAlways, PTL

-----------------------------------------------------------------------------
(* The macro table. *)

\* An entry has a name, a definition and whether it is live.
IsMacro(m) ==
    /\ m.active \in BOOLEAN /\ m.name \in STRING
    /\ m = [name |-> m.name, functionLike |-> m.functionLike, active |-> m.active,
            definition |-> m.definition, parameters |-> m.parameters, replacement |-> m.replacement]

\* A table lists entries, at most one of a name live.
MacroTable(table) ==
    /\ IsList(table)
    /\ \A m \in 1..Len(table) : IsMacro(table[m])
    /\ \A m, k \in 1..Len(table) :
          table[m].active /\ table[k].active /\ table[m].name = table[k].name => m = k

\* A function on an initial segment is a list.
LEMMA ListOfFunction ==
    ASSUME NEW n \in Nat, NEW f, f = [k \in 1..n |-> f[k]]
    PROVE  IsList(f) /\ Len(f) = n
<1> DEFINE R == {f[k] : k \in 1..n}
<1>1. f \in [1..n -> R]
  OBVIOUS
<1> HIDE DEF R
<1>2. f \in Seq(R)
  BY <1>1, SeqDef
<1>3. Len(f) = n
  BY <1>1, <1>2, LenProperties
<1> QED
  BY <1>2, <1>3 DEF IsList

\* What is found is live and of the name, and nothing is when nothing is found.
LEMMA FindMacroMeans ==
    ASSUME NEW table, IsList(table), NEW name
    PROVE  \/ /\ FindMacro(table, name) = 0
              /\ \A m \in 1..Len(table) : ~(table[m].active /\ table[m].name = name)
           \/ /\ FindMacro(table, name) \in 1..Len(table)
              /\ table[FindMacro(table, name)].active
              /\ table[FindMacro(table, name)].name = name
<1> DEFINE live == {m \in DOMAIN table : table[m].active /\ table[m].name = name}
<1>1. Len(table) \in Nat /\ DOMAIN table = 1..Len(table)
  BY DEF IsList
<1>2. FindMacro(table, name) = IF live = {} THEN 0 ELSE Max(live)
  BY DEF FindMacro
<1>3. CASE live = {}
  BY <1>1, <1>2, <1>3
<1>4. CASE live # {}
  <2>1. live \in SUBSET Nat /\ \A m \in live : m <= Len(table)
    BY <1>1
  <2>2. Max(live) \in live
    BY <1>1, <1>4, <2>1, GreatestMember
  <2> QED
    BY <1>1, <1>2, <1>4, <2>2
<1> QED
  BY <1>3, <1>4

\* The live entry of a name is the one found.
LEMMA FindMacroOfLive ==
    ASSUME NEW table, MacroTable(table), NEW m \in 1..Len(table), table[m].active
    PROVE  FindMacro(table, table[m].name) = m
<1> DEFINE f == FindMacro(table, table[m].name)
<1>1. f \in 1..Len(table) /\ table[f].active /\ table[f].name = table[m].name
  BY FindMacroMeans DEF MacroTable
<1> QED
  BY <1>1 DEF MacroTable

\* Retiring a name leaves its entry in the table, no longer live.
LEMMA RetireEntries ==
    ASSUME MacroTable(macros), NEW name
    PROVE  /\ IsList(Retire(name)) /\ Len(Retire(name)) = Len(macros) /\ Len(macros) \in Nat
           /\ \A m \in 1..Len(macros) :
                 /\ IsMacro(Retire(name)[m])
                 /\ Retire(name)[m].name = macros[m].name
                 /\ Retire(name)[m].definition = macros[m].definition
                 /\ Retire(name)[m].active <=> macros[m].active /\ macros[m].name # name
<1> DEFINE f == FindMacro(macros, name)
<1>1. Len(macros) \in Nat /\ DOMAIN macros = 1..Len(macros)
  BY DEF MacroTable, IsList
<1>2. Retire(name) = [m \in 1..Len(macros) |-> IF m = f THEN [macros[m] EXCEPT !.active = FALSE] ELSE macros[m]]
  BY <1>1 DEF Retire
<1>3. Retire(name) = [m \in 1..Len(macros) |-> Retire(name)[m]]
  BY <1>2
<1>4. IsList(Retire(name)) /\ Len(Retire(name)) = Len(macros)
  BY <1>1, <1>3, ListOfFunction
<1>5. ASSUME NEW m \in 1..Len(macros)
      PROVE  /\ IsMacro(Retire(name)[m])
             /\ Retire(name)[m].name = macros[m].name
             /\ Retire(name)[m].definition = macros[m].definition
             /\ Retire(name)[m].active <=> macros[m].active /\ macros[m].name # name
  <2> DEFINE old == macros[m]
             new == Retire(name)[m]
  <2>1. IsMacro(old)
    BY DEF MacroTable
  <2>2. m = f => old.active /\ old.name = name
    BY <1>1, FindMacroMeans DEF MacroTable
  <2>3. old.active /\ old.name = name => m = f
    BY FindMacroOfLive
  <2>4. new = IF m = f THEN [old EXCEPT !.active = FALSE] ELSE old
    BY <1>2
  <2> HIDE DEF old, new, f
  <2>5. CASE m = f
    <3>1. new = [name |-> old.name, functionLike |-> old.functionLike, active |-> FALSE,
                 definition |-> old.definition, parameters |-> old.parameters,
                 replacement |-> old.replacement]
      BY <2>1, <2>4, <2>5 DEF IsMacro
    <3>2. new.active = FALSE /\ new.name = old.name /\ new.definition = old.definition
      BY <3>1
    <3>3. new.name \in STRING
      BY <2>1, <3>2 DEF IsMacro
    <3>4. IsMacro(new)
      BY <3>1, <3>2, <3>3 DEF IsMacro
    <3> QED
      BY <2>2, <2>5, <3>2, <3>4 DEF old, new
  <2>6. CASE m # f
    BY <2>1, <2>3, <2>4, <2>6 DEF old, new
  <2> QED
    BY <2>5, <2>6
<1> QED
  BY <1>1, <1>4, <1>5

\* Removal leaves nothing to be found under the name, and all else as it was.
LEMMA RetireFinds ==
    ASSUME MacroTable(macros), NEW name
    PROVE  /\ MacroTable(Retire(name))
           /\ \A other : FindMacro(Retire(name), other)
                           = IF other = name THEN 0 ELSE FindMacro(macros, other)
<1> DEFINE table == Retire(name)
<1>1. /\ IsList(table) /\ Len(table) = Len(macros) /\ Len(macros) \in Nat
      /\ \A m \in 1..Len(macros) :
            /\ IsMacro(table[m]) /\ table[m].name = macros[m].name
            /\ table[m].active <=> macros[m].active /\ macros[m].name # name
  BY RetireEntries
<1> HIDE DEF table
<1>2. MacroTable(table)
  BY <1>1 DEF MacroTable
<1>3. ASSUME NEW other
      PROVE  FindMacro(table, other) = IF other = name THEN 0 ELSE FindMacro(macros, other)
  <2>1. \/ /\ FindMacro(table, other) = 0
           /\ \A m \in 1..Len(macros) : ~(table[m].active /\ table[m].name = other)
        \/ /\ FindMacro(table, other) \in 1..Len(macros)
           /\ table[FindMacro(table, other)].active
           /\ table[FindMacro(table, other)].name = other
    BY <1>1, FindMacroMeans
  <2>2. \/ /\ FindMacro(macros, other) = 0
           /\ \A m \in 1..Len(macros) : ~(macros[m].active /\ macros[m].name = other)
        \/ /\ FindMacro(macros, other) \in 1..Len(macros)
           /\ macros[FindMacro(macros, other)].active
           /\ macros[FindMacro(macros, other)].name = other
    BY FindMacroMeans DEF MacroTable
  <2>3. CASE other = name
    BY <1>1, <2>1, <2>3
  <2>4. CASE other # name /\ FindMacro(table, other) = 0
    BY <1>1, <2>1, <2>2, <2>4
  <2>5. CASE other # name /\ FindMacro(table, other) \in 1..Len(macros)
    <3> DEFINE m == FindMacro(table, other)
    <3>1. table[m].active /\ table[m].name = other /\ m \in 1..Len(macros)
      BY <2>1, <2>5
    <3>2. macros[m].active /\ macros[m].name = other
      BY <1>1, <3>1
    <3>3. FindMacro(macros, macros[m].name) = m
      BY <3>1, <3>2, FindMacroOfLive
    <3> QED
      BY <2>5, <3>2, <3>3
  <2> QED
    BY <2>1, <2>3, <2>4, <2>5
<1> QED
  BY <1>2, <1>3 DEF table

\* A definition is what is found under its name, and all else is as it was.
LEMMA AddFinds ==
    ASSUME MacroTable(macros), NEW macro, IsMacro(macro), macro.active
    PROVE  /\ MacroTable(AddMacro(macro)) /\ Len(macros) \in Nat
           /\ Len(AddMacro(macro)) = Len(macros) + 1
           /\ AddMacro(macro)[Len(macros) + 1] = macro
           /\ \A m \in 1..Len(macros) : AddMacro(macro)[m] = Retire(macro.name)[m]
           /\ \A other : FindMacro(AddMacro(macro), other)
                           = IF other = macro.name THEN Len(macros) + 1 ELSE FindMacro(macros, other)
<1> DEFINE retired == Retire(macro.name)
           table == AddMacro(macro)
           last == Len(macros) + 1
<1>1. /\ IsList(retired) /\ Len(retired) = Len(macros) /\ Len(macros) \in Nat
      /\ \A m \in 1..Len(macros) :
            retired[m].active <=> macros[m].active /\ macros[m].name # macro.name
      /\ \A m \in 1..Len(macros) : IsMacro(retired[m]) /\ retired[m].name = macros[m].name
  BY RetireEntries
<1>2. MacroTable(retired)
  BY RetireFinds
<1>3. table = Append(retired, macro)
  BY DEF AddMacro
<1> HIDE DEF retired, table
<1>4. /\ IsList(table) /\ Len(table) = last /\ table[last] = macro
      /\ \A m \in 1..Len(macros) : table[m] = retired[m]
  BY <1>1, <1>3, ListAppended
<1>5. \A m \in 1..last : m \in 1..Len(macros) \/ m = last
  BY <1>1
<1>6. \A m \in 1..Len(macros) : table[m].active => table[m].name # macro.name
  BY <1>1, <1>4
<1>7. ASSUME NEW m \in 1..last, NEW k \in 1..last,
             table[m].active, table[k].active, table[m].name = table[k].name
      PROVE  m = k
  <2>1. CASE m \in 1..Len(macros) /\ k \in 1..Len(macros)
    BY <1>1, <1>2, <1>4, <1>7, <2>1 DEF MacroTable
  <2>2. CASE m = last \/ k = last
    BY <1>4, <1>5, <1>6, <1>7, <2>2
  <2> QED
    BY <1>5, <2>1, <2>2
<1>8. \A m \in 1..last : IsMacro(table[m])
  BY <1>1, <1>4, <1>5
<1>9. MacroTable(table)
  BY <1>4, <1>7, <1>8 DEF MacroTable
<1>10. FindMacro(table, macro.name) = last
  <2>1. last \in 1..Len(table) /\ table[last].active /\ table[last].name = macro.name
    BY <1>1, <1>4
  <2> HIDE DEF last
  <2> QED
    BY <1>9, <2>1, FindMacroOfLive
<1>11. ASSUME NEW other, other # macro.name
       PROVE  FindMacro(table, other) = FindMacro(macros, other)
  <2>1. \/ /\ FindMacro(table, other) = 0
           /\ \A m \in 1..last : ~(table[m].active /\ table[m].name = other)
        \/ /\ FindMacro(table, other) \in 1..last
           /\ table[FindMacro(table, other)].active
           /\ table[FindMacro(table, other)].name = other
    BY <1>4, FindMacroMeans
  <2>2. FindMacro(retired, other) = FindMacro(macros, other)
    BY <1>11, RetireFinds DEF retired
  <2>3. \/ /\ FindMacro(retired, other) = 0
           /\ \A m \in 1..Len(macros) : ~(retired[m].active /\ retired[m].name = other)
        \/ /\ FindMacro(retired, other) \in 1..Len(macros)
           /\ retired[FindMacro(retired, other)].active
           /\ retired[FindMacro(retired, other)].name = other
    BY <1>1, FindMacroMeans
  <2>4. CASE FindMacro(retired, other) = 0
    <3>1. \A m \in 1..Len(macros) : ~(table[m].active /\ table[m].name = other)
      BY <1>1, <1>4, <2>3, <2>4
    <3>2. ~(table[last].name = other)
      BY <1>4, <1>11
    <3> QED
      BY <1>5, <2>1, <2>2, <2>4, <3>1, <3>2
  <2>5. CASE FindMacro(retired, other) \in 1..Len(macros)
    <3> DEFINE m == FindMacro(retired, other)
    <3>1. m \in 1..last /\ m \in 1..Len(macros)
      BY <1>1, <2>5
    <3>2. table[m].active /\ table[m].name = other
      BY <1>1, <1>4, <2>3, <2>5
    <3>3. FindMacro(table, table[m].name) = m
      BY <1>4, <1>9, <3>1, <3>2, FindMacroOfLive
    <3> QED
      BY <2>2, <3>2, <3>3
  <2> QED
    BY <2>3, <2>4, <2>5
<1> QED
  BY <1>1, <1>4, <1>9, <1>10, <1>11 DEF retired, table

-----------------------------------------------------------------------------
(* What was written, read back from the history. *)

\* The changes of a name in front of a place.
ChangesAt(v, name, p) ==
    {d \in 1..p - 1 : v[d].active /\ NamedAt(v, d) \in {"define", "undef"} /\ NameAt(v, d) = name}

\* What is live is a definition of the name, in a selected place in front.
LEMMA LiveAtMeans ==
    ASSUME NEW v, NEW name, NEW p \in Nat
    PROVE  \/ LiveAt(v, name, p) = 0
           \/ /\ LiveAt(v, name, p) \in 1..p - 1
              /\ NamedAt(v, LiveAt(v, name, p)) = "define"
              /\ NameAt(v, LiveAt(v, name, p)) = name
<1> DEFINE changes == ChangesAt(v, name, p)
           d == Max(changes)
<1>1. LiveAt(v, name, p) = IF changes = {} \/ NamedAt(v, d) = "undef" THEN 0 ELSE d
  BY DEF LiveAt, ChangesAt
<1>2. CASE changes = {}
  BY <1>1, <1>2
<1>3. CASE changes # {}
  <2>1. changes \in SUBSET Nat /\ \A x \in changes : x <= p
    BY DEF ChangesAt
  <2>2. d \in changes
    BY <1>3, <2>1, GreatestMember
  <2>3. d \in 1..p - 1 /\ NamedAt(v, d) \in {"define", "undef"} /\ NameAt(v, d) = name
    BY <2>2 DEF ChangesAt
  <2> HIDE DEF changes, d
  <2> QED
    BY <1>1, <1>3, <2>3
<1> QED
  BY <1>2, <1>3

\* It depends on what is in front only.
LEMMA LiveAtSame ==
    ASSUME NEW v, NEW w, NEW name, NEW p \in Nat, \A d \in 1..p - 1 : w[d] = v[d]
    PROVE  LiveAt(w, name, p) = LiveAt(v, name, p)
<1>1. \A d \in 1..p - 1 : NamedAt(w, d) = NamedAt(v, d) /\ NameAt(w, d) = NameAt(v, d)
  BY DEF NamedAt, NameAt
<1>2. ChangesAt(w, name, p) = ChangesAt(v, name, p)
  BY <1>1 DEF ChangesAt
<1> DEFINE changes == ChangesAt(v, name, p)
           d == Max(changes)
<1>3. /\ LiveAt(w, name, p) = IF changes = {} \/ NamedAt(w, d) = "undef" THEN 0 ELSE d
      /\ LiveAt(v, name, p) = IF changes = {} \/ NamedAt(v, d) = "undef" THEN 0 ELSE d
  BY <1>2 DEF LiveAt, ChangesAt
<1>4. CASE changes = {}
  BY <1>3, <1>4
<1>5. CASE changes # {}
  <2>1. changes \in SUBSET Nat /\ \A x \in changes : x <= p
    BY DEF ChangesAt
  <2>2. d \in changes
    BY <1>5, <2>1, GreatestMember
  <2>3. d \in 1..p - 1
    BY <2>2 DEF ChangesAt
  <2> HIDE DEF changes, d
  <2> QED
    BY <1>1, <1>3, <2>3
<1> QED
  BY <1>4, <1>5

\* A place more is the last change if it is one, and changes nothing otherwise.
LEMMA LiveAtNext ==
    ASSUME NEW v, NEW name, NEW n \in Nat
    PROVE  LiveAt(v, name, n + 2)
             = IF /\ v[n + 1].active /\ NamedAt(v, n + 1) \in {"define", "undef"}
                  /\ NameAt(v, n + 1) = name
               THEN IF NamedAt(v, n + 1) = "undef" THEN 0 ELSE n + 1
               ELSE LiveAt(v, name, n + 1)
<1> DEFINE changes == ChangesAt(v, name, n + 2)
           before == ChangesAt(v, name, n + 1)
           changed == /\ v[n + 1].active /\ NamedAt(v, n + 1) \in {"define", "undef"}
                      /\ NameAt(v, n + 1) = name
<1>1. /\ LiveAt(v, name, n + 2)
           = IF changes = {} \/ NamedAt(v, Max(changes)) = "undef" THEN 0 ELSE Max(changes)
      /\ LiveAt(v, name, n + 1)
           = IF before = {} \/ NamedAt(v, Max(before)) = "undef" THEN 0 ELSE Max(before)
  BY DEF LiveAt, ChangesAt
<1>2. \A d \in 1..n + 2 - 1 : d \in 1..n + 1 - 1 \/ d = n + 1
  OBVIOUS
<1>3. CASE ~changed
  <2>1. changes = before
    BY <1>2, <1>3 DEF ChangesAt
  <2> QED
    BY <1>1, <1>3, <2>1
<1>4. CASE changed
  <2>1. n + 1 \in changes
    BY <1>4 DEF ChangesAt
  <2>2. changes \in SUBSET Nat /\ \A x \in changes : x <= n + 1
    BY DEF ChangesAt
  <2>3. Max(changes) \in changes /\ \A x \in changes : x <= Max(changes)
    BY <2>1, <2>2, GreatestMember
  <2> HIDE DEF changes
  <2>4. Max(changes) \in Nat /\ Max(changes) <= n + 1 /\ n + 1 <= Max(changes)
    BY <2>1, <2>2, <2>3
  <2>5. Max(changes) = n + 1
    BY <2>4
  <2> QED
    BY <1>1, <1>4, <2>1, <2>5
<1> QED
  BY <1>3, <1>4

\* What a history says is read from the sources, which no step rewrites.
LEMMA SameReading ==
    ASSUME UNCHANGED sources, NEW v, NEW name, NEW p
    PROVE  /\ NamedAt(v, p)' = NamedAt(v, p) /\ NameAt(v, p)' = NameAt(v, p)
           /\ LiveAt(v, name, p)' = LiveAt(v, name, p)
<1>1. \A s, i : DirectiveAt(s, i)' = DirectiveAt(s, i)
  BY DEF DirectiveAt
<1>2. \A d : NamedAt(v, d)' = NamedAt(v, d) /\ NameAt(v, d)' = NameAt(v, d)
  BY <1>1 DEF NamedAt, NameAt
<1> QED
  BY <1>2 DEF LiveAt

-----------------------------------------------------------------------------
(* The live definitions. *)

\* The definition the text read so far leaves live under a name.
Written(name) == LiveAt(visited, name, Len(visited) + 1)

\* The table finds that one.
Agrees(name) ==
    LET m == FindMacro(macros, name)
        d == Written(name)
    IN  /\ m = 0 <=> d = 0
        /\ m # 0 => /\ macros[m].definition.source = visited[d].source
                    /\ macros[m].definition.at = visited[d].at

LiveInv == status = "running" => MacroTable(macros) /\ \A name \in STRING : Agrees(name)

\* The steps, by what they do to the table.
Passes ==
    /\ InSource /\ UNCHANGED <<sources, status, macros>> /\ \E after : Visit(after)
    /\ ~(Active /\ Directive \in {"define", "undef"})

Defines ==
    /\ InSource /\ Active /\ Directive = "define" /\ UNCHANGED <<sources, status>> /\ \E after : Visit(after)
    /\ \E macro : /\ IsMacro(macro) /\ macro.active /\ macro.name = Operand
                  /\ macro.definition = FromSource(Here.source, Here.at)
                  /\ macros' = AddMacro(macro)

Removes ==
    /\ InSource /\ Active /\ Directive = "undef" /\ UNCHANGED <<sources, status>> /\ \E after : Visit(after)
    /\ macros' = Retire(Operand)

\* What a definition says.
LEMMA DefinitionMeans ==
    ASSUME NEW s, NEW i, Definition(s, i).ok, sources[s][i + 2].text \in STRING
    PROVE  LET macro == Definition(s, i).macro
           IN  /\ IsMacro(macro) /\ macro.active /\ macro.name = sources[s][i + 2].text
               /\ macro.definition = FromSource(s, i)
<1> DEFINE macro == Definition(s, i).macro
<1>1. \E functionLike, parameters, replacement :
         macro = [name |-> sources[s][i + 2].text, functionLike |-> functionLike, active |-> TRUE,
                  definition |-> FromSource(s, i), parameters |-> parameters,
                  replacement |-> replacement]
  BY DEF Definition
<1> HIDE DEF macro
<1>2. PICK functionLike, parameters, replacement :
         macro = [name |-> sources[s][i + 2].text, functionLike |-> functionLike, active |-> TRUE,
                  definition |-> FromSource(s, i), parameters |-> parameters,
                  replacement |-> replacement]
  BY <1>1
<1>3. /\ macro.active = TRUE /\ macro.name = sources[s][i + 2].text /\ macro.definition = FromSource(s, i)
      /\ macro.functionLike = functionLike /\ macro.parameters = parameters
      /\ macro.replacement = replacement
  BY <1>2
<1>4. IsMacro(macro)
  BY <1>2, <1>3 DEF IsMacro
<1> QED
  BY <1>3, <1>4 DEF macro

\* The operand of a directive is a text.
LEMMA OperandIsText ==
    ASSUME ReadingOK, InSource, Directive # "none"
    PROVE  Operand \in STRING
<1>1. /\ Here.source \in DOMAIN sources /\ Here.at \in 1..Len(sources[Here.source])
      /\ Directive = DirectiveAt(Here.source, Here.at) /\ Here.at \in Nat /\ Here.at >= 1
  BY HereIsToken, HereIsPlace
<1>2. Here.at + 2 \in 1..Len(sources[Here.source])
  BY <1>1, DirectiveTokens DEF ReadingOK
<1> QED
  BY <1>1, <1>2, TokensOf DEF ReadingOK, Operand

\* Each action is one of these steps.
LEMMA TableSteps ==
    ASSUME ReadingOK, [Next]_pvars
    PROVE  UNCHANGED pvars \/ Fail \/ Leaves \/ Passes \/ Defines \/ Removes
<1> DEFINE s == Here.source
           at == Here.at
<1>c. ASSUME NEW after, Consume(after) PROVE \E x : Visit(x)
  BY <1>c DEF Consume
<1>1. CASE OpenConditional
  <2>1. InSource /\ Directive \in {"ifdef", "ifndef"} /\ UNCHANGED <<sources, status, macros>> /\ Consume(at + 3)
    BY <1>1 DEF OpenConditional, OnlyConditionals
  <2> QED
    BY <2>1, <1>c DEF Passes
<1>2. CASE ElsifBranch
  <2>1. InSource /\ Directive = "elsif" /\ UNCHANGED <<sources, status, macros>> /\ Consume(at + 3)
    BY <1>2 DEF ElsifBranch, OnlyConditionals
  <2> QED
    BY <2>1, <1>c DEF Passes
<1>3. CASE ElseBranch
  <2>1. InSource /\ Directive = "else" /\ UNCHANGED <<sources, status, macros>> /\ Consume(at + 2)
    BY <1>3 DEF ElseBranch, OnlyConditionals
  <2> QED
    BY <2>1, <1>c DEF Passes
<1>4. CASE CloseConditional
  <2>1. InSource /\ Directive = "endif" /\ UNCHANGED <<sources, status, macros>> /\ Consume(at + 2)
    BY <1>4 DEF CloseConditional, OnlyConditionals
  <2> QED
    BY <2>1, <1>c DEF Passes
<1>5. CASE RejectConditional
  BY <1>5 DEF RejectConditional
<1>6. CASE Skip
  <2> DEFINE after == CASE Directive = "define" -> ContinuedAfter(s, at)
                        [] Directive \in {"include", "undef"} -> LineAfter(s, at)
                        [] OTHER -> at + 1
  <2>1. InSource /\ ~Active /\ UNCHANGED <<sources, status, macros>> /\ Consume(after)
    BY <1>6 DEF Skip
  <2> HIDE DEF after
  <2> QED
    BY <2>1, <1>c DEF Passes
<1>7. CASE DefineMacro
  <2> DEFINE definition == Definition(s, at)
  <2>1. CASE ~definition.ok
    BY <1>7, <2>1 DEF DefineMacro
  <2>2. CASE definition.ok
    <3>1. /\ InSource /\ Active /\ Directive = "define" /\ UNCHANGED <<sources, status>>
          /\ macros' = AddMacro(definition.macro) /\ Consume(ContinuedAfter(s, at))
      BY <1>7, <2>2 DEF DefineMacro
    <3>2. Operand = sources[s][at + 2].text /\ sources[s][at + 2].text \in STRING
      BY <3>1, OperandIsText DEF Operand
    <3>3. /\ IsMacro(definition.macro) /\ definition.macro.active /\ definition.macro.name = Operand
          /\ definition.macro.definition = FromSource(s, at)
      BY <2>2, <3>2, DefinitionMeans
    <3> HIDE DEF definition
    <3> QED
      BY <1>c, <3>1, <3>3 DEF Defines
  <2> QED
    BY <2>1, <2>2
<1>8. CASE UndefineMacro
  <2>1. CASE Operand \notin Identifiers \/ LineAfter(s, at) = at + 2
    BY <1>8, <2>1 DEF UndefineMacro
  <2>2. CASE ~(Operand \notin Identifiers \/ LineAfter(s, at) = at + 2)
    <3>1. /\ InSource /\ Active /\ Directive = "undef" /\ UNCHANGED <<sources, status>>
          /\ macros' = Retire(Operand) /\ Consume(LineAfter(s, at))
      BY <1>8, <2>2 DEF UndefineMacro
    <3> QED
      BY <1>c, <3>1 DEF Removes
  <2> QED
    BY <2>1, <2>2
<1>9. CASE IncludeSource /\ ~Fail
  <2>1. InSource /\ Directive = "include"
    BY <1>9 DEF IncludeSource
  <2>2. UNCHANGED <<sources, status, macros>> /\ \E after : Visit(after)
    BY <1>9 DEF IncludeSource
  <2> QED
    BY <2>1, <2>2 DEF Passes
<1>10. CASE ExpandSegment
  <2> DEFINE after == SegmentAfter(s, at)
             next == IF after = at THEN after + 1 ELSE after
  <2>1. InSource /\ Directive = "none"
    BY <1>10 DEF ExpandSegment
  <2>2. Fail \/ (Consume(next) /\ UNCHANGED <<sources, status, macros>>)
    BY <1>10 DEF ExpandSegment
  <2> HIDE DEF next
  <2> QED
    BY <1>c, <2>1, <2>2 DEF Passes
<1>11. CASE EndSource
  <2>1. CASE Len(reading) = 1 /\ conditionals # << >>
    BY <1>11, <2>1 DEF EndSource
  <2>2. CASE ~(Len(reading) = 1 /\ conditionals # << >>)
    BY <1>11, <2>2 DEF EndSource, Leaves
  <2> QED
    BY <2>1, <2>2
<1>12. CASE Stopped
  BY <1>12 DEF Stopped
<1>13. CASE UNCHANGED pvars
  BY <1>13
<1> QED
  BY <1>1, <1>2, <1>3, <1>4, <1>5, <1>6, <1>7, <1>8, <1>9, <1>10, <1>11, <1>12, <1>13 DEF Next

\* A visit writes a change of a name if it stands in a selected place.
LEMMA WrittenNext ==
    ASSUME ReadingOK, WholeInv, InSource, UNCHANGED sources, NEW after, Visit(after), NEW name
    PROVE  /\ Len(visited) \in Nat
           /\ Written(name)' = IF Active /\ Directive \in {"define", "undef"} /\ Operand = name
                               THEN IF Directive = "undef" THEN 0 ELSE Len(visited) + 1
                               ELSE Written(name)
           /\ visited'[Len(visited) + 1].source = Here.source
           /\ visited'[Len(visited) + 1].at = Here.at
           /\ Written(name) # 0 => visited'[Written(name)] = visited[Written(name)]
<1> DEFINE n == Len(visited)
<1>1. /\ n \in Nat /\ Len(visited') = n + 1
      /\ visited'[n + 1] = [source |-> Here.source, at |-> Here.at, after |-> after, active |-> Active]
      /\ \A p \in 1..n : visited'[p] = visited[p]
  BY VisitAdds DEF WholeInv
<1>2. /\ visited'[n + 1].source = Here.source /\ visited'[n + 1].at = Here.at
      /\ visited'[n + 1].active = Active
  BY <1>1
<1>3. NamedAt(visited', n + 1) = Directive /\ NameAt(visited', n + 1) = Operand
  BY <1>2, HereIsToken DEF NamedAt, NameAt, Operand
<1>4. LiveAt(visited', name, n + 1) = LiveAt(visited, name, n + 1)
  <2>1. n + 1 \in Nat /\ \A d \in 1..n + 1 - 1 : visited'[d] = visited[d]
    BY <1>1
  <2> QED
    BY <2>1, LiveAtSame
<1>5. LiveAt(visited', name, n + 2)
        = IF /\ visited'[n + 1].active /\ NamedAt(visited', n + 1) \in {"define", "undef"}
             /\ NameAt(visited', n + 1) = name
          THEN IF NamedAt(visited', n + 1) = "undef" THEN 0 ELSE n + 1
          ELSE LiveAt(visited', name, n + 1)
  BY <1>1, LiveAtNext
<1>6. Written(name)' = LiveAt(visited', name, n + 2)
  <2>1. Written(name)' = LiveAt(visited, name, Len(visited) + 1)'
    BY DEF Written
  <2>2. \A v, p : LiveAt(v, name, p)' = LiveAt(v, name, p)
    BY SameReading
  <2>3. Len(visited') + 1 = n + 2
    BY <1>1
  <2> QED
    BY <2>1, <2>2, <2>3
<1>7. Written(name) = LiveAt(visited, name, n + 1)
  BY DEF Written
<1>8. Written(name) # 0 => Written(name) \in 1..n
  <2>1. n + 1 \in Nat /\ 1..n + 1 - 1 = 1..n
    BY <1>1
  <2> QED
    BY <1>7, <2>1, LiveAtMeans
<1> QED
  BY <1>1, <1>2, <1>3, <1>4, <1>5, <1>6, <1>7, <1>8

\* The table agrees with an empty text,
LEMMA LiveInit == Init => LiveInv
<1> SUFFICES ASSUME Init PROVE LiveInv
  OBVIOUS
<1>1. macros = << >> /\ visited = << >>
  BY DEF Init
<1>2. MacroTable(macros)
  BY <1>1 DEF MacroTable, IsList
<1>3. ASSUME NEW name PROVE Agrees(name)
  <2>1. FindMacro(macros, name) = 0
    <3>1. Len(macros) = 0
      BY <1>1
    <3> QED
      BY <1>2, <3>1, FindMacroMeans DEF MacroTable
  <2>2. Written(name) = 0
    <3>1. Len(visited) + 1 = 1 /\ 1..1 - 1 = {}
      BY <1>1
    <3> QED
      BY <3>1, LiveAtMeans DEF Written
  <2> QED
    BY <2>1, <2>2 DEF Agrees
<1> QED
  BY <1>2, <1>3 DEF LiveInv

\* and every step keeps them so.
LEMMA LiveStep == ASSUME ReadingOK, WholeInv, LiveInv, [Next]_pvars PROVE LiveInv'
<1>1. CASE UNCHANGED pvars
  <2>1. \A v, name, p : LiveAt(v, name, p)' = LiveAt(v, name, p)
    BY <1>1, SameReading DEF pvars
  <2> QED
    BY <1>1, <2>1 DEF LiveInv, Agrees, Written, pvars
<1>2. CASE Fail
  BY <1>2 DEF Fail, LiveInv
<1>3. CASE Leaves
  <2>1. status = "running" /\ UNCHANGED <<sources, macros, visited>>
    BY <1>3 DEF Leaves
  <2>2. \A v, name, p : LiveAt(v, name, p)' = LiveAt(v, name, p)
    BY <2>1, SameReading
  <2> QED
    BY <2>1, <2>2 DEF LiveInv, Agrees, Written
<1>4. CASE Passes
  <2>1. /\ InSource /\ status = "running" /\ UNCHANGED <<sources, status, macros>>
        /\ ~(Active /\ Directive \in {"define", "undef"})
    BY <1>4 DEF Passes, InSource
  <2>2. PICK after : Visit(after)
    BY <1>4 DEF Passes
  <2>3. ASSUME NEW name \in STRING PROVE Agrees(name)'
    <3>1. Written(name)' = Written(name)
      BY <2>1, <2>2, WrittenNext
    <3>2. Written(name) # 0 => visited'[Written(name)] = visited[Written(name)]
      BY <2>1, <2>2, WrittenNext
    <3>3. Agrees(name)
      BY <2>1 DEF LiveInv
    <3> QED
      BY <2>1, <3>1, <3>2, <3>3 DEF Agrees
  <2> QED
    BY <2>1, <2>3 DEF LiveInv
<1>5. CASE Defines
  <2>1. /\ InSource /\ status = "running" /\ UNCHANGED <<sources, status>>
        /\ Active /\ Directive = "define"
    BY <1>5 DEF Defines, InSource
  <2>2. PICK after : Visit(after)
    BY <1>5 DEF Defines
  <2>3. PICK macro : /\ IsMacro(macro) /\ macro.active /\ macro.name = Operand
                     /\ macro.definition = FromSource(Here.source, Here.at)
                     /\ macros' = AddMacro(macro)
    BY <1>5 DEF Defines
  <2>4. MacroTable(macros)
    BY <2>1 DEF LiveInv
  <2>5. /\ MacroTable(macros') /\ Len(macros) \in Nat /\ macros'[Len(macros) + 1] = macro
        /\ \A m \in 1..Len(macros) : macros'[m].definition = macros[m].definition
        /\ \A other : FindMacro(macros', other)
                        = IF other = Operand THEN Len(macros) + 1 ELSE FindMacro(macros, other)
    BY <2>3, <2>4, AddFinds, RetireEntries
  <2>6. ASSUME NEW name \in STRING PROVE Agrees(name)'
    <3>1. /\ Len(visited) \in Nat
          /\ Written(name)' = IF Operand = name THEN Len(visited) + 1 ELSE Written(name)
          /\ visited'[Len(visited) + 1].source = Here.source /\ visited'[Len(visited) + 1].at = Here.at
          /\ Written(name) # 0 => visited'[Written(name)] = visited[Written(name)]
      BY <2>1, <2>2, WrittenNext
    <3>2. FindMacro(macros, name)' = FindMacro(macros', name)
      BY DEF FindMacro
    <3>3. CASE name = Operand
      <4>1. Written(name)' = Len(visited) + 1 /\ FindMacro(macros, name)' = Len(macros) + 1
        BY <2>5, <3>1, <3>2, <3>3
      <4>2. /\ macros'[Len(macros) + 1].definition.source = Here.source
            /\ macros'[Len(macros) + 1].definition.at = Here.at
        BY <2>3, <2>5 DEF FromSource
      <4> QED
        BY <2>5, <3>1, <4>1, <4>2 DEF Agrees
    <3>4. CASE name # Operand
      <4>1. Written(name)' = Written(name) /\ FindMacro(macros, name)' = FindMacro(macros, name)
        BY <2>5, <3>1, <3>2, <3>4
      <4>2. FindMacro(macros, name) # 0 => FindMacro(macros, name) \in 1..Len(macros)
        BY <2>4, FindMacroMeans DEF MacroTable
      <4>3. Agrees(name)
        BY <2>1 DEF LiveInv
      <4> QED
        BY <2>5, <3>1, <4>1, <4>2, <4>3 DEF Agrees
    <3> QED
      BY <3>3, <3>4
  <2>7. MacroTable(macros)' = MacroTable(macros')
    BY DEF MacroTable
  <2> QED
    BY <2>5, <2>6, <2>7 DEF LiveInv
<1>6. CASE Removes
  <2>1. /\ InSource /\ status = "running" /\ UNCHANGED <<sources, status>>
        /\ Active /\ Directive = "undef" /\ macros' = Retire(Operand)
    BY <1>6 DEF Removes, InSource
  <2>2. PICK after : Visit(after)
    BY <1>6 DEF Removes
  <2>4. MacroTable(macros)
    BY <2>1 DEF LiveInv
  <2>5. /\ MacroTable(macros') /\ Len(macros) \in Nat
        /\ \A m \in 1..Len(macros) : macros'[m].definition = macros[m].definition
        /\ \A other : FindMacro(macros', other)
                        = IF other = Operand THEN 0 ELSE FindMacro(macros, other)
    BY <2>1, <2>4, RetireFinds, RetireEntries
  <2>6. ASSUME NEW name \in STRING PROVE Agrees(name)'
    <3>1. /\ Written(name)' = IF Operand = name THEN 0 ELSE Written(name)
          /\ Written(name) # 0 => visited'[Written(name)] = visited[Written(name)]
      BY <2>1, <2>2, WrittenNext
    <3>2. FindMacro(macros, name)' = FindMacro(macros', name)
      BY DEF FindMacro
    <3>3. CASE name = Operand
      BY <2>5, <3>1, <3>2, <3>3 DEF Agrees
    <3>4. CASE name # Operand
      <4>1. Written(name)' = Written(name) /\ FindMacro(macros, name)' = FindMacro(macros, name)
        BY <2>5, <3>1, <3>2, <3>4
      <4>2. FindMacro(macros, name) # 0 => FindMacro(macros, name) \in 1..Len(macros)
        BY <2>4, FindMacroMeans DEF MacroTable
      <4>3. Agrees(name)
        BY <2>1 DEF LiveInv
      <4> QED
        BY <2>5, <3>1, <4>1, <4>2, <4>3 DEF Agrees
    <3> QED
      BY <3>3, <3>4
  <2>7. MacroTable(macros)' = MacroTable(macros')
    BY DEF MacroTable
  <2> QED
    BY <2>5, <2>6, <2>7 DEF LiveInv
<1> QED
  BY <1>1, <1>2, <1>3, <1>4, <1>5, <1>6, TableSteps

\* A table that agrees with the text shows the definitions it leaves live.
LEMMA LiveInvMeans == ASSUME ReadingOK, WholeInv, LiveInv PROVE LiveDefinitions
<1> SUFFICES ASSUME status = "running"
             PROVE  {<<macros[m].definition.source, macros[m].definition.at>> :
                       m \in {k \in DOMAIN macros : macros[k].active}}
                    = {<<visited[d].source, visited[d].at>> :
                         d \in {k \in DOMAIN visited :
                                  /\ NamedAt(visited, k) = "define"
                                  /\ LiveAt(visited, NameAt(visited, k), Len(visited) + 1) = k}}
  BY DEF LiveDefinitions
<1>1. /\ MacroTable(macros) /\ \A name \in STRING : Agrees(name)
      /\ Len(macros) \in Nat /\ DOMAIN macros = 1..Len(macros)
  BY DEF LiveInv, MacroTable, IsList
<1>2. Len(visited) \in Nat /\ DOMAIN visited = 1..Len(visited)
  BY DEF WholeInv, IsList
<1>3. ASSUME NEW m \in DOMAIN macros, macros[m].active
      PROVE  \E d \in DOMAIN visited :
                /\ NamedAt(visited, d) = "define"
                /\ LiveAt(visited, NameAt(visited, d), Len(visited) + 1) = d
                /\ macros[m].definition.source = visited[d].source
                /\ macros[m].definition.at = visited[d].at
  <2> DEFINE name == macros[m].name
             d == Written(name)
  <2>1. name \in STRING /\ FindMacro(macros, name) = m /\ m # 0
    BY <1>1, <1>3, FindMacroOfLive DEF MacroTable, IsMacro
  <2>2. /\ d # 0 /\ macros[m].definition.source = visited[d].source
        /\ macros[m].definition.at = visited[d].at
    BY <1>1, <2>1 DEF Agrees
  <2>3. d \in 1..Len(visited) + 1 - 1 /\ NamedAt(visited, d) = "define" /\ NameAt(visited, d) = name
    <3>1. Len(visited) + 1 \in Nat
      BY <1>2
    <3> QED
      BY <2>2, <3>1, LiveAtMeans DEF Written
  <2>4. d \in DOMAIN visited
    BY <1>2, <2>3
  <2>5. LiveAt(visited, NameAt(visited, d), Len(visited) + 1) = d
    BY <2>3 DEF Written
  <2> QED
    BY <2>2, <2>3, <2>4, <2>5
<1>4. ASSUME NEW d \in DOMAIN visited, NamedAt(visited, d) = "define",
             LiveAt(visited, NameAt(visited, d), Len(visited) + 1) = d
      PROVE  \E m \in DOMAIN macros :
                /\ macros[m].active
                /\ macros[m].definition.source = visited[d].source
                /\ macros[m].definition.at = visited[d].at
  <2> DEFINE name == NameAt(visited, d)
             m == FindMacro(macros, name)
  <2>1. name \in STRING
    <3>1. /\ visited[d].source \in DOMAIN sources /\ visited[d].at \in Nat /\ visited[d].at >= 1
          /\ DirectiveAt(visited[d].source, visited[d].at) = "define"
      BY <1>2, <1>4, BoundaryIsClosed DEF WholeInv, Comes, NamedAt, ReadingOK
    <3>2. visited[d].at + 2 \in 1..Len(sources[visited[d].source])
      BY <3>1, DirectiveTokens DEF ReadingOK
    <3> QED
      BY <3>1, <3>2, TokensOf DEF NameAt, ReadingOK
  <2>2. Written(name) = d /\ d # 0
    BY <1>2, <1>4 DEF Written
  <2>3. /\ m # 0 /\ macros[m].definition.source = visited[d].source
        /\ macros[m].definition.at = visited[d].at
    BY <1>1, <2>1, <2>2 DEF Agrees
  <2>4. m \in DOMAIN macros /\ macros[m].active
    BY <1>1, <2>3, FindMacroMeans DEF MacroTable
  <2> QED
    BY <2>3, <2>4
<1> QED
  BY <1>3, <1>4

\* The table agrees with the text.
LEMMA LiveAlways == Spec => []LiveInv
<1>1. Init => LiveInv
  BY LiveInit
<1>2. ReadingOK /\ WholeInv /\ LiveInv /\ [Next]_pvars => LiveInv'
  BY LiveStep
<1> QED
  BY <1>1, <1>2, ReadingAlways, WholeAlways, PTL DEF Spec

\* For all sources the live entries of the macro table are the definitions the text
\* leaves live, through any redefinitions, removals, branches and inclusions
\* (add_macro, undefine_macro, find_macro).
THEOREM DefinitionsAlwaysLive == Spec => []LiveDefinitions
<1>1. ReadingOK /\ WholeInv /\ LiveInv => LiveDefinitions
  BY LiveInvMeans
<1> QED
  BY <1>1, ReadingAlways, WholeAlways, LiveAlways, PTL

-----------------------------------------------------------------------------
(* The open conditionals, read back from the history. *)

Openers(v, q, r) == Cardinality({k \in q..r : NamedAt(v, k) \in {"ifdef", "ifndef"}})
Closers(v, q, r) == Cardinality({k \in q..r : NamedAt(v, k) = "endif"})

\* Whether the last alternative of a conditional in front of a place is the first that
\* holds, and whether one of them holds.
Chosen(v, q, p) == \A b \in BranchesOf(v, q, p) : HoldsAt(v, b) <=> b = Max(BranchesOf(v, q, p))
Taken(v, q, p) == \E b \in BranchesOf(v, q, p) : HoldsAt(v, b)

\* A range has one member more when it reaches one place further.
LEMMA CountNext ==
    ASSUME NEW S, NEW q \in Nat, NEW n \in Nat, q <= n + 1
    PROVE  /\ Cardinality(S \intersect (q..n)) \in Nat
           /\ Cardinality(S \intersect (q..n + 1))
                = Cardinality(S \intersect (q..n)) + IF n + 1 \in S THEN 1 ELSE 0
<1> DEFINE before == S \intersect (q..n)
           after == S \intersect (q..n + 1)
<1>1. IsFiniteSet(before)
  <2>1. IsFiniteSet(q..n)
    BY FS_Interval
  <2> QED
    BY <2>1, FS_Subset
<1>2. Cardinality(before) \in Nat
  BY <1>1, FS_CardinalityType
<1>3. n + 1 \notin before
  OBVIOUS
<1>4. \A k \in q..n + 1 : k \in q..n \/ k = n + 1
  OBVIOUS
<1>5. CASE n + 1 \in S
  <2>1. after = before \cup {n + 1}
    BY <1>4, <1>5
  <2>2. Cardinality(before \cup {n + 1}) = Cardinality(before) + 1
    BY <1>1, <1>3, FS_AddElement
  <2> QED
    BY <1>2, <1>5, <2>1, <2>2
<1>6. CASE n + 1 \notin S
  <2>1. after = before
    BY <1>4, <1>6
  <2> HIDE DEF after, before
  <2>2. Cardinality(after) = Cardinality(before) + 0
    BY <1>2, <2>1
  <2> QED
    BY <1>2, <1>6, <2>2 DEF after, before
<1> QED
  BY <1>5, <1>6

\* The openers and closers up to one place further.
LEMMA CountsNext ==
    ASSUME NEW v, NEW q \in Nat, NEW n \in Nat, q <= n + 1
    PROVE  /\ Openers(v, q, n) \in Nat /\ Closers(v, q, n) \in Nat
           /\ Openers(v, q, n + 1)
                = Openers(v, q, n) + IF NamedAt(v, n + 1) \in {"ifdef", "ifndef"} THEN 1 ELSE 0
           /\ Closers(v, q, n + 1)
                = Closers(v, q, n) + IF NamedAt(v, n + 1) = "endif" THEN 1 ELSE 0
<1> DEFINE O == {k \in Nat : NamedAt(v, k) \in {"ifdef", "ifndef"}}
           C == {k \in Nat : NamedAt(v, k) = "endif"}
<1>1. ASSUME NEW r \in Nat
      PROVE  /\ Openers(v, q, r) = Cardinality(O \intersect (q..r))
             /\ Closers(v, q, r) = Cardinality(C \intersect (q..r))
  <2>1. {k \in q..r : NamedAt(v, k) \in {"ifdef", "ifndef"}} = O \intersect (q..r)
    OBVIOUS
  <2>2. {k \in q..r : NamedAt(v, k) = "endif"} = C \intersect (q..r)
    OBVIOUS
  <2> QED
    BY <2>1, <2>2 DEF Openers, Closers
<1>2. n + 1 \in Nat
  OBVIOUS
<1>3. /\ Openers(v, q, n) = Cardinality(O \intersect (q..n))
      /\ Closers(v, q, n) = Cardinality(C \intersect (q..n))
      /\ Openers(v, q, n + 1) = Cardinality(O \intersect (q..n + 1))
      /\ Closers(v, q, n + 1) = Cardinality(C \intersect (q..n + 1))
  <2> HIDE DEF O, C
  <2> QED
    BY <1>1, <1>2
<1>4. /\ n + 1 \in O <=> NamedAt(v, n + 1) \in {"ifdef", "ifndef"}
      /\ n + 1 \in C <=> NamedAt(v, n + 1) = "endif"
  BY <1>2
<1> HIDE DEF O, C
<1>5. /\ Cardinality(O \intersect (q..n)) \in Nat
      /\ Cardinality(O \intersect (q..n + 1))
           = Cardinality(O \intersect (q..n)) + IF n + 1 \in O THEN 1 ELSE 0
  BY CountNext
<1>6. /\ Cardinality(C \intersect (q..n)) \in Nat
      /\ Cardinality(C \intersect (q..n + 1))
           = Cardinality(C \intersect (q..n)) + IF n + 1 \in C THEN 1 ELSE 0
  BY CountNext
<1>7. /\ Openers(v, q, n) \in Nat
      /\ Openers(v, q, n + 1) = Openers(v, q, n) + IF n + 1 \in O THEN 1 ELSE 0
  BY <1>3, <1>5
<1>8. /\ Closers(v, q, n) \in Nat
      /\ Closers(v, q, n + 1) = Closers(v, q, n) + IF n + 1 \in C THEN 1 ELSE 0
  BY <1>3, <1>6
<1>9. Openers(v, q, n + 1)
        = Openers(v, q, n) + IF NamedAt(v, n + 1) \in {"ifdef", "ifndef"} THEN 1 ELSE 0
  BY <1>4, <1>7
<1>10. Closers(v, q, n + 1)
        = Closers(v, q, n) + IF NamedAt(v, n + 1) = "endif" THEN 1 ELSE 0
  BY <1>4, <1>8
<1> QED
  BY <1>7, <1>8, <1>9, <1>10

\* What is open behind a place: what was in front of it and is not closed by it, and
\* the place itself if it opens one.
LEMMA OpenAtNext ==
    ASSUME NEW v, NEW n \in Nat
    PROVE  OpenAt(v, n + 2)
             = {q \in OpenAt(v, n + 1) : Closers(v, q, n + 1) < Openers(v, q, n + 1)}
               \cup (IF NamedAt(v, n + 1) \in {"ifdef", "ifndef"} THEN {n + 1} ELSE {})
<1> DEFINE Opens(q) == NamedAt(v, q) \in {"ifdef", "ifndef"}
           Ahead(q, r) == Closers(v, q, r) < Openers(v, q, r)
<1>1. \A p : OpenAt(v, p) = {q \in 1..p - 1 : Opens(q) /\ \A r \in q..p - 1 : Ahead(q, r)}
  BY DEF OpenAt, Openers, Closers
<1>2. Opens(n + 1) => Ahead(n + 1, n + 1)
  <2>1. {k \in n + 1..n : NamedAt(v, k) = "endif"} = {}
        /\ {k \in n + 1..n : NamedAt(v, k) \in {"ifdef", "ifndef"}} = {}
    OBVIOUS
  <2>2. Closers(v, n + 1, n) = 0 /\ Openers(v, n + 1, n) = 0
    BY <2>1, FS_EmptySet DEF Openers, Closers
  <2>3. n + 1 \in Nat
    OBVIOUS
  <2> QED
    BY <2>2, <2>3, CountsNext
<1> HIDE DEF Opens, Ahead
<1>3. ASSUME NEW q PROVE q \in OpenAt(v, n + 2)
                           <=> \/ q \in OpenAt(v, n + 1) /\ Ahead(q, n + 1)
                               \/ q = n + 1 /\ Opens(n + 1)
  <2>1. /\ OpenAt(v, n + 2) = {x \in 1..n + 1 : Opens(x) /\ \A r \in x..n + 1 : Ahead(x, r)}
        /\ OpenAt(v, n + 1) = {x \in 1..n : Opens(x) /\ \A r \in x..n : Ahead(x, r)}
    <3>1. n + 2 - 1 = n + 1 /\ n + 1 - 1 = n
      OBVIOUS
    <3> QED
      BY <1>1, <3>1
  <2>2. CASE q \in 1..n
    <3>1. \A r : r \in q..n + 1 <=> r \in q..n \/ r = n + 1
      BY <2>2
    <3>2. q \in 1..n + 1 /\ q # n + 1
      BY <2>2
    <3> QED
      BY <2>1, <2>2, <3>1, <3>2
  <2>3. CASE q = n + 1
    <3>1. \A r : r \in q..n + 1 <=> r = n + 1
      BY <2>3
    <3>2. q \in 1..n + 1 /\ q \notin 1..n
      BY <2>3
    <3> QED
      BY <1>2, <2>1, <2>3, <3>1, <3>2
  <2>4. CASE q \notin 1..n /\ q # n + 1
    <3>1. q \notin 1..n + 1
      BY <2>4
    <3> QED
      BY <2>1, <2>4, <3>1
  <2> QED
    BY <2>2, <2>3, <2>4
<1> QED
  BY <1>3 DEF Ahead, Opens

\* What is open in front of a place, the alternatives there and what they ask depend on
\* what is in front of it only.
LEMMA BranchesSame ==
    ASSUME NEW v, NEW w, NEW n \in Nat, \A d \in 1..n : w[d] = v[d]
    PROVE  /\ \A p \in 1..n + 1 : OpenAt(w, p) = OpenAt(v, p)
           /\ \A q \in 1..n : Openers(w, q, n) = Openers(v, q, n) /\ Closers(w, q, n) = Closers(v, q, n)
           /\ \A q \in 1..n : /\ Chosen(w, q, n + 1) = Chosen(v, q, n + 1)
                              /\ Taken(w, q, n + 1) = Taken(v, q, n + 1)
<1>1. \A d \in 1..n : NamedAt(w, d) = NamedAt(v, d) /\ NameAt(w, d) = NameAt(v, d)
  BY DEF NamedAt, NameAt
<1>2. ASSUME NEW q \in Nat, q >= 1, NEW r \in Nat, r <= n
      PROVE  Openers(w, q, r) = Openers(v, q, r) /\ Closers(w, q, r) = Closers(v, q, r)
  <2>1. \A k \in q..r : k \in 1..n
    BY <1>2
  <2>2. \A k \in q..r : NamedAt(w, k) = NamedAt(v, k)
    BY <1>1, <2>1
  <2> QED
    BY <2>2 DEF Openers, Closers
<1>3. ASSUME NEW p \in 1..n + 1 PROVE OpenAt(w, p) = OpenAt(v, p)
  <2>1. /\ OpenAt(w, p) = {q \in 1..p - 1 : /\ NamedAt(w, q) \in {"ifdef", "ifndef"}
                                            /\ \A r \in q..p - 1 : Closers(w, q, r) < Openers(w, q, r)}
        /\ OpenAt(v, p) = {q \in 1..p - 1 : /\ NamedAt(v, q) \in {"ifdef", "ifndef"}
                                            /\ \A r \in q..p - 1 : Closers(v, q, r) < Openers(v, q, r)}
    BY DEF OpenAt, Openers, Closers
  <2>2. \A q \in 1..p - 1 : /\ q \in 1..n /\ q \in Nat /\ q >= 1
                            /\ \A r \in q..p - 1 : r \in Nat /\ r <= n
    OBVIOUS
  <2>3. \A q \in 1..p - 1 : \A r \in q..p - 1 : /\ Openers(w, q, r) = Openers(v, q, r)
                                                /\ Closers(w, q, r) = Closers(v, q, r)
    BY <1>2, <2>2
  <2>4. \A q \in 1..p - 1 : NamedAt(w, q) = NamedAt(v, q)
    BY <1>1, <2>2
  <2> QED
    BY <2>1, <2>3, <2>4
<1>4. ASSUME NEW b \in 1..n PROVE HoldsAt(w, b) = HoldsAt(v, b)
  <2>1. b \in Nat /\ \A d \in 1..b - 1 : w[d] = v[d]
    OBVIOUS
  <2>2. \A name : LiveAt(w, name, b) = LiveAt(v, name, b)
    BY <2>1, LiveAtSame
  <2> QED
    BY <1>1, <2>2 DEF HoldsAt
<1>5. ASSUME NEW q \in 1..n
      PROVE  BranchesOf(w, q, n + 1) = BranchesOf(v, q, n + 1) /\ BranchesOf(v, q, n + 1) \subseteq 1..n
  <2>1. \A b \in q + 1..n + 1 - 1 : b \in 1..n /\ b \in 1..n + 1
    OBVIOUS
  <2>2. \A b \in q + 1..n + 1 - 1 : NamedAt(w, b) = NamedAt(v, b) /\ OpenAt(w, b) = OpenAt(v, b)
    BY <1>1, <1>3, <2>1
  <2>3. BranchesOf(w, q, n + 1) = BranchesOf(v, q, n + 1)
    BY <2>2 DEF BranchesOf
  <2>4. BranchesOf(v, q, n + 1) \subseteq 1..n
    BY <2>1 DEF BranchesOf
  <2> QED
    BY <2>3, <2>4
<1>6. ASSUME NEW q \in 1..n
      PROVE  /\ Chosen(w, q, n + 1) = Chosen(v, q, n + 1)
             /\ Taken(w, q, n + 1) = Taken(v, q, n + 1)
  <2>1. \A b \in BranchesOf(v, q, n + 1) : HoldsAt(w, b) = HoldsAt(v, b)
    BY <1>4, <1>5
  <2> QED
    BY <1>5, <2>1 DEF Chosen, Taken
<1>7. \A q \in 1..n : q \in Nat /\ q >= 1 /\ n \in Nat /\ n <= n
  OBVIOUS
<1> QED
  BY <1>2, <1>3, <1>6, <1>7

\* An alternative belongs to the innermost conditional: it is entered if none was taken
\* and it holds. Nothing changes for the others.
LEMMA ChosenNext ==
    ASSUME NEW v, NEW n \in Nat, NEW q \in 1..n
    PROVE  /\ NamedAt(v, n + 1) \in {"elsif", "else"} /\ Max(OpenAt(v, n + 1)) = q
                => /\ Chosen(v, q, n + 2) <=> ~Taken(v, q, n + 1) /\ HoldsAt(v, n + 1)
                   /\ Taken(v, q, n + 2) <=> Taken(v, q, n + 1) \/ HoldsAt(v, n + 1)
           /\ ~(NamedAt(v, n + 1) \in {"elsif", "else"} /\ Max(OpenAt(v, n + 1)) = q)
                => /\ Chosen(v, q, n + 2) = Chosen(v, q, n + 1)
                   /\ Taken(v, q, n + 2) = Taken(v, q, n + 1)
<1> DEFINE before == BranchesOf(v, q, n + 1)
           after == BranchesOf(v, q, n + 2)
           Other(b) == NamedAt(v, b) \in {"elsif", "else"} /\ Max(OpenAt(v, b)) = q
<1>1. /\ before = {q} \cup {b \in q + 1..n : Other(b)}
      /\ after = {q} \cup {b \in q + 1..n + 1 : Other(b)}
  <2>1. n + 1 - 1 = n /\ n + 2 - 1 = n + 1
    OBVIOUS
  <2> QED
    BY <2>1 DEF BranchesOf
<1>2. \A b : b \in q + 1..n + 1 <=> b \in q + 1..n \/ b = n + 1
  OBVIOUS
<1>3. \A b \in before : b \in Nat /\ b <= n
  BY <1>1
<1> HIDE DEF Other
<1>4. CASE ~Other(n + 1)
  <2>1. after = before
    BY <1>1, <1>2, <1>4
  <2> QED
    BY <1>4, <2>1 DEF Chosen, Taken, Other
<1>5. CASE Other(n + 1)
  <2>1. after = before \cup {n + 1}
    BY <1>1, <1>2, <1>5
  <2> HIDE DEF before, after
  <2>2. after \in SUBSET Nat /\ after # {} /\ \A b \in after : b <= n + 1
    <3>1. \A b \in after : b \in before \/ b = n + 1
      BY <2>1
    <3>2. n + 1 \in after
      BY <2>1
    <3>3. \A b \in after : b \in Nat /\ b <= n + 1
      BY <1>3, <3>1
    <3>5. after # {}
      BY <3>2
    <3> QED
      BY <3>3, <3>5
  <2>3. Max(after) \in after /\ \A b \in after : b <= Max(after)
    <3>1. n + 1 \in Nat
      OBVIOUS
    <3> QED
      BY <2>2, <3>1, GreatestMember
  <2>4. Max(after) = n + 1
    <3>1. n + 1 \in after /\ Max(after) \in Nat /\ Max(after) <= n + 1
      BY <2>1, <2>2, <2>3
    <3>2. n + 1 <= Max(after)
      BY <2>3, <3>1
    <3> QED
      BY <3>1, <3>2
  <2>5. \A b \in before : b # n + 1
    BY <1>3
  <2>6. /\ Chosen(v, q, n + 2) <=> \A b \in after : HoldsAt(v, b) <=> b = n + 1
        /\ Taken(v, q, n + 2) <=> \E b \in after : HoldsAt(v, b)
        /\ Taken(v, q, n + 1) <=> \E b \in before : HoldsAt(v, b)
    BY <2>4 DEF Chosen, Taken, before, after
  <2>7. Chosen(v, q, n + 2) <=> ~Taken(v, q, n + 1) /\ HoldsAt(v, n + 1)
    BY <2>1, <2>5, <2>6
  <2>8. Taken(v, q, n + 2) <=> Taken(v, q, n + 1) \/ HoldsAt(v, n + 1)
    BY <2>1, <2>6
  <2> QED
    BY <1>5, <2>7, <2>8 DEF Other
<1> QED
  BY <1>4, <1>5

\* The first alternative of a conditional is the one it opens with.
LEMMA ChosenNew ==
    ASSUME NEW v, NEW n \in Nat
    PROVE  /\ Chosen(v, n + 1, n + 2) <=> HoldsAt(v, n + 1)
           /\ Taken(v, n + 1, n + 2) <=> HoldsAt(v, n + 1)
<1>1. n + 1 + 1..n + 2 - 1 = {}
  OBVIOUS
<1>2. BranchesOf(v, n + 1, n + 2) = {n + 1}
  BY <1>1 DEF BranchesOf
<1>3. Max({n + 1}) = n + 1
  <2>1. {n + 1} \in SUBSET Nat /\ {n + 1} # {} /\ \A b \in {n + 1} : b <= n + 1
    OBVIOUS
  <2>2. Max({n + 1}) \in {n + 1}
    BY <2>1, GreatestMember
  <2> QED
    BY <2>2
<1> QED
  BY <1>2, <1>3 DEF Chosen, Taken

\* A stack of places behind n: they are the open conditionals, outermost first, and
\* each has an opener more than closers for every one that is open inside it.
Opened(v, n, m, open) ==
    /\ m \in Nat /\ open \in [1..m -> 1..n]
    /\ \A q : q \in OpenAt(v, n + 1) <=> \E k \in 1..m : q = open[k]
    /\ \A j, k \in 1..m : j < k => open[j] < open[k]
    /\ \A k \in 1..m : Openers(v, open[k], n) = Closers(v, open[k], n) + (m - k) + 1

\* The innermost one is the last.
LEMMA InnermostOpen ==
    ASSUME NEW v, NEW n \in Nat, NEW m, NEW open, Opened(v, n, m, open), m > 0
    PROVE  m \in 1..m /\ Max(OpenAt(v, n + 1)) = open[m]
<1> DEFINE S == OpenAt(v, n + 1)
<1>1. /\ m \in Nat /\ m \in 1..m /\ open \in [1..m -> 1..n]
      /\ \A q : q \in S <=> \E k \in 1..m : q = open[k]
      /\ \A j, k \in 1..m : j < k => open[j] < open[k]
  BY DEF Opened
<1> HIDE DEF S
<1>2. \A q \in S : q \in Nat /\ q <= n
  BY <1>1
<1>3. open[m] \in S
  BY <1>1
<1>4. Max(S) \in S /\ \A q \in S : q <= Max(S)
  <2>1. S \in SUBSET Nat /\ S # {}
    BY <1>2, <1>3
  <2> QED
    BY <1>2, <2>1, GreatestMember
<1>5. PICK k \in 1..m : Max(S) = open[k]
  BY <1>1, <1>4
<1>6. open[m] <= open[k]
  BY <1>3, <1>4, <1>5
<1>7. k = m \/ k < m
  BY <1>1
<1>8. open[k] \in Nat /\ open[m] \in Nat
  BY <1>1
<1>9. ~(open[k] < open[m])
  BY <1>6, <1>8
<1> QED
  BY <1>1, <1>5, <1>7, <1>9 DEF S

\* The counts of an open conditional one place further.
LEMMA OpenCounts ==
    ASSUME NEW v, NEW n \in Nat, NEW m, NEW open, Opened(v, n, m, open), NEW k \in 1..m
    PROVE  /\ open[k] \in 1..n
           /\ Openers(v, open[k], n) \in Nat /\ Closers(v, open[k], n) \in Nat
           /\ Openers(v, open[k], n) = Closers(v, open[k], n) + (m - k) + 1
           /\ Openers(v, open[k], n + 1) = Openers(v, open[k], n)
                + IF NamedAt(v, n + 1) \in {"ifdef", "ifndef"} THEN 1 ELSE 0
           /\ Closers(v, open[k], n + 1)
                = Closers(v, open[k], n) + IF NamedAt(v, n + 1) = "endif" THEN 1 ELSE 0
<1>1. open[k] \in 1..n /\ Openers(v, open[k], n) = Closers(v, open[k], n) + (m - k) + 1
  BY DEF Opened
<1>2. open[k] \in Nat /\ open[k] <= n + 1
  BY <1>1
<1> QED
  BY <1>1, <1>2, CountsNext

\* A place that neither opens nor closes a conditional leaves the stack,
LEMMA OpenedPasses ==
    ASSUME NEW v, NEW n \in Nat, NEW m, NEW open, Opened(v, n, m, open),
           NamedAt(v, n + 1) \notin {"ifdef", "ifndef", "endif"}
    PROVE  Opened(v, n + 1, m, open)
<1>1. /\ m \in Nat /\ open \in [1..m -> 1..n]
      /\ \A q : q \in OpenAt(v, n + 1) <=> \E k \in 1..m : q = open[k]
      /\ \A j, k \in 1..m : j < k => open[j] < open[k]
  BY DEF Opened
<1>2. ASSUME NEW k \in 1..m
      PROVE  /\ Openers(v, open[k], n + 1) = Closers(v, open[k], n + 1) + (m - k) + 1
             /\ Closers(v, open[k], n + 1) < Openers(v, open[k], n + 1)
  <2>1. /\ Openers(v, open[k], n) \in Nat /\ Closers(v, open[k], n) \in Nat
        /\ Openers(v, open[k], n) = Closers(v, open[k], n) + (m - k) + 1
        /\ Openers(v, open[k], n + 1) = Openers(v, open[k], n)
        /\ Closers(v, open[k], n + 1) = Closers(v, open[k], n)
    <3>1. /\ Openers(v, open[k], n) \in Nat /\ Closers(v, open[k], n) \in Nat
          /\ Openers(v, open[k], n) = Closers(v, open[k], n) + (m - k) + 1
          /\ Openers(v, open[k], n + 1) = Openers(v, open[k], n) + 0
          /\ Closers(v, open[k], n + 1) = Closers(v, open[k], n) + 0
      BY OpenCounts
    <3> QED
      BY <3>1
  <2>2. m - k \in Nat
    BY <1>1
  <2> QED
    BY <2>1, <2>2
<1>3. OpenAt(v, n + 2) = {q \in OpenAt(v, n + 1) : Closers(v, q, n + 1) < Openers(v, q, n + 1)}
  BY OpenAtNext
<1>4. \A q : q \in OpenAt(v, n + 2) <=> \E k \in 1..m : q = open[k]
  BY <1>1, <1>2, <1>3
<1>5. open \in [1..m -> 1..n + 1] /\ n + 1 + 1 = n + 2
  BY <1>1
<1> QED
  BY <1>1, <1>2, <1>4, <1>5 DEF Opened

\* an opener is put on it,
LEMMA OpenedOpens ==
    ASSUME NEW v, NEW n \in Nat, NEW m, NEW open, Opened(v, n, m, open),
           NamedAt(v, n + 1) \in {"ifdef", "ifndef"}
    PROVE  Opened(v, n + 1, m + 1, [k \in 1..m + 1 |-> IF k = m + 1 THEN n + 1 ELSE open[k]])
<1> DEFINE more == [k \in 1..m + 1 |-> IF k = m + 1 THEN n + 1 ELSE open[k]]
<1>1. /\ m \in Nat /\ open \in [1..m -> 1..n]
      /\ \A q : q \in OpenAt(v, n + 1) <=> \E k \in 1..m : q = open[k]
      /\ \A j, k \in 1..m : j < k => open[j] < open[k]
  BY DEF Opened
<1>2. /\ \A k \in 1..m + 1 : k \in 1..m \/ k = m + 1
      /\ \A k \in 1..m : k \in 1..m + 1 /\ k # m + 1
      /\ m + 1 \in 1..m + 1
  BY <1>1
<1>3. more[m + 1] = n + 1 /\ \A k \in 1..m : more[k] = open[k]
  BY <1>2
<1>4. more \in [1..m + 1 -> 1..n + 1]
  <2>1. \A k \in 1..m + 1 : (IF k = m + 1 THEN n + 1 ELSE open[k]) \in 1..n + 1
    BY <1>1, <1>2
  <2> QED
    BY <2>1
<1> HIDE DEF more
<1>5. NamedAt(v, n + 1) # "endif"
  OBVIOUS
<1>6. ASSUME NEW k \in 1..m
      PROVE  /\ Openers(v, open[k], n + 1) = Closers(v, open[k], n + 1) + (m + 1 - k) + 1
             /\ Closers(v, open[k], n + 1) < Openers(v, open[k], n + 1)
  <2>1. /\ Openers(v, open[k], n) \in Nat /\ Closers(v, open[k], n) \in Nat
        /\ Openers(v, open[k], n) = Closers(v, open[k], n) + (m - k) + 1
        /\ Openers(v, open[k], n + 1) = Openers(v, open[k], n) + 1
        /\ Closers(v, open[k], n + 1) = Closers(v, open[k], n) + 0
    BY <1>5, OpenCounts
  <2>2. m - k \in Nat /\ m + 1 - k = (m - k) + 1
    BY <1>1
  <2> QED
    BY <2>1, <2>2
<1>7. Openers(v, n + 1, n + 1) = 1 /\ Closers(v, n + 1, n + 1) = 0
  <2>1. {k \in n + 1..n : NamedAt(v, k) = "endif"} = {}
        /\ {k \in n + 1..n : NamedAt(v, k) \in {"ifdef", "ifndef"}} = {}
    OBVIOUS
  <2>2. Closers(v, n + 1, n) = 0 /\ Openers(v, n + 1, n) = 0
    BY <2>1, FS_EmptySet DEF Openers, Closers
  <2>3. n + 1 \in Nat
    OBVIOUS
  <2> QED
    BY <1>5, <2>2, <2>3, CountsNext
<1>8. OpenAt(v, n + 2) = {q \in OpenAt(v, n + 1) : Closers(v, q, n + 1) < Openers(v, q, n + 1)}
                         \cup {n + 1}
  BY OpenAtNext
<1>9. \A q : q \in OpenAt(v, n + 2) <=> \E k \in 1..m + 1 : q = more[k]
  <2>1. \A q : q \in OpenAt(v, n + 2) <=> q \in OpenAt(v, n + 1) \/ q = n + 1
    BY <1>1, <1>6, <1>8
  <2> QED
    BY <1>1, <1>2, <1>3, <2>1
<1>10. \A j, k \in 1..m + 1 : j < k => more[j] < more[k]
  <2> SUFFICES ASSUME NEW j \in 1..m + 1, NEW k \in 1..m + 1, j < k PROVE more[j] < more[k]
    OBVIOUS
  <2>1. j \in 1..m
    BY <1>1
  <2>2. CASE k \in 1..m
    BY <1>1, <1>3, <2>1, <2>2
  <2>3. CASE k = m + 1
    <3>1. more[j] \in 1..n
      BY <1>1, <1>3, <2>1
    <3> QED
      BY <1>3, <2>3, <3>1
  <2> QED
    BY <1>2, <2>2, <2>3
<1>11. \A k \in 1..m + 1 : Openers(v, more[k], n + 1)
                             = Closers(v, more[k], n + 1) + (m + 1 - k) + 1
  <2> SUFFICES ASSUME NEW k \in 1..m + 1
               PROVE  Openers(v, more[k], n + 1) = Closers(v, more[k], n + 1) + (m + 1 - k) + 1
    OBVIOUS
  <2>1. CASE k \in 1..m
    BY <1>3, <1>6, <2>1
  <2>2. CASE k = m + 1
    BY <1>1, <1>3, <1>7, <2>2
  <2> QED
    BY <1>2, <2>1, <2>2
<1>12. m + 1 \in Nat /\ n + 1 + 1 = n + 2
  BY <1>1
<1> QED
  BY <1>4, <1>9, <1>10, <1>11, <1>12 DEF Opened, more

\* and a closer takes the innermost off.
LEMMA OpenedCloses ==
    ASSUME NEW v, NEW n \in Nat, NEW m, NEW open, Opened(v, n, m, open), m > 0,
           NamedAt(v, n + 1) = "endif"
    PROVE  Opened(v, n + 1, m - 1, [k \in 1..m - 1 |-> open[k]])
<1> DEFINE less == [k \in 1..m - 1 |-> open[k]]
<1>1. /\ m \in Nat /\ open \in [1..m -> 1..n]
      /\ \A q : q \in OpenAt(v, n + 1) <=> \E k \in 1..m : q = open[k]
      /\ \A j, k \in 1..m : j < k => open[j] < open[k]
  BY DEF Opened
<1>2. /\ \A k \in 1..m : k \in 1..m - 1 \/ k = m
      /\ \A k \in 1..m - 1 : k \in 1..m
      /\ m \in 1..m
  BY <1>1
<1>3. \A k \in 1..m - 1 : less[k] = open[k]
  OBVIOUS
<1>4. less \in [1..m - 1 -> 1..n + 1]
  BY <1>1, <1>2
<1> HIDE DEF less
<1>5. NamedAt(v, n + 1) \notin {"ifdef", "ifndef"}
  OBVIOUS
<1>6. ASSUME NEW k \in 1..m
      PROVE  /\ Openers(v, open[k], n + 1) = Closers(v, open[k], n + 1) + (m - k)
             /\ Closers(v, open[k], n + 1) \in Nat
  <2>1. /\ Openers(v, open[k], n) \in Nat /\ Closers(v, open[k], n) \in Nat
        /\ Openers(v, open[k], n) = Closers(v, open[k], n) + (m - k) + 1
        /\ Openers(v, open[k], n + 1) = Openers(v, open[k], n) + 0
        /\ Closers(v, open[k], n + 1) = Closers(v, open[k], n) + 1
    BY <1>5, OpenCounts
  <2>2. m - k \in Nat
    BY <1>1
  <2> QED
    BY <2>1, <2>2
<1>7. OpenAt(v, n + 2) = {q \in OpenAt(v, n + 1) : Closers(v, q, n + 1) < Openers(v, q, n + 1)}
  BY <1>5, OpenAtNext
<1>8. \A k \in 1..m : Closers(v, open[k], n + 1) < Openers(v, open[k], n + 1) <=> k \in 1..m - 1
  <2> TAKE k \in 1..m
  <2>1. m - k \in Nat /\ (k \in 1..m - 1 <=> m - k > 0)
    BY <1>1
  <2> QED
    BY <1>6, <2>1
<1>9. \A q : q \in OpenAt(v, n + 2) <=> \E k \in 1..m - 1 : q = less[k]
  BY <1>1, <1>2, <1>3, <1>7, <1>8
<1>10. \A j, k \in 1..m - 1 : j < k => less[j] < less[k]
  BY <1>1, <1>2, <1>3
<1>11. \A k \in 1..m - 1 : Openers(v, less[k], n + 1)
                             = Closers(v, less[k], n + 1) + (m - 1 - k) + 1
  <2> SUFFICES ASSUME NEW k \in 1..m - 1
               PROVE  Openers(v, less[k], n + 1) = Closers(v, less[k], n + 1) + (m - 1 - k) + 1
    OBVIOUS
  <2>1. Openers(v, less[k], n + 1) = Closers(v, less[k], n + 1) + (m - k)
    BY <1>2, <1>3, <1>6
  <2>2. Closers(v, less[k], n + 1) \in Nat
    BY <1>2, <1>3, <1>6
  <2> QED
    BY <1>1, <2>1, <2>2
<1>12. m - 1 \in Nat /\ n + 1 + 1 = n + 2
  BY <1>1
<1> QED
  BY <1>4, <1>9, <1>10, <1>11, <1>12 DEF Opened, less

\* Frames of such a stack: each says whether it stands in selected text, whether one of
\* its alternatives held so far, and whether the present one is selected.
IsFrame(f) ==
    f \in [parentActive : BOOLEAN, branchTaken : BOOLEAN, branchActive : BOOLEAN, sawElse : BOOLEAN]

FrameOf(v, n, open, k, f) ==
    /\ IsFrame(f)
    /\ f.parentActive <=> \A j \in 1..k - 1 : Chosen(v, open[j], n + 1)
    /\ f.branchActive <=> \A j \in 1..k : Chosen(v, open[j], n + 1)
    /\ f.branchTaken <=> Taken(v, open[k], n + 1)

Framed(v, n, frames, open) ==
    /\ IsList(frames) /\ Opened(v, n, Len(frames), open)
    /\ \A k \in 1..Len(frames) : FrameOf(v, n, open, k, frames[k])

\* The last frame knows whether what comes next is selected.
LEMMA FramedSelects ==
    ASSUME NEW v, NEW n \in Nat, NEW frames, NEW open, Framed(v, n, frames, open)
    PROVE  /\ Len(frames) \in Nat
           /\ SelectedAt(v, n + 1) <=> \A j \in 1..Len(frames) : Chosen(v, open[j], n + 1)
           /\ SelectedAt(v, n + 1) <=> (Len(frames) > 0 => frames[Len(frames)].branchActive)
<1> DEFINE m == Len(frames)
<1>1. /\ m \in Nat /\ \A q : q \in OpenAt(v, n + 1) <=> \E k \in 1..m : q = open[k]
      /\ \A k \in 1..m : frames[k].branchActive <=> \A j \in 1..k : Chosen(v, open[j], n + 1)
  BY DEF Framed, Opened, FrameOf
<1>2. SelectedAt(v, n + 1) <=> \A q \in OpenAt(v, n + 1) : Chosen(v, q, n + 1)
  BY DEF SelectedAt, Chosen
<1>3. SelectedAt(v, n + 1) <=> \A j \in 1..m : Chosen(v, open[j], n + 1)
  BY <1>1, <1>2
<1>4. m > 0 => m \in 1..m
  BY <1>1
<1>5. m = 0 => 1..m = {}
  OBVIOUS
<1>6. m > 0 => (frames[m].branchActive <=> \A j \in 1..m : Chosen(v, open[j], n + 1))
  BY <1>1, <1>4
<1> QED
  BY <1>1, <1>3, <1>5, <1>6

\* A place that is no alternative of a conditional changes nothing for it.
LEMMA FrameStays ==
    ASSUME NEW v, NEW n \in Nat, NEW m \in Nat, NEW open, NEW k \in 1..m, NEW f,
           FrameOf(v, n, open, k, f), \A j \in 1..k : open[j] \in 1..n,
           \A j \in 1..k : ~(/\ NamedAt(v, n + 1) \in {"elsif", "else"}
                             /\ Max(OpenAt(v, n + 1)) = open[j])
    PROVE  FrameOf(v, n + 1, open, k, f)
<1>1. \A j \in 1..k : /\ Chosen(v, open[j], n + 2) = Chosen(v, open[j], n + 1)
                      /\ Taken(v, open[j], n + 2) = Taken(v, open[j], n + 1)
  BY ChosenNext
<1>2. n + 1 + 1 = n + 2 /\ k \in 1..k /\ \A j \in 1..k - 1 : j \in 1..k
  OBVIOUS
<1> QED
  BY <1>1, <1>2 DEF FrameOf

\* A place that belongs to no conditional leaves the frames,
LEMMA FramedPasses ==
    ASSUME NEW v, NEW n \in Nat, NEW frames, NEW open, Framed(v, n, frames, open),
           NamedAt(v, n + 1) \notin ConditionalNames
    PROVE  Framed(v, n + 1, frames, open)
<1> DEFINE m == Len(frames)
<1>1. NamedAt(v, n + 1) \notin {"ifdef", "ifndef", "endif", "elsif", "else"}
  BY DEF ConditionalNames
<1>2. m \in Nat /\ open \in [1..m -> 1..n] /\ Opened(v, n, m, open)
  BY DEF Framed, Opened
<1>3. Opened(v, n + 1, m, open)
  BY <1>1, <1>2, OpenedPasses
<1>4. ASSUME NEW k \in 1..m PROVE FrameOf(v, n + 1, open, k, frames[k])
  <2>1. \A j \in 1..k : j \in 1..m
    BY <1>2
  <2>2. \A j \in 1..k : open[j] \in 1..n
    BY <1>2, <2>1
  <2>3. FrameOf(v, n, open, k, frames[k])
    BY DEF Framed
  <2> QED
    BY <1>1, <1>2, <2>2, <2>3, FrameStays
<1> QED
  BY <1>3, <1>4 DEF Framed

\* an opener puts a frame on them,
LEMMA FramedOpens ==
    ASSUME NEW v, NEW n \in Nat, NEW frames, NEW open, Framed(v, n, frames, open),
           NamedAt(v, n + 1) \in {"ifdef", "ifndef"}, NEW f, IsFrame(f),
           f.parentActive <=> SelectedAt(v, n + 1),
           f.branchTaken <=> HoldsAt(v, n + 1),
           f.branchActive <=> f.parentActive /\ f.branchTaken
    PROVE  \E more : Framed(v, n + 1, Append(frames, f), more)
<1> DEFINE m == Len(frames)
           more == [k \in 1..m + 1 |-> IF k = m + 1 THEN n + 1 ELSE open[k]]
           longer == Append(frames, f)
<1>1. m \in Nat /\ open \in [1..m -> 1..n] /\ Opened(v, n, m, open) /\ IsList(frames)
  BY DEF Framed, Opened
<1>2. Opened(v, n + 1, m + 1, more)
  BY <1>1, OpenedOpens
<1>3. /\ IsList(longer) /\ Len(longer) = m + 1 /\ longer[m + 1] = f
      /\ \A k \in 1..m : longer[k] = frames[k]
  BY <1>1, ListAppended
<1>4. /\ \A k \in 1..m + 1 : k \in 1..m \/ k = m + 1
      /\ \A k \in 1..m : k \in 1..m + 1 /\ k # m + 1
      /\ m + 1 \in 1..m + 1 /\ 1..m + 1 - 1 = 1..m
  BY <1>1
<1>5. more[m + 1] = n + 1 /\ \A k \in 1..m : more[k] = open[k]
  BY <1>4
<1>6. n + 1 + 1 = n + 2
  OBVIOUS
<1> HIDE DEF more, longer
<1>7. \A j \in 1..m : Chosen(v, open[j], n + 2) = Chosen(v, open[j], n + 1)
  BY <1>1, ChosenNext
<1>8. /\ Chosen(v, n + 1, n + 2) <=> HoldsAt(v, n + 1)
      /\ Taken(v, n + 1, n + 2) <=> HoldsAt(v, n + 1)
  BY ChosenNew
<1>9. SelectedAt(v, n + 1) <=> \A j \in 1..m : Chosen(v, more[j], n + 2)
  BY <1>5, <1>7, FramedSelects
<1>10. FrameOf(v, n + 1, more, m + 1, f)
  <2>1. f.parentActive <=> \A j \in 1..m : Chosen(v, more[j], n + 2)
    BY <1>9
  <2>2. f.branchActive <=> \A j \in 1..m + 1 : Chosen(v, more[j], n + 2)
    BY <1>4, <1>5, <1>8, <1>9
  <2>3. f.branchTaken <=> Taken(v, more[m + 1], n + 2)
    BY <1>5, <1>8
  <2> QED
    BY <1>4, <1>6, <2>1, <2>2, <2>3 DEF FrameOf
<1>11. ASSUME NEW k \in 1..m PROVE FrameOf(v, n + 1, more, k, frames[k])
  <2>1. \A j \in 1..k : j \in 1..m
    BY <1>1
  <2>2. \A j \in 1..k : open[j] \in 1..n
    BY <1>1, <2>1
  <2>3. FrameOf(v, n, open, k, frames[k])
    BY DEF Framed
  <2>4. FrameOf(v, n + 1, open, k, frames[k])
    BY <1>1, <2>2, <2>3, FrameStays
  <2>5. /\ \A j \in 1..k : more[j] = open[j]
        /\ \A j \in 1..k - 1 : j \in 1..k
        /\ k \in 1..k
    BY <1>5, <2>1
  <2> QED
    BY <2>4, <2>5 DEF FrameOf
<1>12. \A k \in 1..m + 1 : FrameOf(v, n + 1, more, k, longer[k])
  BY <1>3, <1>4, <1>10, <1>11
<1> QED
  BY <1>2, <1>3, <1>12 DEF Framed, longer

\* an alternative rewrites the last of them,
LEMMA FramedAlternates ==
    ASSUME NEW v, NEW n \in Nat, NEW frames, NEW open, Framed(v, n, frames, open), Len(frames) > 0,
           NamedAt(v, n + 1) \in {"elsif", "else"}, NEW f, IsFrame(f), NEW old,
           old = frames[Len(frames)], f.parentActive = old.parentActive,
           f.branchActive <=> old.parentActive /\ ~old.branchTaken /\ HoldsAt(v, n + 1),
           f.branchTaken <=> old.branchTaken \/ HoldsAt(v, n + 1),
           NEW other, IsList(other), Len(other) = Len(frames), other[Len(frames)] = f,
           \A k \in 1..Len(frames) : k # Len(frames) => other[k] = frames[k]
    PROVE  Framed(v, n + 1, other, open)
<1> DEFINE m == Len(frames)
<1>1. m \in Nat /\ m > 0 /\ open \in [1..m -> 1..n] /\ Opened(v, n, m, open)
      /\ \A j, k \in 1..m : j < k => open[j] < open[k]
  BY DEF Framed, Opened
<1>2. Opened(v, n + 1, m, open)
  BY <1>1, OpenedPasses
<1>3. m \in 1..m /\ Max(OpenAt(v, n + 1)) = open[m]
  BY <1>1, InnermostOpen
<1>4. \A j \in 1..m : j # m => open[j] # open[m]
  <2> SUFFICES ASSUME NEW j \in 1..m, j # m PROVE open[j] # open[m]
    OBVIOUS
  <2>1. j < m /\ open[j] \in Nat /\ open[m] \in Nat
    BY <1>1, <1>3
  <2>2. open[j] < open[m]
    BY <1>1, <1>3, <2>1
  <2> QED
    BY <2>1, <2>2
<1>5. /\ Chosen(v, open[m], n + 2) <=> ~Taken(v, open[m], n + 1) /\ HoldsAt(v, n + 1)
      /\ Taken(v, open[m], n + 2) <=> Taken(v, open[m], n + 1) \/ HoldsAt(v, n + 1)
  <2>1. open[m] \in 1..n
    BY <1>1, <1>3
  <2> QED
    BY <1>3, <2>1, ChosenNext
<1>6. \A j \in 1..m : j # m => Chosen(v, open[j], n + 2) = Chosen(v, open[j], n + 1)
  BY <1>1, <1>3, <1>4, ChosenNext
<1>7. ASSUME NEW k \in 1..m, k # m PROVE FrameOf(v, n + 1, open, k, frames[k])
  <2>1. \A j \in 1..k : j \in 1..m /\ j # m
    BY <1>1, <1>7
  <2>2. \A j \in 1..k : open[j] \in 1..n /\ open[j] # open[m]
    BY <1>1, <1>4, <2>1
  <2>3. FrameOf(v, n, open, k, frames[k])
    BY DEF Framed
  <2> QED
    BY <1>1, <1>3, <2>2, <2>3, FrameStays
<1>8. FrameOf(v, n + 1, open, m, f)
  <2>1. /\ old.parentActive <=> \A j \in 1..m - 1 : Chosen(v, open[j], n + 1)
        /\ old.branchTaken <=> Taken(v, open[m], n + 1)
    BY <1>3 DEF Framed, FrameOf
  <2>2. /\ \A j \in 1..m - 1 : j \in 1..m /\ j # m
        /\ \A j \in 1..m : j \in 1..m - 1 \/ j = m
        /\ m \in 1..m
    BY <1>1
  <2>3. old.parentActive <=> \A j \in 1..m - 1 : Chosen(v, open[j], n + 2)
    BY <1>6, <2>1, <2>2
  <2>4. f.branchActive <=> \A j \in 1..m : Chosen(v, open[j], n + 2)
    BY <1>5, <2>1, <2>2, <2>3
  <2>5. f.branchTaken <=> Taken(v, open[m], n + 2)
    BY <1>5, <2>1
  <2>6. n + 1 + 1 = n + 2
    OBVIOUS
  <2> QED
    BY <2>3, <2>4, <2>5, <2>6 DEF FrameOf
<1>9. \A k \in 1..m : FrameOf(v, n + 1, open, k, other[k])
  BY <1>7, <1>8
<1> QED
  BY <1>2, <1>9 DEF Framed

\* and a closer takes the last of them off.
LEMMA FramedCloses ==
    ASSUME NEW v, NEW n \in Nat, NEW frames, NEW open, Framed(v, n, frames, open), Len(frames) > 0,
           NamedAt(v, n + 1) = "endif", NEW fewer, IsList(fewer), Len(fewer) = Len(frames) - 1,
           \A k \in 1..Len(frames) - 1 : fewer[k] = frames[k]
    PROVE  \E less : Framed(v, n + 1, fewer, less)
<1> DEFINE m == Len(frames)
           less == [k \in 1..m - 1 |-> open[k]]
<1>1. m \in Nat /\ m > 0 /\ open \in [1..m -> 1..n] /\ Opened(v, n, m, open)
  BY DEF Framed, Opened
<1>2. Opened(v, n + 1, m - 1, less)
  <2> HIDE DEF m
  <2>1. Opened(v, n + 1, m - 1, [k \in 1..m - 1 |-> open[k]])
    BY <1>1, OpenedCloses
  <2> QED
    BY <2>1
<1>3. \A k \in 1..m - 1 : less[k] = open[k]
  OBVIOUS
<1> HIDE DEF less
<1>4. ASSUME NEW k \in 1..m - 1 PROVE FrameOf(v, n + 1, less, k, fewer[k])
  <2>1. k \in 1..m /\ \A j \in 1..k : j \in 1..m /\ j \in 1..m - 1
    BY <1>1
  <2>2. \A j \in 1..k : open[j] \in 1..n
    BY <1>1, <2>1
  <2>3. FrameOf(v, n, open, k, frames[k])
    BY <2>1 DEF Framed
  <2>4. FrameOf(v, n + 1, open, k, frames[k])
    BY <1>1, <2>1, <2>2, <2>3, FrameStays
  <2>5. /\ \A j \in 1..k : less[j] = open[j]
        /\ \A j \in 1..k - 1 : j \in 1..k
        /\ k \in 1..k
    BY <1>3, <2>1
  <2>6. FrameOf(v, n + 1, less, k, frames[k])
    BY <2>4, <2>5 DEF FrameOf
  <2> QED
    BY <2>6
<1>5. Framed(v, n + 1, fewer, less)
  BY <1>2, <1>4 DEF Framed
<1> QED
  BY <1>5

-----------------------------------------------------------------------------
(* The selected text. *)

\* A list without its last member.
LEMMA ListShortened ==
    ASSUME NEW list, IsList(list), Len(list) > 0
    PROVE  /\ IsList(Front(list)) /\ Len(Front(list)) = Len(list) - 1
           /\ \A k \in 1..Len(list) - 1 : Front(list)[k] = list[k]
<1> DEFINE n == Len(list)
           front == SubSeq(list, 1, n - 1)
<1>1. PICK R : list \in Seq(R)
  BY DEF IsList
<1>2. n \in Nat /\ n >= 1 /\ Front(list) = front
  BY <1>1 DEF Front
<1>3. \A k \in 1..n - 1 : list[k] \in R
  BY <1>1, <1>2
<1>4. /\ front \in Seq(R)
      /\ Len(front) = IF 1 <= n - 1 THEN n - 1 - 1 + 1 ELSE 0
      /\ \A k \in 1..n - 1 - 1 + 1 : front[k] = list[1 + k - 1]
  BY <1>1, <1>2, <1>3, SubSeqProperties
<1> HIDE DEF n, front
<1>5. Len(front) = n - 1
  BY <1>2, <1>4
<1>6. \A k \in 1..n - 1 : front[k] = list[k]
  <2> TAKE k \in 1..n - 1
  <2>1. k \in 1..n - 1 - 1 + 1 /\ 1 + k - 1 = k
    BY <1>2
  <2>2. front[k] = list[1 + k - 1]
    BY <1>4, <2>1
  <2> QED
    BY <2>1, <2>2
<1>7. IsList(front)
  BY <1>4 DEF IsList
<1> QED
  BY <1>2, <1>5, <1>6, <1>7 DEF n

\* A list with one member rewritten.
LEMMA ListRewritten ==
    ASSUME NEW list, IsList(list), NEW i \in 1..Len(list), NEW e
    PROVE  LET other == [list EXCEPT ![i] = e]
           IN  /\ IsList(other) /\ Len(other) = Len(list) /\ other[i] = e
               /\ \A k \in 1..Len(list) : k # i => other[k] = list[k]
<1> DEFINE n == Len(list)
           other == [list EXCEPT ![i] = e]
<1>1. PICK R : list \in Seq(R)
  BY DEF IsList
<1>2. n \in Nat /\ DOMAIN list = 1..n
  BY <1>1
<1>3. other = [k \in 1..n |-> IF k = i THEN e ELSE list[k]]
  BY <1>2
<1> HIDE DEF other
<1>4. other = [k \in 1..n |-> other[k]]
  BY <1>3
<1>5. IsList(other) /\ Len(other) = n
  BY <1>2, <1>4, ListOfFunction
<1>6. other[i] = e /\ \A k \in 1..n : k # i => other[k] = list[k]
  BY <1>3
<1> QED
  BY <1>5, <1>6 DEF other

\* The frames agree with the text: the invariant.
FrameInv ==
    status = "running" => \E open : Framed(visited, Len(visited), conditionals, open)

\* The steps that belong to no conditional.
Neutral ==
    /\ InSource /\ UNCHANGED <<sources, status, conditionals>> /\ \E after : Visit(after)
    /\ Directive \notin ConditionalNames

\* Each action is one of these steps.
LEMMA BranchSteps ==
    ASSUME ReadingOK, [Next]_pvars
    PROVE  \/ UNCHANGED pvars \/ Fail \/ Leaves \/ Neutral
           \/ OpenConditional \/ ElsifBranch \/ ElseBranch \/ CloseConditional
<1> DEFINE s == Here.source
           at == Here.at
<1>c. ASSUME NEW after, Consume(after) PROVE \E x : Visit(x)
  BY <1>c DEF Consume
<1>d. /\ "define" \notin ConditionalNames /\ "undef" \notin ConditionalNames
      /\ "include" \notin ConditionalNames /\ "none" \notin ConditionalNames
  BY DEF ConditionalNames
<1>1. CASE RejectConditional
  BY <1>1 DEF RejectConditional
<1>2. CASE Skip
  <2> DEFINE after == CASE Directive = "define" -> ContinuedAfter(s, at)
                        [] Directive \in {"include", "undef"} -> LineAfter(s, at)
                        [] OTHER -> at + 1
  <2>1. /\ InSource /\ Directive \notin ConditionalNames /\ UNCHANGED <<sources, status, conditionals>>
        /\ Consume(after)
    BY <1>2 DEF Skip
  <2> HIDE DEF after
  <2> QED
    BY <2>1, <1>c DEF Neutral
<1>3. CASE DefineMacro
  <2>1. InSource /\ Directive = "define"
    BY <1>3 DEF DefineMacro
  <2>2. \/ Fail
        \/ UNCHANGED <<sources, status, conditionals>> /\ Consume(ContinuedAfter(s, at))
    BY <1>3 DEF DefineMacro
  <2> QED
    BY <1>c, <1>d, <2>1, <2>2 DEF Neutral
<1>4. CASE UndefineMacro
  <2>1. InSource /\ Directive = "undef"
    BY <1>4 DEF UndefineMacro
  <2>2. CASE Operand \notin Identifiers \/ LineAfter(s, at) = at + 2
    BY <1>4, <2>2 DEF UndefineMacro
  <2>3. CASE ~(Operand \notin Identifiers \/ LineAfter(s, at) = at + 2)
    <3>1. UNCHANGED <<sources, status, conditionals>> /\ Consume(LineAfter(s, at))
      BY <1>4, <2>3 DEF UndefineMacro
    <3> QED
      BY <1>c, <1>d, <2>1, <3>1 DEF Neutral
  <2> QED
    BY <2>2, <2>3
<1>5. CASE IncludeSource /\ ~Fail
  <2>1. InSource /\ Directive = "include"
    BY <1>5 DEF IncludeSource
  <2>2. UNCHANGED <<sources, status, conditionals>> /\ \E after : Visit(after)
    BY <1>5 DEF IncludeSource
  <2> QED
    BY <1>d, <2>1, <2>2 DEF Neutral
<1>6. CASE ExpandSegment
  <2> DEFINE after == SegmentAfter(s, at)
             next == IF after = at THEN after + 1 ELSE after
  <2>1. InSource /\ Directive = "none"
    BY <1>6 DEF ExpandSegment
  <2>2. Fail \/ (Consume(next) /\ UNCHANGED <<sources, status, conditionals>>)
    BY <1>6 DEF ExpandSegment
  <2> HIDE DEF next
  <2> QED
    BY <1>c, <1>d, <2>1, <2>2 DEF Neutral
<1>7. CASE EndSource
  <2>1. CASE Len(reading) = 1 /\ conditionals # << >>
    BY <1>7, <2>1 DEF EndSource
  <2>2. CASE ~(Len(reading) = 1 /\ conditionals # << >>)
    BY <1>7, <2>2 DEF EndSource, Leaves
  <2> QED
    BY <2>1, <2>2
<1>8. CASE Stopped
  BY <1>8 DEF Stopped
<1> QED
  BY <1>1, <1>2, <1>3, <1>4, <1>5, <1>6, <1>7, <1>8 DEF Next

\* A visit puts the directive it is at behind the history.
LEMMA HistoryNext ==
    ASSUME ReadingOK, WholeInv, InSource, NEW after, Visit(after)
    PROVE  /\ Len(visited) \in Nat /\ Len(visited') = Len(visited) + 1
           /\ \A p \in 1..Len(visited) : visited'[p] = visited[p]
           /\ visited'[Len(visited) + 1].active = Active
           /\ NamedAt(visited', Len(visited) + 1) = Directive
           /\ NameAt(visited', Len(visited) + 1) = Operand
<1> DEFINE n == Len(visited)
<1>1. /\ n \in Nat /\ Len(visited') = n + 1
      /\ visited'[n + 1] = [source |-> Here.source, at |-> Here.at, after |-> after, active |-> Active]
      /\ \A p \in 1..n : visited'[p] = visited[p]
  BY VisitAdds DEF WholeInv
<1>2. /\ visited'[n + 1].source = Here.source /\ visited'[n + 1].at = Here.at
      /\ visited'[n + 1].active = Active
  BY <1>1
<1>3. NamedAt(visited', n + 1) = Directive /\ NameAt(visited', n + 1) = Operand
  BY <1>2, HereIsToken DEF NamedAt, NameAt, Operand
<1> QED
  BY <1>1, <1>2, <1>3

\* The frames of a history are those of every history that begins with it.
LEMMA FramedSame ==
    ASSUME NEW v, NEW w, NEW n \in Nat, \A d \in 1..n : w[d] = v[d],
           NEW frames, NEW open, Framed(v, n, frames, open)
    PROVE  Framed(w, n, frames, open)
<1> DEFINE m == Len(frames)
<1>1. m \in Nat /\ open \in [1..m -> 1..n] /\ Opened(v, n, m, open)
  BY DEF Framed, Opened
<1>2. /\ OpenAt(w, n + 1) = OpenAt(v, n + 1)
      /\ \A q \in 1..n : Openers(w, q, n) = Openers(v, q, n) /\ Closers(w, q, n) = Closers(v, q, n)
      /\ \A q \in 1..n : /\ Chosen(w, q, n + 1) = Chosen(v, q, n + 1)
                         /\ Taken(w, q, n + 1) = Taken(v, q, n + 1)
  <2>1. n + 1 \in 1..n + 1
    OBVIOUS
  <2> QED
    BY <2>1, BranchesSame
<1>3. \A k \in 1..m : open[k] \in 1..n
  BY <1>1
<1>4. Opened(w, n, m, open)
  BY <1>1, <1>2, <1>3 DEF Opened
<1>5. ASSUME NEW k \in 1..m PROVE FrameOf(w, n, open, k, frames[k])
  <2>1. \A j \in 1..k : j \in 1..m
    BY <1>1
  <2>2. /\ \A j \in 1..k : Chosen(w, open[j], n + 1) = Chosen(v, open[j], n + 1)
        /\ Taken(w, open[k], n + 1) = Taken(v, open[k], n + 1)
    BY <1>2, <1>3, <2>1
  <2>3. \A j \in 1..k - 1 : j \in 1..k
    BY <1>1
  <2>4. FrameOf(v, n, open, k, frames[k])
    BY DEF Framed
  <2> QED
    BY <2>2, <2>3, <2>4 DEF FrameOf
<1> QED
  BY <1>4, <1>5 DEF Framed

\* Frames and selections are read from the sources, which no step rewrites.
LEMMA SameFrames ==
    ASSUME UNCHANGED sources, NEW v, NEW n, NEW frames, NEW open
    PROVE  /\ Framed(v, n, frames, open)' <=> Framed(v, n, frames, open)
           /\ SelectedAt(v, n)' <=> SelectedAt(v, n)
           /\ NamedAt(v, n)' = NamedAt(v, n)
<1>1. \A p : NamedAt(v, p)' = NamedAt(v, p) /\ NameAt(v, p)' = NameAt(v, p)
  BY SameReading
<1>2. \A name, p : LiveAt(v, name, p)' = LiveAt(v, name, p)
  BY SameReading
<1>3. \A p : OpenAt(v, p)' = OpenAt(v, p)
  BY <1>1 DEF OpenAt
<1>4. \A b : HoldsAt(v, b)' = HoldsAt(v, b)
  BY <1>1, <1>2 DEF HoldsAt
<1>5. \A q, p : BranchesOf(v, q, p)' = BranchesOf(v, q, p)
  BY <1>1, <1>3 DEF BranchesOf
<1>6. \A q, r : Openers(v, q, r)' = Openers(v, q, r) /\ Closers(v, q, r)' = Closers(v, q, r)
  BY <1>1 DEF Openers, Closers
<1>7. \A q, p : (Chosen(v, q, p)' <=> Chosen(v, q, p)) /\ (Taken(v, q, p)' <=> Taken(v, q, p))
  BY <1>4, <1>5 DEF Chosen, Taken
<1>8. \A m : Opened(v, n, m, open)' <=> Opened(v, n, m, open)
  BY <1>3, <1>6 DEF Opened
<1>9. \A k, f : FrameOf(v, n, open, k, f)' <=> FrameOf(v, n, open, k, f)
  BY <1>7 DEF FrameOf
<1>10. Framed(v, n, frames, open)' <=> Framed(v, n, frames, open)
  BY <1>8, <1>9 DEF Framed
<1>11. SelectedAt(v, n)' <=> SelectedAt(v, n)
  BY <1>3, <1>4, <1>5 DEF SelectedAt
<1> QED
  BY <1>1, <1>10, <1>11

\* Where the frames agree with the text, the walk emits what is selected.
LEMMA ActiveIsSelected ==
    ASSUME NEW open, Len(visited) \in Nat, Framed(visited, Len(visited), conditionals, open)
    PROVE  /\ Active <=> SelectedAt(visited, Len(visited) + 1)
           /\ Active \in BOOLEAN
           /\ conditionals # << >> <=> Len(conditionals) > 0
           /\ conditionals # << >> => Frame = conditionals[Len(conditionals)] /\ IsFrame(Frame)
<1> DEFINE m == Len(conditionals)
<1>1. m \in Nat /\ (conditionals # << >> <=> m > 0)
  BY DEF Framed, IsList
<1>2. SelectedAt(visited, Len(visited) + 1) <=> (m > 0 => conditionals[m].branchActive)
  BY FramedSelects
<1>3. Frame = conditionals[m] /\ Last(conditionals) = conditionals[m]
  BY DEF Frame, Last
<1>4. m > 0 => IsFrame(conditionals[m])
  <2>1. m > 0 => m \in 1..m
    BY <1>1
  <2> QED
    BY <2>1 DEF Framed, FrameOf
<1>5. Active <=> (m > 0 => conditionals[m].branchActive)
  BY <1>1, <1>3 DEF Active
<1>6. Active \in BOOLEAN
  BY DEF Active
<1> QED
  BY <1>1, <1>2, <1>3, <1>4, <1>5, <1>6

\* What an alternative asks is what its directive asks of the macro table.
LEMMA HoldsHere ==
    ASSUME ReadingOK, WholeInv, LiveInv, InSource, NEW after, Visit(after)
    PROVE  LET holds == HoldsAt(visited', Len(visited) + 1)
           IN  /\ Directive \in {"ifdef", "elsif"} => (holds <=> Defined)
               /\ Directive = "ifndef" => (holds <=> ~Defined)
               /\ Directive = "else" => holds
<1> DEFINE n == Len(visited)
<1>1. /\ n \in Nat /\ \A p \in 1..n : visited'[p] = visited[p]
      /\ NamedAt(visited', n + 1) = Directive /\ NameAt(visited', n + 1) = Operand
  BY HistoryNext
<1>2. LiveAt(visited', Operand, n + 1) = Written(Operand)
  <2>1. n + 1 \in Nat /\ \A d \in 1..n + 1 - 1 : visited'[d] = visited[d]
    BY <1>1
  <2>2. LiveAt(visited', Operand, n + 1) = LiveAt(visited, Operand, n + 1)
    BY <2>1, LiveAtSame
  <2> QED
    BY <2>2 DEF Written
<1>3. Directive # "none" => (Defined <=> Written(Operand) # 0)
  <2> SUFFICES ASSUME Directive # "none" PROVE Defined <=> Written(Operand) # 0
    OBVIOUS
  <2>1. Operand \in STRING
    BY OperandIsText
  <2>2. Agrees(Operand)
    BY <2>1 DEF LiveInv, InSource
  <2> QED
    BY <2>2 DEF Agrees, Defined
<1> DEFINE holds == HoldsAt(visited', n + 1)
<1>4. holds <=> CASE Directive = "else"   -> TRUE
                  [] Directive = "ifndef" -> Written(Operand) = 0
                  [] OTHER                -> Written(Operand) # 0
  BY <1>1, <1>2 DEF HoldsAt
<1> HIDE DEF holds
<1>5. Directive \in {"ifdef", "elsif"} => (holds <=> Defined)
  BY <1>3, <1>4
<1>6. Directive = "ifndef" => (holds <=> ~Defined)
  BY <1>3, <1>4
<1>7. Directive = "else" => holds
  BY <1>4
<1> QED
  BY <1>5, <1>6, <1>7 DEF holds

\* No conditional is open at the start,
LEMMA FrameInit == Init => FrameInv
<1> SUFFICES ASSUME Init PROVE FrameInv
  OBVIOUS
<1>1. conditionals = << >> /\ visited = << >>
  BY DEF Init
<1> DEFINE open == [k \in 1..0 |-> 1]
<1>2. Len(conditionals) = 0 /\ Len(visited) = 0 /\ 1..0 = {} /\ IsList(conditionals)
  BY <1>1 DEF IsList
<1>3. open \in [1..0 -> 1..0]
  BY <1>2
<1> HIDE DEF open
<1>4. OpenAt(visited, 0 + 1) = {}
  BY DEF OpenAt
<1>5. Opened(visited, 0, 0, open)
  BY <1>2, <1>3, <1>4 DEF Opened
<1>6. Framed(visited, 0, conditionals, open)
  BY <1>2, <1>5 DEF Framed
<1> QED
  BY <1>2, <1>6 DEF FrameInv

\* and every step keeps the frames true to the text.
LEMMA FrameStep == ASSUME ReadingOK, WholeInv, LiveInv, FrameInv, [Next]_pvars PROVE FrameInv'
<1> DEFINE n == Len(visited)
           w == visited'
           m == Len(conditionals)
<1>q. ASSUME UNCHANGED sources, Len(visited') = n + 1,
             \E open : Framed(w, n + 1, conditionals', open)
      PROVE  FrameInv'
  <2>1. PICK open : Framed(w, n + 1, conditionals', open)
    BY <1>q
  <2>2. \A v, k, frames : Framed(v, k, frames, open)' <=> Framed(v, k, frames, open)
    BY <1>q, SameFrames
  <2>3. Framed(visited, Len(visited), conditionals, open)'
    BY <1>q, <2>1, <2>2
  <2> QED
    BY <2>3 DEF FrameInv
<1>1. CASE UNCHANGED pvars
  <2>1. UNCHANGED <<sources, status, visited, conditionals>>
    BY <1>1 DEF pvars
  <2>2. \A open, v, k, frames : Framed(v, k, frames, open)' <=> Framed(v, k, frames, open)
    BY <2>1, SameFrames
  <2> QED
    BY <2>1, <2>2 DEF FrameInv
<1>2. CASE Fail
  BY <1>2 DEF Fail, FrameInv
<1>3. CASE Leaves
  <2>1. status = "running" /\ UNCHANGED <<sources, visited, conditionals>>
    BY <1>3 DEF Leaves
  <2>2. \A open, v, k, frames : Framed(v, k, frames, open)' <=> Framed(v, k, frames, open)
    BY <2>1, SameFrames
  <2> QED
    BY <2>1, <2>2 DEF FrameInv
<1>4. ASSUME InSource, UNCHANGED sources, NEW after, Visit(after)
      PROVE  /\ n \in Nat /\ Len(w) = n + 1 /\ NamedAt(w, n + 1) = Directive
             /\ SelectedAt(w, n + 1) <=> SelectedAt(visited, n + 1)
             /\ \E open : Framed(visited, n, conditionals, open) /\ Framed(w, n, conditionals, open)
  <2>1. /\ n \in Nat /\ Len(w) = n + 1 /\ \A p \in 1..n : w[p] = visited[p]
        /\ NamedAt(w, n + 1) = Directive
    BY <1>4, HistoryNext
  <2>2. PICK open : Framed(visited, n, conditionals, open)
    BY <1>4 DEF FrameInv, InSource
  <2>3. Framed(w, n, conditionals, open)
    BY <2>1, <2>2, FramedSame
  <2>4. SelectedAt(w, n + 1) <=> SelectedAt(visited, n + 1)
    <3>1. SelectedAt(w, n + 1) <=> (m > 0 => conditionals[m].branchActive)
      BY <2>1, <2>3, FramedSelects
    <3>2. SelectedAt(visited, n + 1) <=> (m > 0 => conditionals[m].branchActive)
      BY <2>1, <2>2, FramedSelects
    <3> QED
      BY <3>1, <3>2
  <2> QED
    BY <2>1, <2>2, <2>3, <2>4
<1>5. CASE Neutral
  <2>1. /\ InSource /\ UNCHANGED sources /\ conditionals' = conditionals
        /\ Directive \notin ConditionalNames
    BY <1>5 DEF Neutral
  <2>2. PICK after : Visit(after)
    BY <1>5 DEF Neutral
  <2>3. n \in Nat /\ Len(w) = n + 1 /\ NamedAt(w, n + 1) \notin ConditionalNames
    BY <1>4, <2>1, <2>2
  <2>4. PICK open : Framed(w, n, conditionals, open)
    BY <1>4, <2>1, <2>2
  <2>5. Framed(w, n + 1, conditionals, open)
    BY <2>3, <2>4, FramedPasses
  <2> QED
    BY <1>q, <2>1, <2>3, <2>5
<1>6. CASE OpenConditional
  <2> DEFINE selected == IF Directive = "ifdef" THEN Defined ELSE ~Defined
             f == [parentActive |-> Active, branchTaken |-> selected,
                   branchActive |-> Active /\ selected, sawElse |-> FALSE]
  <2>1. /\ InSource /\ UNCHANGED sources /\ Directive \in {"ifdef", "ifndef"}
        /\ conditionals' = Append(conditionals, f)
    BY <1>6 DEF OpenConditional, OnlyConditionals
  <2>2. PICK after : Visit(after)
    BY <1>6 DEF OpenConditional, Consume
  <2>3. n \in Nat /\ Len(w) = n + 1 /\ NamedAt(w, n + 1) \in {"ifdef", "ifndef"}
        /\ (SelectedAt(w, n + 1) <=> SelectedAt(visited, n + 1))
    BY <1>4, <2>1, <2>2
  <2>4. PICK open : Framed(visited, n, conditionals, open) /\ Framed(w, n, conditionals, open)
    BY <1>4, <2>1, <2>2
  <2>5. Active \in BOOLEAN /\ (Active <=> SelectedAt(visited, n + 1))
    BY <2>3, <2>4, ActiveIsSelected
  <2>6. selected <=> HoldsAt(w, n + 1)
    <3>1. /\ Directive = "ifdef" => (HoldsAt(w, n + 1) <=> Defined)
          /\ Directive = "ifndef" => (HoldsAt(w, n + 1) <=> ~Defined)
      BY <2>1, <2>2, HoldsHere
    <3> QED
      BY <2>1, <3>1
  <2>7. selected \in BOOLEAN
    BY DEF Defined
  <2> HIDE DEF selected
  <2>8. IsFrame(f) /\ f.parentActive = Active /\ f.branchTaken = selected
        /\ (f.branchActive <=> Active /\ selected)
    BY <2>5, <2>7 DEF IsFrame
  <2> HIDE DEF f
  <2>9. f.parentActive <=> SelectedAt(w, n + 1)
    BY <2>3, <2>5, <2>8
  <2>10. f.branchTaken <=> HoldsAt(w, n + 1)
    BY <2>6, <2>8
  <2>11. f.branchActive <=> f.parentActive /\ f.branchTaken
    BY <2>8
  <2>12. IsFrame(f) /\ Framed(w, n, conditionals, open) /\ n \in Nat
         /\ NamedAt(w, n + 1) \in {"ifdef", "ifndef"}
    BY <2>3, <2>4, <2>8
  <2>13. \E more : Framed(w, n + 1, Append(conditionals, f), more)
    <3> HIDE DEF n, w
    <3> QED
      BY <2>9, <2>10, <2>11, <2>12, FramedOpens
  <2>14. \E more : Framed(w, n + 1, conditionals', more)
    <3>1. conditionals' = Append(conditionals, f)
      BY <2>1
    <3> QED
      BY <2>13, <3>1, Zenon
  <2>15. UNCHANGED sources /\ Len(visited') = n + 1
    BY <2>1, <2>3
  <2> QED
    BY <1>q, <2>14, <2>15
<1>7. ASSUME NEW after, Visit(after), InSource, UNCHANGED sources,
             Directive \in {"elsif", "else"}, conditionals # << >>, NEW f, SetFrame(f), IsFrame(f),
             f.parentActive = Frame.parentActive, NEW holds, holds <=> HoldsAt(w, n + 1),
             f.branchActive <=> Frame.parentActive /\ ~Frame.branchTaken /\ holds,
             f.branchTaken <=> Frame.branchTaken \/ holds
      PROVE  FrameInv'
  <2>1. n \in Nat /\ Len(w) = n + 1 /\ NamedAt(w, n + 1) \in {"elsif", "else"}
    BY <1>4, <1>7
  <2>2. PICK open : Framed(visited, n, conditionals, open) /\ Framed(w, n, conditionals, open)
    BY <1>4, <1>7
  <2>3. m > 0 /\ Frame = conditionals[m]
    BY <1>7, <2>1, <2>2, ActiveIsSelected
  <2>4. IsList(conditionals) /\ m \in 1..m
    BY <2>2, <2>3 DEF Framed, IsList
  <2>5. conditionals' = [conditionals EXCEPT ![m] = f]
    BY <1>7 DEF SetFrame
  <2>6. /\ IsList(conditionals') /\ Len(conditionals') = m /\ conditionals'[m] = f
        /\ \A k \in 1..m : k # m => conditionals'[k] = conditionals[k]
    <3> DEFINE other == [conditionals EXCEPT ![m] = f]
    <3>1. /\ IsList(other) /\ Len(other) = m /\ other[m] = f
          /\ \A k \in 1..m : k # m => other[k] = conditionals[k]
      BY <2>4, ListRewritten
    <3> HIDE DEF other
    <3>2. conditionals' = other
      BY <2>5 DEF other
    <3> QED
      BY <3>1, <3>2
  <2>7. Framed(w, n + 1, conditionals', open)
    BY <1>7, <2>1, <2>2, <2>3, <2>6, FramedAlternates
  <2> QED
    BY <1>q, <1>7, <2>1, <2>7
<1>8. CASE ElsifBranch
  <2> DEFINE f == [Frame EXCEPT !.branchActive = Frame.parentActive /\ ~Frame.branchTaken /\ Defined,
                                !.branchTaken = Frame.branchTaken \/ Defined]
  <2>1. /\ InSource /\ UNCHANGED sources /\ Directive = "elsif" /\ conditionals # << >>
        /\ SetFrame(f)
    BY <1>8 DEF ElsifBranch, OnlyConditionals
  <2>2. PICK after : Visit(after)
    BY <1>8 DEF ElsifBranch, Consume
  <2>3. PICK open : Framed(visited, n, conditionals, open)
    BY <1>4, <2>1, <2>2
  <2>4. n \in Nat
    BY <1>4, <2>1, <2>2
  <2>5. IsFrame(Frame)
    BY <2>1, <2>3, <2>4, ActiveIsSelected
  <2>6. IsFrame(f) /\ f.parentActive = Frame.parentActive
        /\ (f.branchActive <=> Frame.parentActive /\ ~Frame.branchTaken /\ Defined)
        /\ (f.branchTaken <=> Frame.branchTaken \/ Defined)
    BY <2>5 DEF IsFrame
  <2>7. Defined <=> HoldsAt(w, n + 1)
    BY <2>1, <2>2, HoldsHere
  <2> HIDE DEF f
  <2> QED
    BY <1>7, <2>1, <2>2, <2>6, <2>7
<1>9. CASE ElseBranch
  <2> DEFINE f == [Frame EXCEPT !.branchActive = Frame.parentActive /\ ~Frame.branchTaken,
                                !.branchTaken = TRUE, !.sawElse = TRUE]
  <2>1. /\ InSource /\ UNCHANGED sources /\ Directive = "else" /\ conditionals # << >>
        /\ SetFrame(f)
    BY <1>9 DEF ElseBranch, OnlyConditionals
  <2>2. PICK after : Visit(after)
    BY <1>9 DEF ElseBranch, Consume
  <2>3. PICK open : Framed(visited, n, conditionals, open)
    BY <1>4, <2>1, <2>2
  <2>4. n \in Nat
    BY <1>4, <2>1, <2>2
  <2>5. IsFrame(Frame)
    BY <2>1, <2>3, <2>4, ActiveIsSelected
  <2>6. IsFrame(f) /\ f.parentActive = Frame.parentActive
        /\ (f.branchActive <=> Frame.parentActive /\ ~Frame.branchTaken)
        /\ f.branchTaken
    BY <2>5 DEF IsFrame
  <2>7. TRUE <=> HoldsAt(w, n + 1)
    BY <2>1, <2>2, HoldsHere
  <2> HIDE DEF f
  <2> QED
    BY <1>7, <2>1, <2>2, <2>6, <2>7
<1>10. CASE CloseConditional
  <2>1. /\ InSource /\ UNCHANGED sources /\ Directive = "endif" /\ conditionals # << >>
        /\ conditionals' = Front(conditionals)
    BY <1>10 DEF CloseConditional, OnlyConditionals
  <2>2. PICK after : Visit(after)
    BY <1>10 DEF CloseConditional, Consume
  <2>3. n \in Nat /\ Len(w) = n + 1 /\ NamedAt(w, n + 1) = "endif"
    BY <1>4, <2>1, <2>2
  <2>4. PICK open : Framed(visited, n, conditionals, open) /\ Framed(w, n, conditionals, open)
    BY <1>4, <2>1, <2>2
  <2>5. m > 0 /\ IsList(conditionals)
    BY <2>1, <2>3, <2>4, ActiveIsSelected DEF Framed
  <2>6. /\ IsList(conditionals') /\ Len(conditionals') = m - 1
        /\ \A k \in 1..m - 1 : conditionals'[k] = conditionals[k]
    BY <2>1, <2>5, ListShortened
  <2>7. \E less : Framed(w, n + 1, conditionals', less)
    BY <2>3, <2>4, <2>5, <2>6, FramedCloses
  <2> QED
    BY <1>q, <2>1, <2>3, <2>7
<1> QED
  BY <1>1, <1>2, <1>3, <1>5, <1>6, <1>8, <1>9, <1>10, BranchSteps

\* Nothing is read before the first step,
LEMMA BranchesInit == Init => BranchesAsWritten
<1> SUFFICES ASSUME Init PROVE BranchesAsWritten
  OBVIOUS
<1>1. Len(visited) = 0
  BY DEF Init
<1> QED
  BY <1>1 DEF BranchesAsWritten

\* and what a step reads it takes for what it is.
LEMMA BranchesStep ==
    ASSUME ReadingOK, WholeInv, FrameInv, BranchesAsWritten, [Next]_pvars PROVE BranchesAsWritten'
<1>1. ASSUME UNCHANGED <<sources, visited>> PROVE BranchesAsWritten'
  <2>1. \A v, n : (SelectedAt(v, n)' <=> SelectedAt(v, n)) /\ NamedAt(v, n)' = NamedAt(v, n)
    BY <1>1, SameFrames
  <2> QED
    BY <1>1, <2>1 DEF BranchesAsWritten
<1>2. ASSUME InSource, UNCHANGED sources, NEW after, Visit(after) PROVE BranchesAsWritten'
  <2> DEFINE n == Len(visited)
  <2>1. /\ n \in Nat /\ Len(visited') = n + 1 /\ \A p \in 1..n : visited'[p] = visited[p]
        /\ visited'[n + 1].active = Active
    BY <1>2, HistoryNext
  <2>2. PICK open : Framed(visited, n, conditionals, open)
    BY <1>2 DEF FrameInv, InSource
  <2>3. Framed(visited', n, conditionals, open)
    BY <2>1, <2>2, FramedSame
  <2>4. SelectedAt(visited', n + 1) <=> SelectedAt(visited, n + 1)
    <3> DEFINE m == Len(conditionals)
    <3>1. SelectedAt(visited', n + 1) <=> (m > 0 => conditionals[m].branchActive)
      BY <2>1, <2>3, FramedSelects
    <3>2. SelectedAt(visited, n + 1) <=> (m > 0 => conditionals[m].branchActive)
      BY <2>1, <2>2, FramedSelects
    <3> QED
      BY <3>1, <3>2
  <2>5. Active <=> SelectedAt(visited, n + 1)
    BY <2>1, <2>2, ActiveIsSelected
  <2>6. \A v, k : SelectedAt(v, k)' <=> SelectedAt(v, k)
    BY <1>2, SameFrames
  <2>7. visited'[Len(visited')].active <=> SelectedAt(visited, Len(visited))'
    BY <2>1, <2>4, <2>5, <2>6
  <2> QED
    BY <2>7 DEF BranchesAsWritten
<1>3. CASE UNCHANGED pvars
  BY <1>1, <1>3 DEF pvars
<1>4. CASE Fail
  BY <1>1, <1>4 DEF Fail
<1>5. CASE Leaves
  BY <1>1, <1>5 DEF Leaves
<1>6. CASE Neutral
  BY <1>2, <1>6 DEF Neutral
<1>7. CASE OpenConditional
  BY <1>2, <1>7 DEF OpenConditional, OnlyConditionals, Consume
<1>8. CASE ElsifBranch
  BY <1>2, <1>8 DEF ElsifBranch, OnlyConditionals, Consume
<1>9. CASE ElseBranch
  BY <1>2, <1>9 DEF ElseBranch, OnlyConditionals, Consume
<1>10. CASE CloseConditional
  BY <1>2, <1>10 DEF CloseConditional, OnlyConditionals, Consume
<1> QED
  BY <1>3, <1>4, <1>5, <1>6, <1>7, <1>8, <1>9, <1>10, BranchSteps

\* The frames agree with the text.
LEMMA FramesAlways == Spec => []FrameInv
<1>1. Init => FrameInv
  BY FrameInit
<1>2. ReadingOK /\ WholeInv /\ LiveInv /\ FrameInv /\ [Next]_pvars => FrameInv'
  BY FrameStep
<1> QED
  BY <1>1, <1>2, ReadingAlways, WholeAlways, LiveAlways, PTL DEF Spec

\* For all sources the text a conditional selects is that of its first alternative that
\* holds, inside selected text, whatever the nesting, the definitions and the inclusions
\* in between (handle_conditional, conditional_active).
THEOREM BranchesAlwaysAsWritten == Spec => []BranchesAsWritten
<1>1. Init => BranchesAsWritten
  BY BranchesInit
<1>2. ReadingOK /\ WholeInv /\ FrameInv /\ BranchesAsWritten /\ [Next]_pvars => BranchesAsWritten'
  BY BranchesStep
<1> QED
  BY <1>1, <1>2, ReadingAlways, WholeAlways, FramesAlways, PTL DEF Spec

=============================================================================
