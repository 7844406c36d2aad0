------------------------- MODULE SourceLayoutProofs -------------------------
(***************************************************************************)
(* What is emitted is what was written (SourceLayout), for every source    *)
(* file in which modules end before others begin.                          *)
(*                                                                         *)
(* The argument goes on from what the parser makes of a file               *)
(* (SourceTreeProofs).                                                     *)
(*   - The output model: a second module gets no range, so its span fails  *)
(*     (TwoModulesFail), and what has an output has one module.            *)
(*   - The emitter's test: the spans never go back, so they cover every    *)
(*     byte but those of the declarations (TreeKnown).                     *)
(*   - All the slots are children of the module (OneModule), and its lines *)
(*     are all that is emitted (RenderedModule).                           *)
(***************************************************************************)
EXTENDS SourceTreeProofs

-----------------------------------------------------------------------------
(* The output model, and why it has no second module. *)

\* A list of which a record is given another range.
Ranged(list, j, r) == [list EXCEPT ![j].range = r]

\* Its other fields and the other records stay.
LEMMA ListChanged ==
    ASSUME NEW list, NEW j, NEW r, IsList(list)
    PROVE  /\ IsList(Ranged(list, j, r)) /\ Len(Ranged(list, j, r)) = Len(list)
           /\ Len(list) \in Nat
           /\ \A i \in 1 .. Len(list) :
                 Ranged(list, j, r)[i] = IF i = j THEN [list[i] EXCEPT !.range = r] ELSE list[i]
<1> DEFINE changed == [list EXCEPT ![j].range = r]
           record == [list[j] EXCEPT !.range = r]
<1>1. PICK R : list \in Seq(R)
  BY DEF IsList
<1>2. Len(list) \in Nat /\ DOMAIN list = 1 .. Len(list) /\ \A i \in 1 .. Len(list) : list[i] \in R
  BY <1>1
<1>3. changed = [i \in 1 .. Len(list) |-> IF i = j THEN record ELSE list[i]]
  BY <1>1, <1>2
<1> HIDE DEF record, changed
<1>4. [i \in 1 .. Len(list) |-> IF i = j THEN record ELSE list[i]]
          \in [1 .. Len(list) -> R \cup {record}]
  BY <1>2
<1>5. changed \in Seq(R \cup {record}) /\ Len(changed) = Len(list)
  BY <1>2, <1>3, <1>4
<1>6. \A i \in 1 .. Len(list) : changed[i] = IF i = j THEN record ELSE list[i]
  BY <1>3
<1>7. IsList(changed)
  BY <1>5 DEF IsList
<1> QED
  BY <1>2, <1>5, <1>6, <1>7 DEF changed, record, Ranged

\* What a slot keeps of a node.
SlotOf(node, range) ==
    [kind |-> node.kind, at |-> node.at, first |-> node.first, end |-> node.end, range |-> range]

\* The slots of the first n nodes, in their order.
LaidOf(slots, n, tree) ==
    /\ IsList(slots)
    /\ \E place \in [1 .. Len(slots) -> 1 .. n] :
          /\ \A i, j \in 1 .. Len(slots) : i < j => place[i] < place[j]
          /\ \A i \in 1 .. Len(slots) : slots[i] = SlotOf(tree[place[i]], slots[i].range)
          /\ \A i \in 1 .. Len(slots) : tree[place[i]].kind \notin Layout!Tracked
          /\ \A k \in 1 .. n : tree[k].kind \notin Layout!Tracked =>
                \E i \in 1 .. Len(slots) : place[i] = k

\* One more slot, at most a range of an earlier one changed.
LEMMA LayOne ==
    ASSUME NEW tree, NEW n \in Nat, n # 0, NEW slots, LaidOf(slots, n - 1, tree),
           tree[n].kind \notin Layout!Tracked,
           NEW longer, IsList(longer), Len(longer) = Len(slots) + 1,
           \A i \in 1 .. Len(slots) : \E range : longer[i] = SlotOf(slots[i], range),
           \E range : longer[Len(slots) + 1] = SlotOf(tree[n], range)
    PROVE  LaidOf(longer, n, tree)
<1>1. IsList(slots)
  BY DEF LaidOf
<1>2. Len(slots) \in Nat
  <2>1. PICK R : slots \in Seq(R)
    BY <1>1 DEF IsList
  <2> QED
    BY <2>1
<1>3. PICK place \in [1 .. Len(slots) -> 1 .. n - 1] :
          /\ \A i, j \in 1 .. Len(slots) : i < j => place[i] < place[j]
          /\ \A i \in 1 .. Len(slots) : slots[i] = SlotOf(tree[place[i]], slots[i].range)
          /\ \A i \in 1 .. Len(slots) : tree[place[i]].kind \notin Layout!Tracked
          /\ \A k \in 1 .. n - 1 : tree[k].kind \notin Layout!Tracked =>
                \E i \in 1 .. Len(slots) : place[i] = k
  BY DEF LaidOf
<1> DEFINE there == [i \in 1 .. Len(longer) |-> IF i <= Len(slots) THEN place[i] ELSE n]
<1>4. there \in [1 .. Len(longer) -> 1 .. n]
  <2> SUFFICES ASSUME NEW i \in 1 .. Len(longer)
               PROVE  (IF i <= Len(slots) THEN place[i] ELSE n) \in 1 .. n
    OBVIOUS
  <2>1. i <= Len(slots) => i \in 1 .. Len(slots)
    BY <1>2
  <2> QED
    BY <1>3, <2>1
<1>5. /\ there[Len(slots) + 1] = n
      /\ \A i \in 1 .. Len(slots) : there[i] = place[i] /\ place[i] \in 1 .. n - 1
  BY <1>2, <1>3
<1>6. 1 .. Len(longer) = 1 .. Len(slots) \cup {Len(slots) + 1}
  BY <1>2
<1> HIDE DEF there
<1>7. ASSUME NEW i \in 1 .. Len(longer), NEW j \in 1 .. Len(longer), i < j
      PROVE  there[i] < there[j]
  <2>1. i \in 1 .. Len(slots)
    BY <1>2, <1>6, <1>7
  <2> QED
    BY <1>2, <1>3, <1>5, <1>6, <1>7, <2>1
<1>8. ASSUME NEW i \in 1 .. Len(longer)
      PROVE  /\ longer[i] = SlotOf(tree[there[i]], longer[i].range)
             /\ tree[there[i]].kind \notin Layout!Tracked
  <2>1. CASE i = Len(slots) + 1
    <3>1. PICK range : longer[i] = SlotOf(tree[n], range)
      BY <2>1
    <3> QED
      BY <1>5, <2>1, <3>1 DEF SlotOf
  <2>2. CASE i \in 1 .. Len(slots)
    <3>1. PICK range : longer[i] = SlotOf(slots[i], range)
      BY <2>2
    <3>2. slots[i] = SlotOf(tree[place[i]], slots[i].range) /\ there[i] = place[i]
          /\ tree[place[i]].kind \notin Layout!Tracked
      BY <1>3, <1>5, <2>2
    <3>3. SlotOf(slots[i], range) = SlotOf(tree[place[i]], range)
      BY <3>2 DEF SlotOf
    <3> QED
      BY <3>1, <3>2, <3>3 DEF SlotOf
  <2> QED
    BY <1>6, <2>1, <2>2
<1>9. ASSUME NEW k \in 1 .. n, tree[k].kind \notin Layout!Tracked
      PROVE  \E i \in 1 .. Len(longer) : there[i] = k
  <2>1. CASE k = n
    BY <1>5, <1>6, <2>1
  <2>2. CASE k # n
    <3>1. k \in 1 .. n - 1
      BY <2>2
    <3> QED
      BY <1>3, <1>5, <1>6, <1>9, <3>1
  <2> QED
    BY <2>1, <2>2
<1> QED
  BY <1>4, <1>7, <1>8, <1>9 DEF LaidOf

\* A node that has no slot.
LEMMA LayNone ==
    ASSUME NEW tree, NEW n \in Nat, n # 0, NEW slots, LaidOf(slots, n - 1, tree),
           tree[n].kind \in Layout!Tracked
    PROVE  LaidOf(slots, n, tree)
<1>1. PICK place \in [1 .. Len(slots) -> 1 .. n - 1] :
          /\ \A i, j \in 1 .. Len(slots) : i < j => place[i] < place[j]
          /\ \A i \in 1 .. Len(slots) : slots[i] = SlotOf(tree[place[i]], slots[i].range)
          /\ \A i \in 1 .. Len(slots) : tree[place[i]].kind \notin Layout!Tracked
          /\ \A k \in 1 .. n - 1 : tree[k].kind \notin Layout!Tracked =>
                \E i \in 1 .. Len(slots) : place[i] = k
  BY DEF LaidOf
<1>2. place \in [1 .. Len(slots) -> 1 .. n]
  <2>1. 1 .. n - 1 \subseteq 1 .. n
    OBVIOUS
  <2> QED
    BY <2>1
<1>3. \A k \in 1 .. n : tree[k].kind \notin Layout!Tracked => k \in 1 .. n - 1
  OBVIOUS
<1>4. IsList(slots)
  BY DEF LaidOf
<1> QED
  BY <1>1, <1>2, <1>3, <1>4 DEF LaidOf

\* A model that has not failed, with its fields and those of its ranges; and one that has.
Sound(model) ==
    /\ model = [items |-> model.items, nested |-> model.nested, failed |-> FALSE]
    /\ model.nested = [capacity |-> model.nested.capacity, count |-> model.nested.count,
                       of |-> model.nested.of]
Failed(model) == model.failed = TRUE

\* It has not failed.
LEMMA SoundIs == ASSUME NEW model, Sound(model) PROVE model.failed = FALSE
<1> DEFINE record(a, b) == [items |-> a, nested |-> b, failed |-> FALSE]
<1>1. \A a, b : record(a, b).failed = FALSE
  OBVIOUS
<1>2. model = record(model.items, model.nested)
  BY DEF Sound
<1> HIDE DEF record
<1> QED
  BY <1>1, <1>2, Zenon

\* A model made of slots and ranges has not failed.
LEMMA SoundMade ==
    ASSUME NEW slots, NEW ranges,
           ranges = [capacity |-> ranges.capacity, count |-> ranges.count, of |-> ranges.of]
    PROVE  LET model == [items |-> slots, nested |-> ranges, failed |-> FALSE]
           IN  Sound(model) /\ model.items = slots /\ model.nested = ranges
<1> DEFINE model == [items |-> slots, nested |-> ranges, failed |-> FALSE]
<1>1. model.items = slots /\ model.nested = ranges
  OBVIOUS
<1>2. model = [items |-> slots, nested |-> ranges, failed |-> FALSE]
  OBVIOUS
<1> HIDE DEF model
<1>3. Sound(model)
  BY <1>1, <1>2, Zenon DEF Sound
<1> QED
  BY <1>1, <1>3 DEF model

\* One that is made to fail has.
LEMMA FailedMade == ASSUME NEW model, Sound(model) PROVE Failed([model EXCEPT !.failed = TRUE])
<1>1. \A a, b : [[items |-> a, nested |-> b, failed |-> FALSE] EXCEPT !.failed = TRUE].failed = TRUE
  OBVIOUS
<1>2. model = [items |-> model.items, nested |-> model.nested, failed |-> FALSE]
  BY Zenon DEF Sound
<1> QED
  BY <1>1, <1>2, Zenon DEF Failed

\* What a node does that has a slot and heads no module.
LEMMA LayChild ==
    ASSUME NEW tree, NEW model, NEW node, Sound(model),
           node.kind \notin Layout!Tracked \cup {"module"}
    PROVE  Layout!Lay(tree, model, node) =
               IF node.module # 0
               THEN Layout!AddChild(model, Layout!KeyOf(tree, node.module), node)
               ELSE [model EXCEPT !.items = Append(@, Layout!Slot(node))]
<1> DEFINE stays == model.failed \/ node.kind \in Layout!Tracked
           head == node.kind = "module"
           open == Layout!Open(model, Layout!KeyOf(tree, node.at), node)
           child == Layout!AddChild(model, Layout!KeyOf(tree, node.module), node)
           top == [model EXCEPT !.items = Append(@, Layout!Slot(node))]
<1>1. Layout!Lay(tree, model, node) =
          IF stays THEN model ELSE IF head THEN open ELSE IF node.module # 0 THEN child ELSE top
  BY DEF Layout!Lay
<1>2. ~stays /\ ~head
  BY SoundIs, Zenon
<1> HIDE DEF stays, head, open, child, top
<1>3. Layout!Lay(tree, model, node) = IF node.module # 0 THEN child ELSE top
  BY <1>1, <1>2
<1> QED
  BY <1>3 DEF child, top

\* What a child does to the model: without a range for its module the model fails,
LEMMA AddChildFails ==
    ASSUME NEW model, NEW key, NEW node, Sound(model), key >= model.nested.count
    PROVE  Failed(Layout!AddChild(model, key, node))
<1> DEFINE none == key >= model.nested.count
           failed == [model EXCEPT !.failed = TRUE]
           grown == LET range == [model.nested.of[key] EXCEPT !.count = @ + 1]
                    IN  [items |-> [Append(model.items, Layout!Slot(node)) EXCEPT
                                       ![range.first - 1].range = range],
                         nested |-> [model.nested EXCEPT
                                       !.of = Layout!WithRange(@, key, range)],
                         failed |-> FALSE]
<1>1. Layout!AddChild(model, key, node) = IF none THEN failed ELSE grown
  BY Zenon DEF Layout!AddChild
<1>2. none /\ Failed(failed)
  BY FailedMade, Zenon
<1> HIDE DEF none, failed, grown
<1> QED
  BY <1>1, <1>2, Zenon

\* and with one it has another slot and a range with one more child.
LEMMA AddChildGrows ==
    ASSUME NEW model, NEW key, NEW node, ~(key >= model.nested.count)
    PROVE  LET range == [model.nested.of[key] EXCEPT !.count = @ + 1]
           IN  Layout!AddChild(model, key, node) =
                   [items |-> [Append(model.items, Layout!Slot(node)) EXCEPT
                                  ![range.first - 1].range = range],
                    nested |-> [model.nested EXCEPT
                                  !.of = Layout!WithRange(model.nested.of, key, range)],
                    failed |-> FALSE]
<1> DEFINE none == key >= model.nested.count
           failed == [model EXCEPT !.failed = TRUE]
           range == [model.nested.of[key] EXCEPT !.count = @ + 1]
           grown == [items |-> [Append(model.items, Layout!Slot(node)) EXCEPT
                                   ![range.first - 1].range = range],
                     nested |-> [model.nested EXCEPT
                                   !.of = Layout!WithRange(model.nested.of, key, range)],
                     failed |-> FALSE]
<1>1. Layout!AddChild(model, key, node) = IF none THEN failed ELSE grown
  BY Zenon DEF Layout!AddChild
<1>2. ~none
  OBVIOUS
<1> HIDE DEF none, failed, grown
<1>3. Layout!AddChild(model, key, node) = grown
  BY <1>1, <1>2, Zenon
<1> QED
  BY <1>3, Zenon DEF grown, range

\* The range of a module that has no children yet.
Opened(model) == [first |-> Len(model.items) + 2, count |-> 0]

\* What the head of a module does to the model.
LEMMA LayModule ==
    ASSUME NEW tree, NEW model, NEW node, Sound(model),
           node.kind = "module"
    PROVE  LET key == Layout!KeyOf(tree, node.at)
               laid == Layout!Lay(tree, model, node)
           IN  /\ laid.items = Append(model.items, SlotOf(node, Opened(model)))
               /\ Sound(laid)
               /\ laid.nested.capacity = Layout!Ensure(model.nested, key + 1).capacity
               /\ laid.nested.count = Layout!Ensure(model.nested, key + 1).count
               /\ laid.nested.of = Layout!WithRange(model.nested.of, key, Opened(model))
<1> DEFINE key == Layout!KeyOf(tree, node.at)
           slot == [Layout!Slot(node) EXCEPT !.range = Opened(model)]
           ensured == Layout!Ensure(model.nested, key + 1)
           of == Layout!WithRange(ensured.of, key, Opened(model))
           ranges == [ensured EXCEPT !.of = of]
           longer == Append(model.items, slot)
<1>1. Layout!Lay(tree, model, node) = Layout!Open(model, key, node)
  BY SoundIs DEF Layout!Lay, Layout!Tracked
<1>2. slot = SlotOf(node, Opened(model))
  BY DEF Layout!Slot, SlotOf
<1>3. Layout!Open(model, key, node) = [items |-> longer, nested |-> ranges, failed |-> FALSE]
  BY DEF Layout!Open, Opened
<1> HIDE DEF key
<1>4. /\ ensured = [capacity |-> ensured.capacity, count |-> ensured.count, of |-> ensured.of]
      /\ ensured.of = model.nested.of
  BY DEF Layout!Ensure, Sound
<1> HIDE DEF slot, ensured
<1> HIDE DEF of
<1>5. ranges = [capacity |-> ensured.capacity, count |-> ensured.count, of |-> of]
  BY <1>4
<1> HIDE DEF ranges, longer
<1>7. of = Layout!WithRange(model.nested.of, key, Opened(model))
  BY <1>4 DEF of
<1>8. longer = Append(model.items, SlotOf(node, Opened(model)))
  BY <1>2 DEF longer
<1> DEFINE laid == Layout!Lay(tree, model, node)
<1>9. laid = [items |-> longer, nested |-> ranges, failed |-> FALSE]
  BY <1>1, <1>3
<1> HIDE DEF laid
<1>10. laid.items = longer /\ laid.nested = ranges /\ Sound(laid)
  BY <1>5, <1>9 DEF Sound
<1> QED
  BY <1>5, <1>7, <1>8, <1>10 DEF key, ensured, laid

\* A model that has failed stays as it is, and so does any at an item without a slot.
LEMMA LayKeeps ==
    ASSUME NEW tree, NEW model, NEW node,
           Failed(model) \/ (Sound(model) /\ node.kind \in Layout!Tracked)
    PROVE  Layout!Lay(tree, model, node) = model
  BY SoundIs DEF Layout!Lay, Failed

\* Where a module has no range the model fails.
LEMMA LayFails ==
    ASSUME NEW tree, NEW model, NEW node, Sound(model),
           node.kind \notin Layout!Tracked \cup {"module"}, node.module # 0,
           Layout!KeyOf(tree, node.module) >= model.nested.count
    PROVE  Failed(Layout!Lay(tree, model, node))
<1> DEFINE key == Layout!KeyOf(tree, node.module)
           laid == Layout!Lay(tree, model, node)
           child == Layout!AddChild(model, key, node)
           top == [model EXCEPT !.items = Append(@, Layout!Slot(node))]
<1>1. laid = (IF node.module # 0 THEN child ELSE top)
  BY LayChild, Zenon
<1>2. Failed(child)
  BY AddChildFails, Zenon
<1> HIDE DEF laid, child, top
<1>3. Failed(laid)
  BY <1>1, <1>2, Zenon
<1> QED
  BY <1>3, Zenon DEF laid

\* A node that heads no module leaves the number of ranges.
LEMMA LayOther ==
    ASSUME NEW tree, NEW model, NEW node, Sound(model),
           node.kind # "module"
    PROVE  LET laid == Layout!Lay(tree, model, node)
           IN  \/ Failed(laid)
               \/ /\ Sound(laid)
                  /\ laid.nested.capacity = model.nested.capacity
                  /\ laid.nested.count = model.nested.count
<1> DEFINE laid == Layout!Lay(tree, model, node)
<1>1. CASE node.kind \in Layout!Tracked
  BY <1>1, LayKeeps
<1>2. CASE node.kind \notin Layout!Tracked /\ node.module = 0
  <2>1. laid = [model EXCEPT !.items = Append(@, Layout!Slot(node))]
    BY <1>2, LayChild
  <2> DEFINE longer == Append(model.items, Layout!Slot(node))
  <2>2. laid = [items |-> longer, nested |-> model.nested, failed |-> FALSE]
    <3> HIDE DEF laid
    <3>1. laid = [model EXCEPT !.items = longer]
      BY <2>1
    <3> HIDE DEF longer
    <3>2. model = [items |-> model.items, nested |-> model.nested, failed |-> FALSE]
      BY DEF Sound
    <3>3. \A no : model = [items |-> model.items, nested |-> model.nested, failed |-> no] =>
              [model EXCEPT !.items = longer] =
                  [items |-> longer, nested |-> model.nested, failed |-> no]
      OBVIOUS
    <3> QED
      BY <3>1, <3>2, <3>3, Zenon
  <2> DEFINE ranges == model.nested
  <2>3. ranges = [capacity |-> ranges.capacity, count |-> ranges.count, of |-> ranges.of]
    BY DEF Sound
  <2> HIDE DEF laid, longer, ranges
  <2>4. Sound(laid) /\ laid.nested = ranges
    BY <2>2, <2>3, SoundMade DEF ranges
  <2> QED
    BY <2>4 DEF laid, ranges
<1>3. CASE node.kind \notin Layout!Tracked /\ node.module # 0
  <2> DEFINE key == Layout!KeyOf(tree, node.module)
  <2>1. laid = Layout!AddChild(model, key, node)
    BY <1>3, LayChild
  <2> HIDE DEF laid, key
  <2>2. CASE key >= model.nested.count
    <3>1. Failed(laid)
      BY <2>1, <2>2, AddChildFails, Zenon
    <3> QED
      BY <3>1, Zenon DEF laid
  <2>3. CASE ~(key >= model.nested.count)
    <3> DEFINE range == [model.nested.of[key] EXCEPT !.count = @ + 1]
               longer == [Append(model.items, Layout!Slot(node)) EXCEPT
                             ![range.first - 1].range = range]
               of == Layout!WithRange(model.nested.of, key, range)
    <3>1. laid = [items |-> longer, nested |-> [model.nested EXCEPT !.of = of], failed |-> FALSE]
      BY <2>1, <2>3, AddChildGrows, Zenon
    <3> DEFINE ranges == [model.nested EXCEPT !.of = of]
    <3> HIDE DEF longer, of
    <3>2. /\ ranges.capacity = model.nested.capacity /\ ranges.count = model.nested.count
          /\ ranges = [capacity |-> ranges.capacity, count |-> ranges.count, of |-> ranges.of]
      BY DEF Sound
    <3> HIDE DEF ranges
    <3>3. Sound(laid) /\ laid.nested = ranges
      BY <3>1, <3>2, SoundMade DEF ranges
    <3>4. /\ laid.nested.capacity = model.nested.capacity
          /\ laid.nested.count = model.nested.count
      BY <3>2, <3>3, Zenon
    <3> QED
      BY <3>3, <3>4, Zenon DEF laid
  <2> QED
    BY <2>2, <2>3
<1> QED
  BY <1>1, <1>2, <1>3

\* The head of two modules: the number of ranges is that of the first.
LEMMA NestedEnsured ==
    ASSUME NEW ranges, NEW key \in Nat,
           ranges = [capacity |-> ranges.capacity, count |-> ranges.count, of |-> ranges.of]
    PROVE  LET ensured == Layout!Ensure(ranges, key + 1)
           IN  /\ ranges.capacity = 0 /\ key = 0 => ensured.capacity = 8 /\ ensured.count = 1
               /\ ranges.capacity = 8 /\ key < 8 =>
                     ensured.capacity = 8 /\ ensured.count = ranges.count
<1> DEFINE ensured == Layout!Ensure(ranges, key + 1)
<1>1. ASSUME ranges.capacity = 0, key = 0
      PROVE  ensured.capacity = 8 /\ ensured.count = 1
  <2>1. ensured = [ranges EXCEPT !.capacity = 8, !.count = 1]
    BY <1>1 DEF Layout!Ensure
  <2> QED
    BY <2>1
<1>2. ASSUME ranges.capacity = 8, key < 8
      PROVE  ensured.capacity = 8 /\ ensured.count = ranges.count
  BY <1>2 DEF Layout!Ensure
<1> QED
  BY <1>1, <1>2

\* Places of nodes that are items are ordered as the chunks are.
LEMMA PlacesOrdered ==
    ASSUME NEW file, NEW k \in Nat, NEW made, NodesOK(made, k, file),
           NEW i \in 1 .. Len(made), NEW j \in 1 .. Len(made),
           made[i].kind # "opaque", made[j].kind # "opaque"
    PROVE  /\ Len(made) \in Nat /\ DOMAIN made = 1 .. Len(made)
           /\ made[i].at \in 1 .. k /\ made[i].kind = file[made[i].at]
           /\ made[i].at <= made[j].at => i <= j
           /\ made[i].at = made[j].at => i = j
<1>1. IsList(made)
  BY DEF NodesOK
<1>2. Len(made) \in Nat /\ DOMAIN made = 1 .. Len(made)
  BY <1>1 DEF IsList
<1>3. /\ made[i].at \in 1 .. k /\ made[i].kind = file[made[i].at]
      /\ made[j].at \in 1 .. k
  BY DEF NodesOK
<1>4. /\ i < j => made[i].at < made[j].at
      /\ j < i => made[j].at < made[i].at
  BY DEF NodesOK
<1> QED
  BY <1>2, <1>3, <1>4

\* The cardinality of the layout is that of the library.
LEMMA LayoutCardinality == \A S : Layout!Cardinality(S) = Cardinality(S)
BY DEF Layout!Cardinality, Cardinality

\* The keys of the first two heads.
LEMMA FirstKeys ==
    ASSUME NEW file, Len(file) \in Nat, NEW tree, NodesOK(tree, Len(file), file),
           NEW a \in 1 .. Len(file), file[a] = "module",
           \A i \in 1 .. Len(file) : file[i] = "module" => a <= i
    PROVE  /\ Layout!KeyOf(tree, a) = 0
           /\ \A b \in 1 .. Len(file) :
                 /\ a < b /\ file[b] = "module"
                 /\ \A i \in 1 .. Len(file) : file[i] = "module" /\ i # a => b <= i
                 => Layout!KeyOf(tree, b) = 1
<1>1. Len(tree) \in Nat /\ DOMAIN tree = 1 .. Len(tree)
  <2>1. IsList(tree)
    BY DEF NodesOK
  <2> QED
    BY <2>1 DEF IsList
<1>2. \A i \in DOMAIN tree : tree[i].kind = "module" =>
          tree[i].at \in 1 .. Len(file) /\ file[tree[i].at] = "module" /\ tree[i].kind # "opaque"
  BY <1>1 DEF NodesOK
<1>3. Layout!KeyOf(tree, a) = 0
  <2> DEFINE before == {i \in DOMAIN tree : tree[i].kind = "module" /\ tree[i].at < a}
  <2>1. before = {}
    BY <1>2
  <2>2. Layout!KeyOf(tree, a) = Cardinality(before)
    BY LayoutCardinality DEF Layout!KeyOf
  <2> HIDE DEF before
  <2> QED
    BY <2>1, <2>2, FS_EmptySet
<1>4. ASSUME NEW b \in 1 .. Len(file), a < b, file[b] = "module",
             \A i \in 1 .. Len(file) : file[i] = "module" /\ i # a => b <= i
      PROVE  Layout!KeyOf(tree, b) = 1
  <2> DEFINE before == {i \in DOMAIN tree : tree[i].kind = "module" /\ tree[i].at < b}
  <2>1. PICK j \in 1 .. Len(tree) : tree[j].kind = file[a] /\ tree[j].at = a
    BY DEF NodesOK, ItemKinds
  <2>2. \A i \in before : i = j
    <3> SUFFICES ASSUME NEW i \in DOMAIN tree, tree[i].kind = "module", tree[i].at < b
                 PROVE  i = j
      OBVIOUS
    <3>1. tree[i].at \in 1 .. Len(file) /\ file[tree[i].at] = "module"
      BY <1>2
    <3>2. tree[i].at = a
      BY <1>4, <3>1
    <3> QED
      BY <1>1, <2>1, <3>2, PlacesOrdered
  <2>3. j \in before
    BY <1>1, <1>4, <2>1
  <2>4. before = {j}
    BY <2>2, <2>3
  <2>5. Layout!KeyOf(tree, b) = Cardinality(before)
    BY LayoutCardinality DEF Layout!KeyOf
  <2> HIDE DEF before
  <2> QED
    BY <2>4, <2>5, FS_Singleton
<1> QED
  BY <1>3, <1>4

\* A model that has failed has failed in the end.
LEMMA FailedStays ==
    ASSUME NEW tree, Len(tree) \in Nat, NEW g, ModelStates(g, tree),
           NEW i \in 0 .. Len(tree), Failed(g[i])
    PROVE  Failed(g[Len(tree)])
<1> SUFFICES ASSUME ~Failed(g[Len(tree)])
             PROVE  FALSE
  OBVIOUS
<1> DEFINE bad == {n \in i .. Len(tree) : ~Failed(g[n])}
<1>1. bad \subseteq Nat /\ Len(tree) \in bad
  <2>1. i .. Len(tree) \subseteq Nat /\ Len(tree) \in i .. Len(tree)
    OBVIOUS
  <2> QED
    BY <2>1
<1>2. PICK n \in bad : \A m \in bad : n <= m
  <2> HIDE DEF bad
  <2> QED
    BY <1>1, LeastNumber
<1>3. n \in 1 .. Len(tree) /\ n - 1 \in i .. Len(tree) /\ n - 1 \notin bad
  BY <1>2
<1>4. Failed(g[n - 1])
  BY <1>3
<1>5. g[n] = Layout!Lay(tree, g[n - 1], tree[n])
  BY <1>3 DEF ModelStates
<1>6. g[n] = g[n - 1]
  BY <1>4, <1>5, LayKeeps
<1> QED
  BY <1>2, <1>4, <1>6

\* What the model knows of ranges up to a node of the second module.
TwoHeads(model, n, first) ==
    \/ Failed(model)
    \/ /\ Sound(model)
       /\ IF n < first THEN model.nested.capacity = 0 /\ model.nested.count = 0
                       ELSE model.nested.capacity = 8 /\ model.nested.count = 1

\* The head of the first or of the second module keeps it.
LEMMA TwoHeadsModule ==
    ASSUME NEW tree, NEW model, NEW n \in Nat, NEW first \in Nat, NEW second \in Nat,
           n # 0, first < second, TwoHeads(model, n - 1, first), tree[n].kind = "module",
           \/ n = first /\ Layout!KeyOf(tree, tree[n].at) = 0
           \/ n = second /\ Layout!KeyOf(tree, tree[n].at) = 1
    PROVE  TwoHeads(Layout!Lay(tree, model, tree[n]), n, first)
<1>1. CASE Failed(model)
  BY <1>1, LayKeeps DEF TwoHeads
<1>2. CASE ~Failed(model)
  <2> DEFINE laid == Layout!Lay(tree, model, tree[n])
             key == Layout!KeyOf(tree, tree[n].at)
             ensured == Layout!Ensure(model.nested, key + 1)
  <2>1. Sound(model)
    BY <1>2 DEF TwoHeads
  <2>2. /\ Sound(laid)
        /\ laid.nested.capacity = ensured.capacity /\ laid.nested.count = ensured.count
    BY <2>1, LayModule
  <2> HIDE DEF laid
  <2>3. /\ model.nested.capacity = 0 /\ key = 0 => ensured.capacity = 8 /\ ensured.count = 1
        /\ model.nested.capacity = 8 /\ key < 8 =>
              ensured.capacity = 8 /\ ensured.count = model.nested.count
    <3>1. key \in Nat
      OBVIOUS
    <3>2. model.nested = [capacity |-> model.nested.capacity, count |-> model.nested.count,
                          of |-> model.nested.of]
      BY <2>1 DEF Sound
    <3> HIDE DEF key, ensured
    <3> QED
      BY <3>1, <3>2, NestedEnsured DEF ensured
  <2> HIDE DEF ensured
  <2>4. CASE n = first /\ key = 0
    <3>1. model.nested.capacity = 0
      BY <1>2, <2>4 DEF TwoHeads
    <3> QED
      BY <2>2, <2>3, <2>4, <3>1 DEF TwoHeads, laid
  <2>5. CASE n = second /\ key = 1
    <3>1. model.nested.capacity = 8 /\ model.nested.count = 1
      BY <1>2, <2>5 DEF TwoHeads
    <3> QED
      BY <2>2, <2>3, <2>5, <3>1 DEF TwoHeads, laid
  <2> QED
    BY <2>4, <2>5
<1> QED
  BY <1>1, <1>2

\* Any other node keeps it.
LEMMA TwoHeadsOther ==
    ASSUME NEW tree, NEW model, NEW n \in Nat, NEW first \in Nat, n # 0, n # first,
           TwoHeads(model, n - 1, first), tree[n].kind # "module"
    PROVE  TwoHeads(Layout!Lay(tree, model, tree[n]), n, first)
<1>1. n < first <=> n - 1 < first
  OBVIOUS
<1>2. CASE Failed(model)
  BY <1>2, LayKeeps DEF TwoHeads
<1>3. CASE ~Failed(model)
  <2>1. Sound(model)
    BY <1>3 DEF TwoHeads
  <2> DEFINE laid == Layout!Lay(tree, model, tree[n])
  <2>2. \/ Failed(laid)
        \/ /\ Sound(laid)
           /\ laid.nested.capacity = model.nested.capacity
           /\ laid.nested.count = model.nested.count
    BY <2>1, LayOther
  <2> HIDE DEF laid
  <2> QED
    BY <1>1, <1>3, <2>2 DEF TwoHeads, laid
<1> QED
  BY <1>2, <1>3

\* A node is that of the head of a module, behind those of the heads before it.
HeadAt(tree, j, file, head) ==
    /\ tree[j].kind = "module" /\ tree[j].at = head
    /\ \A i \in 1 .. Len(tree) : tree[i].kind = "module" =>
          /\ tree[i].at \in 1 .. Len(file) /\ file[tree[i].at] = "module"
          /\ tree[i].at = head => i = j
          /\ tree[i].at < head => i < j

\* Every head has one.
LEMMA HeadNode ==
    ASSUME NEW file, NEW tree, NodesOK(tree, Len(file), file), Len(file) \in Nat,
           NEW head \in 1 .. Len(file), file[head] = "module"
    PROVE  /\ Len(tree) \in Nat
           /\ \E j \in 1 .. Len(tree) : HeadAt(tree, j, file, head)
<1>1. PICK j \in 1 .. Len(tree) : tree[j].kind = file[head] /\ tree[j].at = head
  BY DEF NodesOK, ItemKinds
<1>2. tree[j].kind # "opaque"
  BY <1>1
<1>3. ASSUME NEW i \in 1 .. Len(tree), tree[i].kind = "module"
      PROVE  /\ tree[i].at \in 1 .. Len(file) /\ file[tree[i].at] = "module"
             /\ tree[i].at = head => i = j
             /\ tree[i].at < head => i < j
  BY <1>1, <1>2, <1>3, PlacesOrdered
<1>4. Len(tree) \in Nat
  BY <1>1, <1>2, PlacesOrdered
<1>5. HeadAt(tree, j, file, head)
  BY <1>1, <1>3 DEF HeadAt
<1> QED
  BY <1>4, <1>5

\* A file of two modules has no output: the second has no range for its spans.
LEMMA TwoModulesFail ==
    ASSUME NEW file, Len(file) \in Nat, NEW tree, NodesOK(tree, Len(file), file),
           \A head \in 1 .. Len(file) : file[head] = "module" => HasSpan(tree, head),
           NEW p \in 1 .. Len(file), NEW q \in 1 .. Len(file),
           p # q, file[p] = "module", file[q] = "module"
    PROVE  Failed(Layout!Built(tree))
<1> DEFINE heads == {i \in 1 .. Len(file) : file[i] = "module"}
<1>h. heads \subseteq Nat /\ p \in heads /\ q \in heads
  OBVIOUS
<1>1. PICK a \in heads : \A i \in heads : a <= i
  <2> HIDE DEF heads
  <2> QED
    BY <1>h, LeastNumber
<1>2. PICK b \in heads \ {a} : \A i \in heads \ {a} : b <= i
  <2> HIDE DEF heads
  <2>1. heads \ {a} \in SUBSET Nat /\ heads \ {a} # {}
    BY <1>h
  <2> QED
    BY <2>1, LeastNumber
<1>3. /\ a \in 1 .. Len(file) /\ b \in 1 .. Len(file) /\ file[a] = "module" /\ file[b] = "module"
      /\ a < b
      /\ \A i \in 1 .. Len(file) : file[i] = "module" => a <= i
      /\ \A i \in 1 .. Len(file) : file[i] = "module" /\ i # a => b <= i
  BY <1>1, <1>2
<1> HIDE DEF heads
<1>4. Layout!KeyOf(tree, a) = 0 /\ Layout!KeyOf(tree, b) = 1
  BY <1>3, FirstKeys
<1>5. Len(tree) \in Nat
  BY <1>3, HeadNode, Zenon
<1>p. PICK first \in 1 .. Len(tree) : HeadAt(tree, first, file, a)
  BY <1>3, HeadNode, Zenon
<1>6. /\ tree[first].kind = "module" /\ tree[first].at = a
      /\ \A i \in 1 .. Len(tree) : tree[i].kind = "module" =>
            /\ tree[i].at \in 1 .. Len(file) /\ file[tree[i].at] = "module"
            /\ tree[i].at = a => i = first
            /\ tree[i].at < a => i < first
  BY <1>p DEF HeadAt
<1>q. PICK second \in 1 .. Len(tree) : HeadAt(tree, second, file, b)
  BY <1>3, HeadNode, Zenon
<1>7. /\ tree[second].kind = "module" /\ tree[second].at = b
      /\ \A i \in 1 .. Len(tree) : tree[i].kind = "module" =>
            /\ tree[i].at \in 1 .. Len(file) /\ file[tree[i].at] = "module"
            /\ tree[i].at = b => i = second
            /\ tree[i].at < b => i < second
  BY <1>q DEF HeadAt
<1>8. first < second
  <2>1. tree[first].kind = "module" /\ tree[first].at < b
    BY <1>3, <1>6
  <2> QED
    BY <1>7, <2>1
<1>9. PICK last \in 1 .. Len(tree) :
          /\ tree[last].kind = "opaque" /\ tree[last].module = b
          /\ \E j \in 1 .. last : tree[j].kind = "module" /\ tree[j].at = b
          /\ \A j \in 1 .. last : tree[j].kind = "module" => tree[j].at <= b
  BY <1>3 DEF HasSpan
<1>10. second < last
  <2>1. PICK j \in 1 .. last : tree[j].kind = "module" /\ tree[j].at = b
    BY <1>9
  <2>2. j \in 1 .. Len(tree) /\ j = second
    BY <1>5, <1>7, <2>1
  <2>3. second # last
    BY <1>7, <1>9
  <2> QED
    BY <2>2, <2>3
<1>11. \A n \in 1 .. last : tree[n].kind = "module" => n = first \/ n = second
  <2> SUFFICES ASSUME NEW n \in 1 .. last, tree[n].kind = "module"
               PROVE  n = first \/ n = second
    OBVIOUS
  <2>1. n \in 1 .. Len(tree) /\ tree[n].at <= b
    BY <1>5, <1>9
  <2>2. tree[n].at \in 1 .. Len(file) /\ file[tree[n].at] = "module"
    BY <1>6, <2>1
  <2>3. tree[n].at = a \/ tree[n].at = b
    BY <1>3, <2>1, <2>2
  <2> QED
    BY <1>6, <1>7, <2>1, <2>3
<1>12. PICK g : ModelStates(g, tree) /\ Layout!Built(tree) = g[Len(tree)]
  BY <1>5, BuildSteps
<1>13. \A n \in 1 .. Len(tree) : g[n] = Layout!Lay(tree, g[n - 1], tree[n])
  BY <1>12 DEF ModelStates
<1>14. TwoHeads(g[0], 0, first)
  <2>1. g[0] = Layout!NoOutput
    BY <1>12 DEF ModelStates
  <2>2. 0 < first
    OBVIOUS
  <2> QED
    BY <2>1, <2>2 DEF TwoHeads, Layout!NoOutput, Layout!NoRanges, Sound
<1>15. ASSUME NEW n \in 1 .. last, TwoHeads(g[n - 1], n - 1, first)
       PROVE  TwoHeads(g[n], n, first)
  <2>1. n \in 1 .. Len(tree) /\ n \in Nat /\ n # 0
    BY <1>5
  <2>2. g[n] = Layout!Lay(tree, g[n - 1], tree[n])
    BY <1>13, <2>1
  <2>3. CASE tree[n].kind = "module"
    <3>1. \/ n = first /\ Layout!KeyOf(tree, tree[n].at) = 0
          \/ n = second /\ Layout!KeyOf(tree, tree[n].at) = 1
      BY <1>4, <1>6, <1>7, <1>11, <2>3
    <3>2. first \in Nat /\ second \in Nat
      OBVIOUS
    <3> QED
      BY <1>8, <1>15, <2>1, <2>2, <2>3, <3>1, <3>2, TwoHeadsModule
  <2>4. CASE tree[n].kind # "module"
    <3>1. n # first /\ first \in Nat
      BY <1>6, <2>4
    <3> QED
      BY <1>15, <2>1, <2>2, <2>4, <3>1, TwoHeadsOther
  <2> QED
    BY <2>3, <2>4
<1>16. \A n \in 0 .. last : TwoHeads(g[n], n, first)
  <2> SUFFICES ASSUME NEW n \in 0 .. last, ~TwoHeads(g[n], n, first)
               PROVE  FALSE
    OBVIOUS
  <2> DEFINE bad == {m \in 0 .. last : ~TwoHeads(g[m], m, first)}
  <2>1. bad \subseteq Nat /\ n \in bad
    OBVIOUS
  <2>2. PICK m \in bad : \A k \in bad : m <= k
    <3> HIDE DEF bad
    <3> QED
      BY <2>1, LeastNumber
  <2>3. m \in 1 .. last /\ m - 1 \in 0 .. last /\ m - 1 \notin bad
    BY <1>14, <2>2
  <2>4. TwoHeads(g[m - 1], m - 1, first)
    BY <2>3
  <2> QED
    BY <1>15, <2>2, <2>3, <2>4
<1>17. Failed(g[last])
  <2>1. last - 1 \in 0 .. last /\ ~(last - 1 < first) /\ last \in 1 .. Len(tree)
    BY <1>8, <1>10
  <2>2. /\ TwoHeads(g[last - 1], last - 1, first)
        /\ g[last] = Layout!Lay(tree, g[last - 1], tree[last])
    BY <1>13, <1>16, <2>1
  <2>3. CASE Failed(g[last - 1])
    BY <2>2, <2>3, LayKeeps
  <2>4. CASE ~Failed(g[last - 1])
    <3>1. Sound(g[last - 1]) /\ g[last - 1].nested.count = 1
      BY <2>1, <2>2, <2>4 DEF TwoHeads
    <3>2. /\ tree[last].kind \notin Layout!Tracked \cup {"module"} /\ tree[last].module # 0
          /\ Layout!KeyOf(tree, tree[last].module) >= g[last - 1].nested.count
      BY <1>3, <1>4, <1>9, <3>1 DEF Layout!Tracked
    <3> QED
      BY <2>2, <3>1, <3>2, LayFails
  <2> QED
    BY <2>3, <2>4
<1>18. Failed(g[Len(tree)])
  <2>1. last \in 0 .. Len(tree)
    OBVIOUS
  <2> QED
    BY <1>5, <1>12, <1>17, <2>1, FailedStays
<1> QED
  BY <1>12, <1>18

-----------------------------------------------------------------------------
(* The spans that are emitted. *)

\* The spans of the slots are those of the nodes, in their order.
SpansOf(spans, tree) ==
    /\ IsList(spans)
    /\ \E place \in [1 .. Len(spans) -> 1 .. Len(tree)] :
          /\ \A s, t \in 1 .. Len(spans) : s < t => place[s] < place[t]
          /\ \A s \in 1 .. Len(spans) :
                /\ tree[place[s]].kind = "opaque"
                /\ spans[s].first = tree[place[s]].first /\ spans[s].end = tree[place[s]].end
          /\ \A k \in 1 .. Len(tree) : tree[k].kind = "opaque" =>
                \E s \in 1 .. Len(spans) : place[s] = k

\* What the emitter takes for the spans of a model.
LEMMA SpansPlaced ==
    ASSUME NEW tree, NEW slots, Len(tree) \in Nat, LaidOf(slots, Len(tree), tree)
    PROVE  SpansOf(Layout!OfKind(slots, {"opaque"}), tree)
<1> DEFINE spans == Layout!OfKind(slots, {"opaque"})
<1>1. IsList(slots) /\ Len(slots) \in Nat
  BY ListLength DEF LaidOf
<1>2. ChosenOf(spans, Len(slots), slots, {"opaque"})
  BY <1>1, KindsChosen
<1> HIDE DEF spans
<1>3. PICK of \in [1 .. Len(spans) -> 1 .. Len(slots)] :
          /\ \A i, j \in 1 .. Len(spans) : i < j => of[i] < of[j]
          /\ \A i \in 1 .. Len(spans) : spans[i] = slots[of[i]] /\ slots[of[i]].kind \in {"opaque"}
          /\ \A k \in 1 .. Len(slots) : slots[k].kind \in {"opaque"} =>
                \E i \in 1 .. Len(spans) : of[i] = k
  BY <1>2 DEF ChosenOf
<1>4. PICK laid \in [1 .. Len(slots) -> 1 .. Len(tree)] :
          /\ \A i, j \in 1 .. Len(slots) : i < j => laid[i] < laid[j]
          /\ \A i \in 1 .. Len(slots) : slots[i] = SlotOf(tree[laid[i]], slots[i].range)
          /\ \A i \in 1 .. Len(slots) : tree[laid[i]].kind \notin Layout!Tracked
          /\ \A k \in 1 .. Len(tree) : tree[k].kind \notin Layout!Tracked =>
                \E i \in 1 .. Len(slots) : laid[i] = k
  BY DEF LaidOf
<1>5. \A i \in 1 .. Len(slots) : /\ slots[i].kind = tree[laid[i]].kind
                                 /\ slots[i].first = tree[laid[i]].first
                                 /\ slots[i].end = tree[laid[i]].end
  <2>1. \A node, range : /\ SlotOf(node, range).kind = node.kind
                         /\ SlotOf(node, range).first = node.first
                         /\ SlotOf(node, range).end = node.end
    BY DEF SlotOf
  <2> SUFFICES ASSUME NEW i \in 1 .. Len(slots)
               PROVE  /\ slots[i].kind = tree[laid[i]].kind
                      /\ slots[i].first = tree[laid[i]].first
                      /\ slots[i].end = tree[laid[i]].end
    OBVIOUS
  <2>2. slots[i] = SlotOf(tree[laid[i]], slots[i].range)
    BY <1>4
  <2> QED
    BY <2>1, <2>2
<1> DEFINE place == [s \in 1 .. Len(spans) |-> laid[of[s]]]
<1>6. /\ place \in [1 .. Len(spans) -> 1 .. Len(tree)]
      /\ \A s \in 1 .. Len(spans) : place[s] = laid[of[s]] /\ of[s] \in 1 .. Len(slots)
  BY <1>3, <1>4
<1> HIDE DEF place
<1>7. \A s, t \in 1 .. Len(spans) : s < t => place[s] < place[t]
  BY <1>3, <1>4, <1>6
<1>8. \A s \in 1 .. Len(spans) :
          /\ tree[place[s]].kind = "opaque"
          /\ spans[s].first = tree[place[s]].first /\ spans[s].end = tree[place[s]].end
  <2> SUFFICES ASSUME NEW s \in 1 .. Len(spans)
               PROVE  /\ tree[place[s]].kind = "opaque"
                      /\ spans[s].first = tree[place[s]].first
                      /\ spans[s].end = tree[place[s]].end
    OBVIOUS
  <2>1. place[s] = laid[of[s]] /\ of[s] \in 1 .. Len(slots)
    BY <1>6
  <2>2. spans[s] = slots[of[s]] /\ slots[of[s]].kind = "opaque"
    BY <1>3
  <2> QED
    BY <1>5, <2>1, <2>2
<1>9. ASSUME NEW k \in 1 .. Len(tree), tree[k].kind = "opaque"
      PROVE  \E s \in 1 .. Len(spans) : place[s] = k
  <2>1. PICK i \in 1 .. Len(slots) : laid[i] = k
    BY <1>4, <1>9 DEF Layout!Tracked
  <2>2. PICK s \in 1 .. Len(spans) : of[s] = i
    BY <1>3, <1>5, <1>9, <2>1
  <2> QED
    BY <1>6, <2>1, <2>2
<1>10. IsList(spans)
  BY <1>2 DEF ChosenOf
<1> QED
  BY <1>6, <1>7, <1>8, <1>9, <1>10 DEF SpansOf, spans

\* Spans, each of which begins where the one before it has ended, are ordered.
LEMMA SpansOrdered ==
    ASSUME NEW spans, Len(spans) \in Nat,
           \A s \in 1 .. Len(spans) : /\ spans[s].first \in Nat /\ spans[s].end \in Nat
                                      /\ spans[s].first < spans[s].end,
           \A s \in 1 .. Len(spans) - 1 : spans[s].end <= spans[s + 1].first
    PROVE  \A s, t \in 1 .. Len(spans) : s < t => spans[s].end <= spans[t].first
<1> SUFFICES ASSUME NEW s \in 1 .. Len(spans), NEW t \in 1 .. Len(spans), s < t,
                    ~(spans[s].end <= spans[t].first)
             PROVE  FALSE
  OBVIOUS
<1> DEFINE bad == {u \in s + 1 .. Len(spans) : ~(spans[s].end <= spans[u].first)}
<1>1. bad \subseteq Nat /\ t \in bad
  OBVIOUS
<1>2. PICK u \in bad : \A v \in bad : u <= v
  <2> HIDE DEF bad
  <2> QED
    BY <1>1, LeastNumber
<1>3. /\ u \in s + 1 .. Len(spans) /\ ~(spans[s].end <= spans[u].first)
      /\ u \in Nat /\ u - 1 \notin bad
  <2>1. u \in s + 1 .. Len(spans) /\ ~(spans[s].end <= spans[u].first)
    BY <1>2
  <2>2. u \in Nat /\ ~(u <= u - 1)
    BY <2>1
  <2> DEFINE before == u - 1
  <2>3. ~(u <= before)
    BY <2>2
  <2> HIDE DEF before, bad
  <2>4. before \notin bad
    BY <1>2, <2>3, Zenon
  <2> QED
    BY <2>1, <2>2, <2>4 DEF before
<1> DEFINE w == u - 1
<1>4. w \in 1 .. Len(spans) - 1 /\ w + 1 = u /\ spans[w].end <= spans[u].first
  <2>1. w \in 1 .. Len(spans) - 1 /\ w + 1 = u
    BY <1>3
  <2> HIDE DEF w
  <2> QED
    BY <2>1
<1>5. w = s \/ spans[s].end <= spans[w].first
  <2>1. w = s \/ w \in s + 1 .. Len(spans)
    BY <1>3
  <2> QED
    BY <1>3, <2>1
<1>6. w \in 1 .. Len(spans) /\ u \in 1 .. Len(spans)
  BY <1>3
<1> HIDE DEF w, bad
<1>7. /\ spans[w].first \in Nat /\ spans[w].end \in Nat /\ spans[w].first < spans[w].end
      /\ spans[u].first \in Nat /\ spans[s].end \in Nat
  BY <1>6
<1>8. CASE w = s
  BY <1>3, <1>4, <1>8
<1>9. CASE w # s
  <2>1. spans[s].end <= spans[w].first
    BY <1>5, <1>9
  <2> DEFINE a == spans[s].end
             b == spans[w].first
             c == spans[w].end
             d == spans[u].first
  <2>2. a \in Nat /\ b \in Nat /\ c \in Nat /\ d \in Nat /\ a <= b /\ b < c /\ c <= d
    BY <1>4, <1>7, <2>1
  <2> HIDE DEF a, b, c, d
  <2>3. a <= d
    BY <2>2
  <2> QED
    BY <1>3, <2>3 DEF a, d
<1> QED
  BY <1>8, <1>9

\* Those of a tree whose slots pass the test of the emitter.
LEMMA NodesOrdered ==
    ASSUME NEW tree, NEW file, NodesOK(tree, Len(file), file), Len(tree) \in Nat,
           NEW spans, SpansOf(spans, tree),
           \A s \in 1 .. Len(spans) - 1 : spans[s].end <= spans[s + 1].first
    PROVE  Ordered(tree)
<1>1. PICK place \in [1 .. Len(spans) -> 1 .. Len(tree)] :
          /\ \A s, t \in 1 .. Len(spans) : s < t => place[s] < place[t]
          /\ \A s \in 1 .. Len(spans) :
                /\ tree[place[s]].kind = "opaque"
                /\ spans[s].first = tree[place[s]].first /\ spans[s].end = tree[place[s]].end
          /\ \A k \in 1 .. Len(tree) : tree[k].kind = "opaque" =>
                \E s \in 1 .. Len(spans) : place[s] = k
  BY DEF SpansOf
<1>2. Len(spans) \in Nat
  BY ListLength DEF SpansOf
<1>3. \A k \in 1 .. Len(tree) : tree[k].kind = "opaque" =>
          /\ tree[k].first \in Nat /\ tree[k].end \in Nat /\ tree[k].first < tree[k].end
  BY DEF NodesOK
<1>4. \A s \in 1 .. Len(spans) : /\ spans[s].first \in Nat /\ spans[s].end \in Nat
                                 /\ spans[s].first < spans[s].end
  BY <1>1, <1>3
<1>5. \A s, t \in 1 .. Len(spans) : s < t => spans[s].end <= spans[t].first
  BY <1>2, <1>4, SpansOrdered
<1>6. ASSUME NEW i \in 1 .. Len(tree), NEW j \in 1 .. Len(tree), i < j,
             tree[i].kind = "opaque", tree[j].kind = "opaque"
      PROVE  tree[i].end <= tree[j].first
  <2>1. PICK s \in 1 .. Len(spans) : place[s] = i
    BY <1>1, <1>6
  <2>2. PICK t \in 1 .. Len(spans) : place[t] = j
    BY <1>1, <1>6
  <2>3. s < t
    <3>1. s # t
      BY <1>6, <2>1, <2>2
    <3>2. ~(t < s)
      BY <1>1, <1>6, <2>1, <2>2
    <3> QED
      BY <1>2, <3>1, <3>2
  <2> QED
    BY <1>1, <1>5, <2>1, <2>2, <2>3
<1> QED
  BY <1>6 DEF Ordered

\* A byte is in one span, or in none.
LEMMA OneSpan ==
    ASSUME NEW tree, NEW file, NodesOK(tree, Len(file), file), Ordered(tree), Len(tree) \in Nat,
           NEW spans, SpansOf(spans, tree), NEW byte \in Nat
    PROVE  LET over == {s \in DOMAIN spans : spans[s].first < byte /\ byte <= spans[s].end}
           IN  Cardinality(over) =
                   IF \E k \in 1 .. Len(tree) : /\ tree[k].kind = "opaque"
                                                /\ tree[k].first < byte /\ byte <= tree[k].end
                   THEN 1 ELSE 0
<1> DEFINE over == {s \in DOMAIN spans : spans[s].first < byte /\ byte <= spans[s].end}
           covered == \E k \in 1 .. Len(tree) : /\ tree[k].kind = "opaque"
                                                /\ tree[k].first < byte /\ byte <= tree[k].end
<1>1. PICK place \in [1 .. Len(spans) -> 1 .. Len(tree)] :
          /\ \A s, t \in 1 .. Len(spans) : s < t => place[s] < place[t]
          /\ \A s \in 1 .. Len(spans) :
                /\ tree[place[s]].kind = "opaque"
                /\ spans[s].first = tree[place[s]].first /\ spans[s].end = tree[place[s]].end
          /\ \A k \in 1 .. Len(tree) : tree[k].kind = "opaque" =>
                \E s \in 1 .. Len(spans) : place[s] = k
  BY DEF SpansOf
<1>2. Len(spans) \in Nat /\ DOMAIN spans = 1 .. Len(spans)
  BY ListLength DEF SpansOf
<1>3. \A s \in over : s \in 1 .. Len(spans) /\ spans[s].first < byte /\ byte <= spans[s].end
  BY <1>2
<1>4. ASSUME NEW s \in over, NEW t \in over, s < t
      PROVE  FALSE
  <2>1. /\ s \in 1 .. Len(spans) /\ t \in 1 .. Len(spans)
        /\ byte <= spans[s].end /\ spans[t].first < byte
    BY <1>3
  <2>2. place[s] \in 1 .. Len(tree) /\ place[t] \in 1 .. Len(tree) /\ place[s] < place[t]
    BY <1>1, <1>4, <2>1
  <2>3. tree[place[s]].end <= tree[place[t]].first
    BY <1>1, <2>1, <2>2 DEF Ordered
  <2>4. spans[s].end <= spans[t].first
    BY <1>1, <2>1, <2>3
  <2>5. spans[s].end \in Nat /\ spans[t].first \in Nat
    <3>1. \A k \in 1 .. Len(tree) : tree[k].kind = "opaque" =>
              tree[k].first \in Nat /\ tree[k].end \in Nat
      BY DEF NodesOK
    <3> QED
      BY <1>1, <2>1, <2>2, <3>1
  <2> QED
    BY <2>1, <2>4, <2>5
<1>5. ASSUME covered
      PROVE  Cardinality(over) = 1
  <2>1. PICK k \in 1 .. Len(tree) : /\ tree[k].kind = "opaque"
                                    /\ tree[k].first < byte /\ byte <= tree[k].end
    BY <1>5
  <2>2. PICK s \in 1 .. Len(spans) : place[s] = k
    BY <1>1, <2>1
  <2>3. s \in over
    BY <1>1, <1>2, <2>1, <2>2
  <2>4. \A t \in over : t = s
    <3> SUFFICES ASSUME NEW t \in over, t # s PROVE FALSE
      OBVIOUS
    <3>1. t < s \/ s < t
      BY <1>2, <1>3
    <3> QED
      BY <1>4, <2>3, <3>1
  <2>5. over = {s}
    BY <2>3, <2>4
  <2> HIDE DEF over
  <2> QED
    BY <2>5, FS_Singleton
<1>6. ASSUME ~covered
      PROVE  Cardinality(over) = 0
  <2>1. over = {}
    <3> SUFFICES ASSUME NEW s \in over PROVE FALSE
      OBVIOUS
    <3> QED
      BY <1>1, <1>3, <1>6
  <2> HIDE DEF over
  <2> QED
    BY <2>1, FS_EmptySet
<1> QED
  BY <1>5, <1>6

-----------------------------------------------------------------------------
(* The output model of one module. *)

\* A tree of one module: only what has no slot stands before the head, and what has one
\* behind it belongs to the module.
Single(tree, head, first) ==
    /\ first \in 1 .. Len(tree) /\ tree[first].kind = "module" /\ tree[first].at = head
    /\ Layout!KeyOf(tree, head) = 0 /\ head # 0
    /\ \A i \in 1 .. Len(tree) : i < first => tree[i].kind \in Layout!Tracked
    /\ \A i \in 1 .. Len(tree) : first < i =>
          tree[i].kind \in Layout!Tracked \/ (tree[i].kind # "module" /\ tree[i].module = head)

\* Such is the tree of a file of one module whose spans are what they are to be.
LEMMA FullSingle ==
    ASSUME NEW file \in SourceFiles, NEW tree, NodesOK(tree, Len(file), file), NEW head,
           OneHead(file, head), Full(tree, file, head)
    PROVE  \E first : Single(tree, head, first)
<1>1. /\ head \in 1 .. Len(file) /\ Len(file) \in Nat /\ file[head] = "module"
      /\ \A i \in 1 .. Len(file) : file[i] = "module" => i = head
  BY DEF OneHead
<1>p. PICK first \in 1 .. Len(tree) : HeadAt(tree, first, file, head)
  BY <1>1, HeadNode, Zenon
<1>2. /\ tree[first].kind = "module" /\ tree[first].at = head
      /\ \A i \in 1 .. Len(tree) : tree[i].kind = "module" =>
            /\ tree[i].at \in 1 .. Len(file) /\ file[tree[i].at] = "module"
            /\ tree[i].at = head => i = first
            /\ tree[i].at < head => i < first
  BY <1>p DEF HeadAt
<1>3. Len(tree) \in Nat
  BY <1>1, HeadNode
<1>4. \A i \in 1 .. Len(tree) : tree[i].kind = "module" => i = first
  BY <1>1, <1>2
<1>5. Layout!KeyOf(tree, head) = 0
  BY <1>1, FirstKeys
<1>6. ASSUME NEW i \in 1 .. Len(tree), tree[i].kind = "opaque"
      PROVE  first < i /\ tree[i].module = head
  <2>1. tree[i].module = head /\ \E j \in 1 .. i : tree[j].kind = "module"
    BY <1>6 DEF Full, Owned
  <2>2. PICK j \in 1 .. i : tree[j].kind = "module"
    BY <2>1
  <2>3. j \in 1 .. Len(tree) /\ j # i
    BY <1>3, <1>6, <2>2
  <2>4. j = first
    BY <1>4, <2>2, <2>3
  <2> QED
    BY <2>1, <2>2, <2>3, <2>4
<1>7. ASSUME NEW i \in 1 .. Len(tree), tree[i].kind \in Layout!Declarations
      PROVE  first < i /\ tree[i].module = head
  <2>1. tree[i].kind # "opaque" /\ tree[first].kind # "opaque" /\ tree[i].kind # "module"
    BY <1>2, <1>7 DEF Layout!Declarations
  <2>2. /\ tree[i].at \in 1 .. Len(file) /\ file[tree[i].at] \in Layout!Declarations
        /\ tree[i].module \in 1 .. Len(file) /\ file[tree[i].module] = "module"
    BY <1>7, <2>1 DEF NodesOK
  <2>3. tree[i].module = head
    BY <1>1, <2>2
  <2>4. /\ file \in Seq(Chunk)
        /\ \A c \in DOMAIN file : file[c] \in {"port", "signal", "endmodule"} =>
              \E h \in 1 .. c - 1 : InModule(file, h, c)
    BY FilesAssumption
  <2>5. DOMAIN file = 1 .. Len(file)
    BY <2>4
  <2>6. PICK h \in 1 .. tree[i].at - 1 : InModule(file, h, tree[i].at)
    BY <2>2, <2>4, <2>5 DEF Layout!Declarations
  <2>7. h = head
    BY <1>1, <2>2, <2>6 DEF InModule
  <2>8. tree[first].at <= tree[i].at
    BY <1>1, <1>2, <2>2, <2>6, <2>7
  <2>9. first <= i
    BY <1>1, <2>1, <2>8, PlacesOrdered
  <2>10. first # i
    BY <1>2, <2>1
  <2> QED
    BY <1>2, <2>3, <2>9, <2>10
<1>8. \A i \in 1 .. Len(tree) : \/ tree[i].kind = "opaque" \/ tree[i].kind = "module"
                                \/ tree[i].kind \in Layout!Declarations
                                \/ tree[i].kind \in Layout!Tracked
  BY DEF NodesOK, ItemKinds
<1>9. ASSUME NEW i \in 1 .. Len(tree), i < first
      PROVE  tree[i].kind \in Layout!Tracked
  <2>1. ~(first < i) /\ i # first
    BY <1>2, <1>9
  <2> QED
    BY <1>4, <1>6, <1>7, <1>8, <2>1
<1>10. ASSUME NEW i \in 1 .. Len(tree), first < i
       PROVE  tree[i].kind \in Layout!Tracked \/ (tree[i].kind # "module" /\ tree[i].module = head)
  <2>1. i # first
    BY <1>2, <1>10
  <2> QED
    BY <1>4, <1>6, <1>7, <1>8, <2>1
<1>11. head # 0
  BY <1>1
<1> QED
  BY <1>2, <1>5, <1>9, <1>10, <1>11 DEF Single

\* The range of the children behind the slot of the module, which is the first.
Behind(count) == [first |-> 2, count |-> count]

\* The output model of such a tree, node by node.
OneModule(model, n, tree, first) ==
    IF n < first THEN model = Layout!NoOutput
    ELSE /\ Sound(model) /\ LaidOf(model.items, n, tree)
         /\ Len(model.items) >= 1 /\ model.items[1].kind = "module"
         /\ model.items[1].range = Behind(Len(model.items) - 1)
         /\ model.nested.count = 1
         /\ model.nested.of[0] = Behind(Len(model.items) - 1)

\* The head of the module opens its slot.
LEMMA OneModuleOpens ==
    ASSUME NEW tree, Len(tree) \in Nat, NEW head, NEW first, Single(tree, head, first)
    PROVE  OneModule(Layout!Lay(tree, Layout!NoOutput, tree[first]), first, tree, first)
<1> DEFINE node == tree[first]
           empty == Layout!NoOutput
           laid == Layout!Lay(tree, empty, node)
<1>1. /\ first \in Nat /\ first # 0 /\ node.kind = "module" /\ Layout!KeyOf(tree, node.at) = 0
      /\ \A i \in 1 .. first - 1 : tree[i].kind \in Layout!Tracked
      /\ node.kind \notin Layout!Tracked
  BY DEF Single, Layout!Tracked
<1>2. /\ empty.items = << >> /\ Sound(empty) /\ empty.nested.capacity = 0
      /\ empty.nested.of = << >>
      /\ empty.nested = [capacity |-> empty.nested.capacity, count |-> empty.nested.count,
                         of |-> empty.nested.of]
  BY DEF Layout!NoOutput, Layout!NoRanges, Sound
<1> HIDE DEF empty
<1>3. Opened(empty) = Behind(0)
  BY <1>2 DEF Opened, Behind
<1>4. /\ laid.items = Append(empty.items, SlotOf(node, Opened(empty))) /\ Sound(laid)
      /\ laid.nested.count = Layout!Ensure(empty.nested, 0 + 1).count
      /\ laid.nested.of = Layout!WithRange(empty.nested.of, 0, Opened(empty))
  <2> HIDE DEF node
  <2> QED
    BY <1>1, <1>2, LayModule
<1>5. laid.nested.count = 1
  <2>1. Layout!Ensure(empty.nested, 0 + 1).count = 1
    <3>1. 0 \in Nat
      OBVIOUS
    <3> QED
      BY <1>2, <3>1, NestedEnsured
  <2> QED
    BY <1>4, <2>1
<1>6. laid.nested.of[0] = Behind(0)
  <2>1. \A of, range : Layout!WithRange(of, 0, range)[0] = range
    BY DEF Layout!WithRange
  <2> QED
    BY <1>3, <1>4, <2>1
<1> DEFINE slot == SlotOf(node, Behind(0))
           slots == laid.items
<1>7. slot.kind = "module" /\ slot.range = Behind(0)
  BY <1>1 DEF SlotOf
<1> HIDE DEF node, slot, laid
<1> DEFINE none == << >>
<1>8. slots = Append(none, slot)
  BY <1>2, <1>3, <1>4 DEF slot, laid
<1>9. IsList(none) /\ Len(none) = 0
  BY DEF IsList
<1> HIDE DEF slots
<1>10. /\ IsList(slots) /\ Len(slots) = 1 /\ slots[1] = slot
  <2> HIDE DEF none
  <2> DEFINE longer == Append(none, slot)
  <2>1. /\ IsList(longer) /\ Len(longer) = Len(none) + 1 /\ longer[Len(none) + 1] = slot
    BY <1>9, ListAppended
  <2> HIDE DEF longer
  <2>2. slots = longer
    BY <1>8 DEF longer
  <2> QED
    BY <1>9, <2>1, <2>2
<1>11. LaidOf(none, first - 1, tree)
  <2> DEFINE place == [i \in 1 .. 0 |-> 1]
  <2>1. place \in [1 .. 0 -> 1 .. first - 1] /\ 1 .. 0 = {}
    OBVIOUS
  <2> QED
    BY <1>1, <1>9, <2>1 DEF LaidOf
<1> HIDE DEF none
<1>12. LaidOf(slots, first, tree)
  <2>1. \A i \in 1 .. Len(none) : \E range : slots[i] = SlotOf(none[i], range)
    BY <1>9
  <2>2. \E range : slots[Len(none) + 1] = SlotOf(tree[first], range)
    BY <1>9, <1>10 DEF slot, node
  <2>3. Len(slots) = Len(none) + 1
    BY <1>9, <1>10
  <2>4. tree[first].kind \notin Layout!Tracked
    BY <1>1 DEF node
  <2> QED
    <3>1. IsList(slots)
      BY <1>10
    <3>2. first \in Nat /\ first # 0
      BY <1>1
    <3> HIDE DEF node
    <3> QED
      BY <1>11, <2>1, <2>2, <2>3, <2>4, <3>1, <3>2, LayOne
<1>13. Behind(Len(slots) - 1) = Behind(0) /\ ~(first < first) /\ Len(slots) >= 1
  BY <1>1, <1>10
<1>14. OneModule(laid, first, tree, first)
  BY <1>4, <1>5, <1>6, <1>7, <1>10, <1>12, <1>13 DEF OneModule, slots
<1> QED
  BY <1>14 DEF laid, node, empty

\* A child of the module widens its range.
LEMMA OneModuleGrows ==
    ASSUME NEW tree, Len(tree) \in Nat, NEW head, NEW first, Single(tree, head, first),
           NEW n \in 1 .. Len(tree), first < n, NEW model, OneModule(model, n - 1, tree, first),
           tree[n].kind \notin Layout!Tracked
    PROVE  OneModule(Layout!Lay(tree, model, tree[n]), n, tree, first)
<1> DEFINE node == tree[n]
           laid == Layout!Lay(tree, model, node)
           slots == model.items
           wider == Behind(Len(slots))
<1>1. /\ first \in Nat /\ n \in Nat /\ n # 0 /\ ~(n - 1 < first) /\ ~(n < first)
      /\ node.kind # "module" /\ node.module = head /\ head # 0
      /\ Layout!KeyOf(tree, node.module) = 0 /\ node.kind \notin Layout!Tracked
  BY DEF Single
<1>2. /\ Sound(model) /\ LaidOf(slots, n - 1, tree)
      /\ Len(slots) >= 1 /\ slots[1].kind = "module"
      /\ slots[1].range = Behind(Len(slots) - 1)
      /\ model.nested.count = 1 /\ model.nested.of[0] = Behind(Len(slots) - 1)
  BY <1>1 DEF OneModule
<1>3. IsList(slots) /\ Len(slots) \in Nat
  BY <1>2, ListLength DEF LaidOf
<1> DEFINE range == [model.nested.of[0] EXCEPT !.count = @ + 1]
           slot == Layout!Slot(node)
           longer == Append(slots, slot)
           changed == [longer EXCEPT ![range.first - 1].range = range]
           of == Layout!WithRange(model.nested.of, 0, range)
<1>4. Layout!Lay(tree, model, node) = Layout!AddChild(model, 0, node)
  <2> HIDE DEF node
  <2> QED
    BY <1>1, <1>2, LayChild
<1>5. laid = [items |-> changed, nested |-> [model.nested EXCEPT !.of = of], failed |-> FALSE]
  BY <1>2, <1>4 DEF Layout!AddChild
<1>6. range = wider /\ range.first - 1 = 1
  <2>1. [Behind(Len(slots) - 1) EXCEPT !.count = @ + 1] = Behind(Len(slots))
    BY <1>3 DEF Behind
  <2> QED
    BY <1>2, <2>1 DEF Behind
<1>7. of[0] = range
  BY DEF Layout!WithRange
<1>8. Layout!Slot(node) = SlotOf(node, [first |-> 0, count |-> 0])
  BY DEF Layout!Slot, SlotOf
<1>9. /\ IsList(longer) /\ Len(longer) = Len(slots) + 1 /\ longer[Len(slots) + 1] = slot
      /\ \A i \in 1 .. Len(slots) : longer[i] = slots[i]
  <2> HIDE DEF slot, slots
  <2> QED
    BY <1>3, ListAppended
<1> HIDE DEF slot, longer, range, wider, of
<1>10. /\ IsList(changed) /\ Len(changed) = Len(slots) + 1
       /\ \A i \in 1 .. Len(slots) + 1 :
             changed[i] = IF i = 1 THEN [longer[i] EXCEPT !.range = wider] ELSE longer[i]
  <2>1. changed = Ranged(longer, 1, wider)
    BY <1>6 DEF Ranged
  <2> HIDE DEF changed, slots
  <2>2. /\ IsList(changed) /\ Len(changed) = Len(longer)
        /\ \A i \in 1 .. Len(longer) :
              changed[i] = IF i = 1 THEN [longer[i] EXCEPT !.range = wider] ELSE longer[i]
    <3>1. IsList(longer)
      BY <1>9
    <3> QED
      BY <2>1, <3>1, ListChanged
  <2> QED
    BY <1>9, <2>2
<1> HIDE DEF changed
<1>11. \A i \in 1 .. Len(slots) : slots[i] = SlotOf(slots[i], slots[i].range)
  <2>1. PICK place \in [1 .. Len(slots) -> 1 .. n - 1] :
            \A i \in 1 .. Len(slots) : slots[i] = SlotOf(tree[place[i]], slots[i].range)
    BY <1>2 DEF LaidOf
  <2>2. \A x, r : SlotOf(SlotOf(x, r), r) = SlotOf(x, r)
    BY DEF SlotOf
  <2> SUFFICES ASSUME NEW i \in 1 .. Len(slots)
               PROVE  slots[i] = SlotOf(slots[i], slots[i].range)
    OBVIOUS
  <2>3. slots[i] = SlotOf(tree[place[i]], slots[i].range)
    BY <2>1
  <2> QED
    BY <2>2, <2>3
<1>12. \A x, r, q : [SlotOf(x, r) EXCEPT !.range = q] = SlotOf(SlotOf(x, r), q)
  BY DEF SlotOf
<1>13. \A i \in 1 .. Len(slots) : \E r : changed[i] = SlotOf(slots[i], r)
  <2> SUFFICES ASSUME NEW i \in 1 .. Len(slots)
               PROVE  \E r : changed[i] = SlotOf(slots[i], r)
    OBVIOUS
  <2>1. i \in 1 .. Len(slots) + 1 /\ longer[i] = slots[i]
    BY <1>3, <1>9
  <2>2. slots[i] = SlotOf(slots[i], slots[i].range)
    BY <1>11
  <2>3. CASE i = 1
    <3>1. changed[i] = [slots[i] EXCEPT !.range = wider]
      BY <1>10, <2>1, <2>3
    <3>2. [slots[i] EXCEPT !.range = wider] = SlotOf(slots[i], wider)
      BY <1>12, <2>2
    <3> QED
      BY <3>1, <3>2
  <2>4. CASE i # 1
    <3>1. changed[i] = slots[i]
      BY <1>10, <2>1, <2>4
    <3> QED
      BY <2>2, <3>1
  <2> QED
    BY <2>3, <2>4
<1>14. changed[Len(slots) + 1] = SlotOf(node, [first |-> 0, count |-> 0])
  <2>1. Len(slots) + 1 \in 1 .. Len(slots) + 1 /\ Len(slots) + 1 # 1
    BY <1>2, <1>3
  <2> QED
    BY <1>8, <1>9, <1>10, <2>1 DEF slot
<1>15. LaidOf(changed, n, tree)
  <2>1. tree[n].kind \notin Layout!Tracked /\ \E r : changed[Len(slots) + 1] = SlotOf(tree[n], r)
    BY <1>14
  <2>2. n \in Nat /\ n # 0 /\ LaidOf(slots, n - 1, tree)
    BY <1>1, <1>2
  <2>3. IsList(changed) /\ Len(changed) = Len(slots) + 1
    BY <1>10
  <2> HIDE DEF slots, node
  <2> QED
    BY <1>13, <2>1, <2>2, <2>3, LayOne
<1>16. changed[1].kind = "module" /\ changed[1].range = wider
  <2>1. 1 \in 1 .. Len(slots) /\ 1 \in 1 .. Len(slots) + 1
    BY <1>2, <1>3
  <2>2. changed[1] = [slots[1] EXCEPT !.range = wider]
    BY <1>9, <1>10, <2>1
  <2>3. [slots[1] EXCEPT !.range = wider] = SlotOf(slots[1], wider)
    BY <1>11, <1>12, <2>1
  <2> QED
    BY <1>2, <2>2, <2>3 DEF SlotOf
<1>17. Len(changed) - 1 = Len(slots) /\ Len(changed) >= 1
  BY <1>3, <1>10
<1> DEFINE ranges == [model.nested EXCEPT !.of = of]
<1>18. ranges = [capacity |-> model.nested.capacity, count |-> model.nested.count, of |-> of]
  BY <1>2 DEF Sound
<1> HIDE DEF ranges, laid, slots
<1>19. laid = [items |-> changed, nested |-> ranges, failed |-> FALSE]
  BY <1>5 DEF ranges
<1>20. laid.items = changed /\ laid.nested = ranges /\ Sound(laid)
  <2>1. ranges = [capacity |-> ranges.capacity, count |-> ranges.count, of |-> ranges.of]
    BY <1>18
  <2> QED
    BY <1>19, <2>1, SoundMade
<1>21. laid.nested.count = 1 /\ laid.nested.of[0] = wider
  <2>1. ranges.count = model.nested.count /\ ranges.of = of
    BY <1>18
  <2> QED
    BY <1>2, <1>6, <1>7, <1>20, <2>1 DEF slots
<1>22. OneModule(laid, n, tree, first)
  BY <1>1, <1>15, <1>16, <1>17, <1>20, <1>21 DEF OneModule, wider
<1> QED
  BY <1>22 DEF laid, node

\* The model of such a tree.
LEMMA OneModuleBuilt ==
    ASSUME NEW tree, Len(tree) \in Nat, NEW head, NEW first, Single(tree, head, first)
    PROVE  OneModule(Layout!Built(tree), Len(tree), tree, first)
<1>1. first \in 1 .. Len(tree)
  BY DEF Single
<1>2. PICK g : ModelStates(g, tree) /\ Layout!Built(tree) = g[Len(tree)]
  BY BuildSteps
<1>3. /\ g[0] = Layout!NoOutput
      /\ \A n \in 1 .. Len(tree) : g[n] = Layout!Lay(tree, g[n - 1], tree[n])
  BY <1>2 DEF ModelStates
<1>4. OneModule(g[0], 0, tree, first)
  BY <1>1, <1>3 DEF OneModule
<1>5. ASSUME NEW n \in 1 .. Len(tree), OneModule(g[n - 1], n - 1, tree, first)
      PROVE  OneModule(g[n], n, tree, first)
  <2>1. g[n] = Layout!Lay(tree, g[n - 1], tree[n]) /\ n \in Nat /\ n # 0
    BY <1>3
  <2>2. CASE n < first
    <3>1. n - 1 < first /\ tree[n].kind \in Layout!Tracked
      BY <1>1, <2>2 DEF Single
    <3>2. g[n - 1] = Layout!NoOutput
      BY <1>5, <3>1 DEF OneModule
    <3>3. Sound(Layout!NoOutput)
      BY DEF Layout!NoOutput, Layout!NoRanges, Sound
    <3>4. g[n] = Layout!NoOutput
      BY <2>1, <3>1, <3>2, <3>3, LayKeeps
    <3> QED
      BY <2>2, <3>4 DEF OneModule
  <2>3. CASE n = first
    <3>1. n - 1 < first
      BY <1>1, <2>3
    <3>2. g[n - 1] = Layout!NoOutput
      BY <1>5, <3>1 DEF OneModule
    <3> QED
      BY <2>1, <2>3, <3>2, OneModuleOpens
  <2>4. CASE first < n
    <3>1. CASE tree[n].kind \notin Layout!Tracked
      BY <1>5, <2>1, <2>4, <3>1, OneModuleGrows
    <3>2. CASE tree[n].kind \in Layout!Tracked
      <4>1. ~(n < first) /\ ~(n - 1 < first)
        BY <1>1, <2>4
      <4>2. Sound(g[n - 1]) /\ LaidOf(g[n - 1].items, n - 1, tree)
        BY <1>5, <4>1 DEF OneModule
      <4>3. g[n] = g[n - 1]
        BY <2>1, <3>2, <4>2, LayKeeps
      <4>4. LaidOf(g[n].items, n, tree)
        BY <2>1, <3>2, <4>2, <4>3, LayNone
      <4> QED
        BY <1>5, <4>1, <4>3, <4>4 DEF OneModule
    <3> QED
      BY <3>1, <3>2
  <2> QED
    BY <1>1, <2>2, <2>3, <2>4
<1> SUFFICES ASSUME ~OneModule(g[Len(tree)], Len(tree), tree, first)
             PROVE  FALSE
  BY <1>2
<1> DEFINE bad == {m \in 0 .. Len(tree) : ~OneModule(g[m], m, tree, first)}
<1>6. bad \subseteq Nat /\ Len(tree) \in bad
  OBVIOUS
<1>7. PICK m \in bad : \A k \in bad : m <= k
  <2> HIDE DEF bad
  <2> QED
    BY <1>6, LeastNumber
<1>8. m \in 1 .. Len(tree) /\ m - 1 \in 0 .. Len(tree) /\ m - 1 \notin bad
  BY <1>4, <1>7
<1>9. OneModule(g[m - 1], m - 1, tree, first)
  BY <1>8
<1> QED
  BY <1>5, <1>7, <1>8, <1>9

\* The slots of a model that has not failed are those of the nodes.
LaidSo(model, n, tree) == Failed(model) \/ (Sound(model) /\ LaidOf(model.items, n, tree))

\* A slot more at the end.
LEMMA LaidAppended ==
    ASSUME NEW tree, NEW n \in Nat, n # 0, NEW slots, LaidOf(slots, n - 1, tree),
           tree[n].kind \notin Layout!Tracked, NEW range, NEW j, NEW r
    PROVE  /\ LaidOf(Append(slots, SlotOf(tree[n], range)), n, tree)
           /\ LaidOf(Ranged(Append(slots, SlotOf(tree[n], range)), j, r), n, tree)
<1> DEFINE slot == SlotOf(tree[n], range)
           longer == Append(slots, slot)
           changed == Ranged(longer, j, r)
<1>1. IsList(slots) /\ Len(slots) \in Nat
  BY ListLength DEF LaidOf
<1>2. /\ IsList(longer) /\ Len(longer) = Len(slots) + 1 /\ longer[Len(slots) + 1] = slot
      /\ \A i \in 1 .. Len(slots) : longer[i] = slots[i]
  <2> HIDE DEF slot
  <2> QED
    BY <1>1, ListAppended
<1>3. /\ \A i \in 1 .. Len(slots) : slots[i] = SlotOf(slots[i], slots[i].range)
      /\ \A x, q, p : [SlotOf(x, q) EXCEPT !.range = p] = SlotOf(x, p)
      /\ \A x, q, p : SlotOf(SlotOf(x, q), p) = SlotOf(x, p)
  <2>1. \A x, q, p : SlotOf(SlotOf(x, q), p) = SlotOf(x, p)
    BY DEF SlotOf
  <2>2. \A x, q, p : [SlotOf(x, q) EXCEPT !.range = p] = SlotOf(x, p)
    BY DEF SlotOf
  <2>3. PICK place \in [1 .. Len(slots) -> 1 .. n - 1] :
            \A i \in 1 .. Len(slots) : slots[i] = SlotOf(tree[place[i]], slots[i].range)
    BY DEF LaidOf
  <2>4. ASSUME NEW i \in 1 .. Len(slots)
        PROVE  slots[i] = SlotOf(slots[i], slots[i].range)
    <3>1. slots[i] = SlotOf(tree[place[i]], slots[i].range)
      BY <2>3
    <3> QED
      BY <2>1, <3>1
  <2> QED
    BY <2>1, <2>2, <2>4
<1> HIDE DEF longer
<1>4. LaidOf(longer, n, tree)
  <2>1. \A i \in 1 .. Len(slots) : \E q : longer[i] = SlotOf(slots[i], q)
    BY <1>2, <1>3
  <2>2. \E q : longer[Len(slots) + 1] = SlotOf(tree[n], q)
    BY <1>2
  <2> QED
    BY <1>2, <2>1, <2>2, LayOne
<1>5. /\ IsList(changed) /\ Len(changed) = Len(longer)
      /\ \A i \in 1 .. Len(longer) :
            changed[i] = IF i = j THEN [longer[i] EXCEPT !.range = r] ELSE longer[i]
  BY <1>2, ListChanged
<1> HIDE DEF changed
<1>6. \A i \in 1 .. Len(slots) : \E q : changed[i] = SlotOf(slots[i], q)
  <2> SUFFICES ASSUME NEW i \in 1 .. Len(slots)
               PROVE  \E q : changed[i] = SlotOf(slots[i], q)
    OBVIOUS
  <2>1. i \in 1 .. Len(longer) /\ longer[i] = slots[i]
    BY <1>1, <1>2
  <2>2. slots[i] = SlotOf(slots[i], slots[i].range)
    BY <1>3
  <2>3. CASE i = j
    <3>1. changed[i] = [slots[i] EXCEPT !.range = r]
      BY <1>5, <2>1, <2>3
    <3>2. [slots[i] EXCEPT !.range = r] = SlotOf(slots[i], r)
      BY <1>3, <2>2
    <3> QED
      BY <3>1, <3>2
  <2>4. CASE i # j
    <3>1. changed[i] = slots[i]
      BY <1>5, <2>1, <2>4
    <3> QED
      BY <2>2, <3>1
  <2> QED
    BY <2>3, <2>4
<1>7. \E q : changed[Len(slots) + 1] = SlotOf(tree[n], q)
  <2> DEFINE i == Len(slots) + 1
  <2>1. i \in 1 .. Len(longer) /\ longer[i] = slot
    BY <1>1, <1>2
  <2> HIDE DEF i
  <2>2. CASE i = j
    <3>1. changed[i] = [slot EXCEPT !.range = r]
      BY <1>5, <2>1, <2>2
    <3>2. [slot EXCEPT !.range = r] = SlotOf(tree[n], r)
      BY <1>3
    <3> QED
      BY <3>1, <3>2 DEF i
  <2>3. CASE i # j
    <3>1. changed[i] = slot
      BY <1>5, <2>1, <2>3
    <3> QED
      BY <3>1 DEF i
  <2> QED
    BY <2>2, <2>3
<1>8. LaidOf(changed, n, tree)
  <2>1. IsList(changed) /\ Len(changed) = Len(slots) + 1
    BY <1>2, <1>5
  <2> QED
    BY <1>6, <1>7, <2>1, LayOne
<1> QED
  BY <1>4, <1>8 DEF longer, changed

\* Every node keeps it.
LEMMA LaidStep ==
    ASSUME NEW tree, NEW n \in Nat, n # 0, NEW model, LaidSo(model, n - 1, tree)
    PROVE  LaidSo(Layout!Lay(tree, model, tree[n]), n, tree)
<1> DEFINE node == tree[n]
           laid == Layout!Lay(tree, model, node)
           slot == Layout!Slot(node)
           none == [first |-> 0, count |-> 0]
<1>s. slot = SlotOf(node, none)
  BY DEF Layout!Slot, SlotOf
<1>1. CASE Failed(model)
  BY <1>1, LayKeeps DEF LaidSo
<1>2. CASE ~Failed(model)
  <2>1. Sound(model) /\ LaidOf(model.items, n - 1, tree)
    BY <1>2 DEF LaidSo
  <2>2. CASE node.kind \in Layout!Tracked
    <3>1. laid = model
      BY <2>1, <2>2, LayKeeps
    <3>2. LaidOf(model.items, n, tree)
      BY <2>1, <2>2, LayNone
    <3> QED
      BY <2>1, <3>1, <3>2 DEF LaidSo
  <2>3. CASE node.kind = "module"
    <3>1. laid.items = Append(model.items, SlotOf(node, Opened(model))) /\ Sound(laid)
      <4> HIDE DEF node
      <4> QED
        BY <2>1, <2>3, LayModule
    <3>2. tree[n].kind \notin Layout!Tracked
      BY <2>3 DEF Layout!Tracked
    <3>3. LaidOf(laid.items, n, tree)
      BY <2>1, <3>1, <3>2, LaidAppended
    <3> QED
      BY <3>1, <3>3 DEF LaidSo
  <2>4. CASE node.kind \notin Layout!Tracked \cup {"module"}
    <3>1. Failed(laid) \/ Sound(laid)
      <4> HIDE DEF node
      <4> QED
        BY <2>1, <2>4, LayOther
    <3>2. CASE node.module = 0
      <4> HIDE DEF node, slot
      <4>1. laid = [model EXCEPT !.items = Append(@, Layout!Slot(node))]
        BY <2>1, <2>4, <3>2, LayChild
      <4>2. laid.items = Append(model.items, slot)
        BY <2>1, <4>1 DEF Sound, slot
      <4>3. LaidOf(laid.items, n, tree)
        BY <1>s, <2>1, <2>4, <4>2, LaidAppended DEF node
      <4> QED
        BY <3>1, <4>3 DEF LaidSo, node
    <3>3. CASE node.module # 0
      <4> DEFINE key == Layout!KeyOf(tree, node.module)
                 range == [model.nested.of[key] EXCEPT !.count = @ + 1]
                 ranges == [model.nested EXCEPT !.of = Layout!WithRange(@, key, range)]
                 longer == Append(model.items, slot)
      <4>1. laid = Layout!AddChild(model, key, node)
        BY <2>1, <2>4, <3>3, LayChild
      <4>2. CASE key >= model.nested.count
        <5> HIDE DEF key, laid, node
        <5>1. Failed(laid)
          BY <2>1, <4>1, <4>2, AddChildFails, Zenon
        <5> QED
          BY <5>1, Zenon DEF LaidSo, laid, node
      <4>3. CASE ~(key >= model.nested.count)
        <5> HIDE DEF key
        <5>1. laid = [items |-> [longer EXCEPT ![range.first - 1].range = range],
                      nested |-> ranges, failed |-> FALSE]
          BY <4>1, <4>3, AddChildGrows, Zenon
        <5> HIDE DEF ranges, longer, range, laid, node, slot
        <5>2. laid.items = Ranged(longer, range.first - 1, range)
          BY <5>1 DEF Ranged
        <5>3. longer = Append(model.items, SlotOf(tree[n], none))
          BY <1>s DEF longer, node, slot
        <5> HIDE DEF none
        <5>4. LaidOf(Ranged(longer, range.first - 1, range), n, tree)
          BY <2>1, <2>4, <5>3, LaidAppended DEF node
        <5>5. LaidOf(laid.items, n, tree)
          BY <5>2, <5>4
        <5> QED
          BY <3>1, <5>5 DEF LaidSo, laid, node
      <4> QED
        BY <4>2, <4>3
    <3> QED
      BY <3>2, <3>3
  <2> QED
    BY <2>2, <2>3, <2>4
<1> QED
  BY <1>1, <1>2

\* So it is with the whole model.
LEMMA LaidBuilt ==
    ASSUME NEW tree, Len(tree) \in Nat
    PROVE  LaidSo(Layout!Built(tree), Len(tree), tree)
<1>1. PICK g : ModelStates(g, tree) /\ Layout!Built(tree) = g[Len(tree)]
  BY BuildSteps
<1>2. /\ g[0] = Layout!NoOutput
      /\ \A n \in 1 .. Len(tree) : g[n] = Layout!Lay(tree, g[n - 1], tree[n])
  BY <1>1 DEF ModelStates
<1>3. LaidSo(g[0], 0, tree)
  <2>1. Sound(g[0]) /\ g[0].items = << >>
    BY <1>2 DEF Layout!NoOutput, Layout!NoRanges, Sound
  <2> DEFINE none == << >>
             place == [i \in 1 .. 0 |-> 1]
  <2>2. IsList(none) /\ Len(none) = 0
    BY DEF IsList
  <2>3. place \in [1 .. 0 -> 1 .. 0] /\ 1 .. 0 = {}
    OBVIOUS
  <2>4. LaidOf(none, 0, tree)
    <3> HIDE DEF none
    <3> QED
      BY <2>2, <2>3 DEF LaidOf
  <2> QED
    BY <2>1, <2>4 DEF LaidSo
<1>4. ASSUME NEW n \in 1 .. Len(tree), LaidSo(g[n - 1], n - 1, tree)
      PROVE  LaidSo(g[n], n, tree)
  <2>1. g[n] = Layout!Lay(tree, g[n - 1], tree[n]) /\ n \in Nat /\ n # 0
    BY <1>2
  <2> QED
    BY <1>4, <2>1, LaidStep
<1> SUFFICES ASSUME ~LaidSo(g[Len(tree)], Len(tree), tree)
             PROVE  FALSE
  BY <1>1
<1> DEFINE bad == {m \in 0 .. Len(tree) : ~LaidSo(g[m], m, tree)}
<1>6. bad \subseteq Nat /\ Len(tree) \in bad
  OBVIOUS
<1>7. PICK m \in bad : \A k \in bad : m <= k
  <2> HIDE DEF bad
  <2> QED
    BY <1>6, LeastNumber
<1>8. m \in 1 .. Len(tree) /\ m - 1 \in 0 .. Len(tree) /\ m - 1 \notin bad
  BY <1>3, <1>7
<1>9. LaidSo(g[m - 1], m - 1, tree)
  BY <1>8
<1> QED
  BY <1>4, <1>7, <1>8, <1>9

-----------------------------------------------------------------------------
(* The lines that are emitted. *)

\* Two lists one behind the other.
LEMMA ListsJoined ==
    ASSUME NEW a, NEW b, IsList(a), IsList(b)
    PROVE  /\ IsList(a \o b) /\ Len(a \o b) = Len(a) + Len(b)
           /\ Len(a) \in Nat /\ Len(b) \in Nat
           /\ \A i \in 1 .. Len(a) : (a \o b)[i] = a[i]
           /\ \A i \in 1 .. Len(b) : (a \o b)[Len(a) + i] = b[i]
<1>1. PICK R : a \in Seq(R)
  BY DEF IsList
<1>2. PICK T : b \in Seq(T)
  BY DEF IsList
<1>3. a \in Seq(R \cup T) /\ b \in Seq(R \cup T)
  BY <1>1, <1>2
<1>4. a \o b \in Seq(R \cup T) /\ Len(a \o b) = Len(a) + Len(b) /\ Len(a) \in Nat /\ Len(b) \in Nat
  BY <1>3
<1>5. \A i \in 1 .. Len(a) : (a \o b)[i] = a[i]
  BY <1>3
<1>6. \A i \in 1 .. Len(b) : (a \o b)[Len(a) + i] = b[i]
  BY <1>3, <1>4
<1> QED
  BY <1>4, <1>5, <1>6 DEF IsList

\* Of parts of which all but the first are empty the first is what they make.
LEMMA FlattenFirst ==
    ASSUME NEW parts, Len(parts) \in Nat, Len(parts) # 0, IsList(parts[1]),
           \A i \in 2 .. Len(parts) : parts[i] = << >>
    PROVE  Layout!FlattenSeq(parts) = parts[1]
<1> DEFINE n == Len(parts)
           is(g) == g = [i \in 1 .. n |-> IF i = 1 THEN parts[i] ELSE g[i - 1] \o parts[i]]
           flatten == CHOOSE g : is(g)
           first == parts[1]
<1>1. first \o << >> = first
  <2> HIDE DEF first
  <2>1. IsList(first)
    BY DEF first
  <2>2. PICK R : first \in Seq(R)
    BY <2>1 DEF IsList
  <2> QED
    BY <2>2
<1>2. Layout!FlattenSeq(parts) = flatten[n]
  BY DEF Layout!FlattenSeq
<1>3. \E g : is(g)
  <2> DEFINE g == [i \in 1 .. n |-> first]
  <2>1. ASSUME NEW i \in 1 .. n
        PROVE  (IF i = 1 THEN parts[i] ELSE g[i - 1] \o parts[i]) = first
    <3>1. CASE i = 1
      BY <3>1
    <3>2. CASE i # 1
      <4>1. i \in 2 .. n /\ i - 1 \in 1 .. n
        BY <3>2
      <4>2. g[i - 1] = first /\ parts[i] = << >>
        BY <4>1
      <4> HIDE DEF g, first
      <4> QED
        BY <1>1, <3>2, <4>2
    <3> QED
      BY <3>1, <3>2
  <2>2. [i \in 1 .. n |-> IF i = 1 THEN parts[i] ELSE g[i - 1] \o parts[i]]
            = [i \in 1 .. n |-> first]
    <3> HIDE DEF g, first
    <3> QED
      BY <2>1
  <2>3. is(g)
    BY <2>2
  <2> HIDE DEF is, g
  <2> QED
    BY <2>3
<1>4. is(flatten)
  <2> HIDE DEF is
  <2> QED
    BY <1>3
<1> HIDE DEF flatten
<1>5. \A i \in 1 .. n : flatten[i] = IF i = 1 THEN parts[i] ELSE flatten[i - 1] \o parts[i]
  BY <1>4, Zenon
<1>6. flatten[n] = first
  <2> SUFFICES ASSUME flatten[n] # first
               PROVE  FALSE
    OBVIOUS
  <2> DEFINE bad == {i \in 1 .. n : flatten[i] # first}
  <2>1. bad \subseteq Nat /\ n \in bad
    OBVIOUS
  <2>2. PICK m \in bad : \A k \in bad : m <= k
    <3> HIDE DEF bad
    <3> QED
      BY <2>1, LeastNumber
  <2>3. CASE m = 1
    <3>1. 1 \in 1 .. n
      OBVIOUS
    <3> QED
      BY <1>5, <2>2, <2>3, <3>1
  <2>4. CASE m # 1
    <3>1. m \in 2 .. n /\ m \in 1 .. n /\ m - 1 \in 1 .. n /\ m - 1 \notin bad
      BY <2>2, <2>4
    <3>2. flatten[m - 1] = first /\ parts[m] = << >>
      BY <3>1
    <3>3. flatten[m] = flatten[m - 1] \o parts[m]
      BY <1>5, <2>4, <3>1
    <3>4. flatten[m] = first
      <4> HIDE DEF first
      <4> QED
        BY <1>1, <3>2, <3>3
    <3> QED
      BY <2>2, <3>4
  <2> QED
    BY <2>3, <2>4
<1> QED
  BY <1>2, <1>6

\* The names of lines of a kind, when the lines of that kind stand in the order of the names.
LEMMA NamesInOrder ==
    ASSUME NEW out, NEW kind, IsList(out),
           \A i, j \in 1 .. Len(out) :
               i < j /\ out[i].kind = kind /\ out[j].kind = kind => out[i].name < out[j].name
    PROVE  LET declared == Layout!OfKind(out, {kind})
           IN  /\ {line.name : line \in Layout!ToSet(declared)} =
                      {out[i].name : i \in {k \in 1 .. Len(out) : out[k].kind = kind}}
               /\ \A i, j \in DOMAIN declared : i < j => declared[i].name < declared[j].name
<1> DEFINE declared == Layout!OfKind(out, {kind})
           left == {line.name : line \in Layout!ToSet(declared)}
           right == {out[i].name : i \in {k \in 1 .. Len(out) : out[k].kind = kind}}
<1>1. Len(out) \in Nat
  BY ListLength
<1>2. ChosenOf(declared, Len(out), out, {kind})
  BY <1>1, KindsChosen
<1> HIDE DEF declared
<1>3. IsList(declared) /\ DOMAIN declared = 1 .. Len(declared)
  BY <1>2, ListLength DEF ChosenOf
<1>4. PICK place \in [1 .. Len(declared) -> 1 .. Len(out)] :
          /\ \A i, j \in 1 .. Len(declared) : i < j => place[i] < place[j]
          /\ \A i \in 1 .. Len(declared) :
                declared[i] = out[place[i]] /\ out[place[i]].kind \in {kind}
          /\ \A k \in 1 .. Len(out) : out[k].kind \in {kind} =>
                \E i \in 1 .. Len(declared) : place[i] = k
  BY <1>2 DEF ChosenOf
<1>5. \A i \in 1 .. Len(declared) :
          /\ place[i] \in 1 .. Len(out) /\ declared[i] = out[place[i]] /\ out[place[i]].kind = kind
  BY <1>4
<1>6. ASSUME NEW i \in DOMAIN declared, NEW j \in DOMAIN declared, i < j
      PROVE  declared[i].name < declared[j].name
  BY <1>3, <1>4, <1>5, <1>6
<1>7. \A x : x \in left <=> \E i \in 1 .. Len(declared) : x = declared[i].name
  <2>1. Layout!ToSet(declared) = {declared[i] : i \in 1 .. Len(declared)}
    BY <1>3 DEF Layout!ToSet
  <2> QED
    BY <2>1
<1>8. \A x : x \in right <=> \E k \in 1 .. Len(out) : out[k].kind = kind /\ x = out[k].name
  OBVIOUS
<1> HIDE DEF left, right
<1>9. \A x : x \in left <=> x \in right
  <2> SUFFICES ASSUME NEW x
               PROVE  x \in left <=> x \in right
    OBVIOUS
  <2>1. ASSUME x \in left
        PROVE  x \in right
    BY <1>5, <1>7, <1>8, <2>1
  <2>2. ASSUME x \in right
        PROVE  x \in left
    <3>1. PICK k \in 1 .. Len(out) : out[k].kind = kind /\ x = out[k].name
      BY <1>8, <2>2
    <3>2. PICK i \in 1 .. Len(declared) : place[i] = k
      BY <1>4, <3>1
    <3> QED
      BY <1>5, <1>7, <3>1, <3>2
  <2> QED
    BY <2>1, <2>2
<1>10. left = right
  BY <1>9
<1> QED
  BY <1>6, <1>10 DEF left, right, declared

\* The slots of a file of one module: that of the module, and behind it those of its
\* declarations in their order among others.
SlotsKnown(slots, file) ==
    /\ IsList(slots) /\ Len(slots) >= 1 /\ slots[1].kind = "module"
    /\ slots[1].range = Behind(Len(slots) - 1)
    /\ \A i \in 2 .. Len(slots) : slots[i].kind # "module"
    /\ \A i \in 2 .. Len(slots) : slots[i].kind \in Layout!Declarations =>
          slots[i].at \in 1 .. Len(file) /\ file[slots[i].at] = slots[i].kind
    /\ \A i, j \in 2 .. Len(slots) :
          i < j /\ slots[i].kind \in Layout!Declarations /\ slots[j].kind \in Layout!Declarations
             => slots[i].at < slots[j].at
    /\ \A c \in 1 .. Len(file) : file[c] \in Layout!Declarations =>
          \E i \in 2 .. Len(slots) : slots[i].kind = file[c] /\ slots[i].at = c

\* The model of a tree of one module has such slots.
LEMMA ModelKnown ==
    ASSUME NEW file, Len(file) \in Nat, NEW tree, Len(tree) \in Nat,
           NodesOK(tree, Len(file), file), NEW head, NEW first, Single(tree, head, first),
           NEW model, OneModule(model, Len(tree), tree, first)
    PROVE  SlotsKnown(model.items, file)
<1> DEFINE slots == model.items
<1>1. /\ first \in 1 .. Len(tree) /\ ~(Len(tree) < first)
      /\ \A i \in 1 .. Len(tree) : i < first => tree[i].kind \in Layout!Tracked
      /\ \A i \in 1 .. Len(tree) : first < i =>
            tree[i].kind \in Layout!Tracked \/ tree[i].kind # "module"
  BY DEF Single
<1>2. /\ LaidOf(slots, Len(tree), tree)
      /\ Len(slots) >= 1 /\ slots[1].kind = "module" /\ slots[1].range = Behind(Len(slots) - 1)
  BY <1>1 DEF OneModule
<1> HIDE DEF slots
<1>3. IsList(slots) /\ Len(slots) \in Nat
  BY <1>2, ListLength DEF LaidOf
<1>4. PICK place \in [1 .. Len(slots) -> 1 .. Len(tree)] :
          /\ \A i, j \in 1 .. Len(slots) : i < j => place[i] < place[j]
          /\ \A i \in 1 .. Len(slots) : slots[i] = SlotOf(tree[place[i]], slots[i].range)
          /\ \A i \in 1 .. Len(slots) : tree[place[i]].kind \notin Layout!Tracked
          /\ \A k \in 1 .. Len(tree) : tree[k].kind \notin Layout!Tracked =>
                \E i \in 1 .. Len(slots) : place[i] = k
  BY <1>2 DEF LaidOf
<1>5. \A i \in 1 .. Len(slots) :
          /\ place[i] \in 1 .. Len(tree)
          /\ slots[i].kind = tree[place[i]].kind /\ slots[i].at = tree[place[i]].at
  <2>1. \A node, range : SlotOf(node, range).kind = node.kind /\ SlotOf(node, range).at = node.at
    BY DEF SlotOf
  <2> QED
    BY <1>4, <2>1
<1>6. ASSUME NEW i \in 2 .. Len(slots)
      PROVE  slots[i].kind # "module"
  <2>1. 1 \in 1 .. Len(slots) /\ i \in 1 .. Len(slots) /\ 1 < i
    BY <1>3
  <2>2. place[1] < place[i]
    BY <1>4, <2>1
  <2>3. place[1] \in 1 .. Len(tree) /\ tree[place[1]].kind \notin Layout!Tracked
    BY <1>4, <1>5, <2>1
  <2>4. ~(place[1] < first)
    BY <1>1, <2>3
  <2>5. first < place[i]
    BY <1>1, <1>5, <2>1, <2>2, <2>3, <2>4
  <2> QED
    BY <1>1, <1>4, <1>5, <2>1, <2>5
<1>7. \A i \in 1 .. Len(tree) : tree[i].kind \in Layout!Declarations =>
          /\ tree[i].kind # "opaque"
          /\ tree[i].at \in 1 .. Len(file) /\ tree[i].kind = file[tree[i].at]
  BY DEF NodesOK, Layout!Declarations
<1>8. ASSUME NEW i \in 2 .. Len(slots), slots[i].kind \in Layout!Declarations
      PROVE  slots[i].at \in 1 .. Len(file) /\ file[slots[i].at] = slots[i].kind
  <2>1. i \in 1 .. Len(slots)
    OBVIOUS
  <2> QED
    BY <1>5, <1>7, <1>8, <2>1
<1>9. ASSUME NEW i \in 2 .. Len(slots), NEW j \in 2 .. Len(slots), i < j,
             slots[i].kind \in Layout!Declarations, slots[j].kind \in Layout!Declarations
      PROVE  slots[i].at < slots[j].at
  <2>1. i \in 1 .. Len(slots) /\ j \in 1 .. Len(slots)
    OBVIOUS
  <2>2. tree[place[i]].kind # "opaque" /\ tree[place[j]].kind # "opaque" /\ place[i] < place[j]
    BY <1>4, <1>5, <1>7, <1>9, <2>1
  <2>3. tree[place[i]].at < tree[place[j]].at
    BY <1>5, <2>1, <2>2 DEF NodesOK
  <2> QED
    BY <1>5, <2>1, <2>3
<1>10. ASSUME NEW c \in 1 .. Len(file), file[c] \in Layout!Declarations
       PROVE  \E i \in 2 .. Len(slots) : slots[i].kind = file[c] /\ slots[i].at = c
  <2>1. file[c] \in ItemKinds /\ file[c] \notin Layout!Tracked /\ file[c] # "module"
    BY <1>10 DEF ItemKinds, Layout!Declarations, Layout!Tracked
  <2>2. PICK k \in 1 .. Len(tree) : tree[k].kind = file[c] /\ tree[k].at = c
    BY <2>1 DEF NodesOK
  <2>3. PICK i \in 1 .. Len(slots) : place[i] = k
    BY <1>4, <2>1, <2>2
  <2>4. slots[i].kind = file[c] /\ slots[i].at = c
    BY <1>5, <2>2, <2>3
  <2>5. i # 1
    BY <1>2, <2>1, <2>4
  <2>6. i \in 2 .. Len(slots)
    BY <1>3, <2>5
  <2> QED
    BY <2>4, <2>6
<1>11. SlotsKnown(slots, file)
  BY <1>2, <1>3, <1>6, <1>8, <1>9, <1>10 DEF SlotsKnown
<1> QED
  BY <1>11 DEF slots

\* The slots behind that of the module.
LEMMA Children ==
    ASSUME NEW slots, IsList(slots), Len(slots) >= 1
    PROVE  LET rest == SubSeq(slots, 2, Len(slots))
           IN  /\ IsList(rest) /\ Len(rest) = Len(slots) - 1
               /\ \A i \in 1 .. Len(rest) : rest[i] = slots[i + 1]
<1> DEFINE n == Len(slots)
           rest == SubSeq(slots, 2, n)
<1>1. PICK R : slots \in Seq(R)
  BY DEF IsList
<1>2. n \in Int /\ n >= 1 /\ 2 \in Int /\ \A i \in 2 .. n : slots[i] \in R
  BY <1>1
<1> HIDE DEF n
<1>3. /\ rest \in Seq(R) /\ Len(rest) = IF 2 <= n THEN n - 2 + 1 ELSE 0
      /\ \A i \in 1 .. n - 2 + 1 : rest[i] = slots[2 + i - 1]
  BY <1>2, SubSeqProperties
<1> HIDE DEF rest
<1>4. Len(rest) = n - 1
  BY <1>2, <1>3
<1>5. ASSUME NEW i \in 1 .. Len(rest)
      PROVE  rest[i] = slots[i + 1]
  <2>1. i \in 1 .. n - 2 + 1 /\ 2 + i - 1 = i + 1
    BY <1>2, <1>4
  <2> QED
    BY <1>3, <2>1
<1> QED
  BY <1>3, <1>4, <1>5 DEF IsList, rest, n

\* The declarations of a kind among them are those of the file, in its order.
LEMMA ChildrenOfKind ==
    ASSUME NEW file, NEW slots, SlotsKnown(slots, file), NEW kind \in Layout!Declarations
    PROVE  LET chosen == Layout!OfKind(SubSeq(slots, 2, Len(slots)), {kind})
           IN  /\ IsList(chosen)
               /\ \A i \in 1 .. Len(chosen) :
                     chosen[i].at \in 1 .. Len(file) /\ file[chosen[i].at] = kind
               /\ \A i, j \in 1 .. Len(chosen) : i < j => chosen[i].at < chosen[j].at
               /\ \A c \in 1 .. Len(file) : file[c] = kind =>
                     \E i \in 1 .. Len(chosen) : chosen[i].at = c
<1> DEFINE rest == SubSeq(slots, 2, Len(slots))
           chosen == Layout!OfKind(rest, {kind})
<1>1. /\ IsList(slots) /\ Len(slots) >= 1
      /\ \A i \in 2 .. Len(slots) : slots[i].kind = kind =>
            slots[i].at \in 1 .. Len(file) /\ file[slots[i].at] = kind
      /\ \A i, j \in 2 .. Len(slots) :
            i < j /\ slots[i].kind = kind /\ slots[j].kind = kind => slots[i].at < slots[j].at
      /\ \A c \in 1 .. Len(file) : file[c] = kind =>
            \E i \in 2 .. Len(slots) : slots[i].kind = kind /\ slots[i].at = c
  BY DEF SlotsKnown
<1>2. Len(slots) \in Nat
  BY <1>1, ListLength
<1>3. /\ IsList(rest) /\ Len(rest) = Len(slots) - 1
      /\ \A i \in 1 .. Len(rest) : rest[i] = slots[i + 1]
  BY <1>1, Children
<1> HIDE DEF rest
<1>4. Len(rest) \in Nat
  BY <1>3, ListLength
<1>5. ChosenOf(chosen, Len(rest), rest, {kind})
  BY <1>4, KindsChosen
<1> HIDE DEF chosen
<1>6. IsList(chosen) /\ Len(chosen) \in Nat
  BY <1>5, ListLength DEF ChosenOf
<1>7. PICK place \in [1 .. Len(chosen) -> 1 .. Len(rest)] :
          /\ \A i, j \in 1 .. Len(chosen) : i < j => place[i] < place[j]
          /\ \A i \in 1 .. Len(chosen) :
                chosen[i] = rest[place[i]] /\ rest[place[i]].kind \in {kind}
          /\ \A k \in 1 .. Len(rest) : rest[k].kind \in {kind} =>
                \E i \in 1 .. Len(chosen) : place[i] = k
  BY <1>5 DEF ChosenOf
<1>8. \A i \in 1 .. Len(chosen) :
          /\ place[i] \in Nat /\ place[i] + 1 \in 2 .. Len(slots)
          /\ chosen[i] = slots[place[i] + 1] /\ slots[place[i] + 1].kind = kind
  <2> SUFFICES ASSUME NEW i \in 1 .. Len(chosen)
               PROVE  /\ place[i] \in Nat /\ place[i] + 1 \in 2 .. Len(slots)
                      /\ chosen[i] = slots[place[i] + 1] /\ slots[place[i] + 1].kind = kind
    OBVIOUS
  <2>1. place[i] \in 1 .. Len(rest)
    BY <1>7
  <2>2. chosen[i] = rest[place[i]] /\ rest[place[i]].kind = kind
    BY <1>7
  <2>3. place[i] \in Nat /\ place[i] + 1 \in 2 .. Len(slots)
    BY <1>2, <1>3, <1>4, <2>1
  <2>4. rest[place[i]] = slots[place[i] + 1]
    BY <1>2, <1>3, <1>4, <2>1
  <2> QED
    BY <2>2, <2>3, <2>4
<1>9. \A i \in 1 .. Len(chosen) : chosen[i].at \in 1 .. Len(file) /\ file[chosen[i].at] = kind
  BY <1>1, <1>8
<1>10. ASSUME NEW i \in 1 .. Len(chosen), NEW j \in 1 .. Len(chosen), i < j
       PROVE  chosen[i].at < chosen[j].at
  <2>1. place[i] < place[j]
    BY <1>7, <1>10
  <2>2. place[i] \in Nat /\ place[j] \in Nat
    BY <1>8, <1>10
  <2>3. place[i] + 1 < place[j] + 1
    BY <2>1, <2>2
  <2> QED
    BY <1>1, <1>8, <2>3
<1>11. ASSUME NEW c \in 1 .. Len(file), file[c] = kind
       PROVE  \E i \in 1 .. Len(chosen) : chosen[i].at = c
  <2>1. PICK k \in 2 .. Len(slots) : slots[k].kind = kind /\ slots[k].at = c
    BY <1>1, <1>11
  <2>2. k - 1 \in 1 .. Len(rest) /\ rest[k - 1] = slots[k]
    BY <1>2, <1>3
  <2>3. PICK i \in 1 .. Len(chosen) : place[i] = k - 1
    BY <1>7, <2>1, <2>2
  <2>4. chosen[i] = slots[k]
    BY <1>7, <2>2, <2>3
  <2> QED
    BY <2>1, <2>4
<1> QED
  BY <1>6, <1>9, <1>10, <1>11 DEF chosen, rest

\* The lines of a kind among some lines are those of the chunks of that kind, in their order.
DeclaredIn(out, kind, file) ==
    /\ IsList(out)
    /\ \A i \in 1 .. Len(out) : out[i].kind = kind =>
          out[i].name \in 1 .. Len(file) /\ file[out[i].name] = kind
    /\ \A i, j \in 1 .. Len(out) :
          i < j /\ out[i].kind = kind /\ out[j].kind = kind => out[i].name < out[j].name
    /\ \A c \in 1 .. Len(file) : file[c] = kind =>
          \E i \in 1 .. Len(out) : out[i].kind = kind /\ out[i].name = c

\* There are none of the kind.
NoneIn(out, kind) == IsList(out) /\ \A i \in 1 .. Len(out) : out[i].kind # kind

\* A place of two lists, one behind the other, is a place of one of them.
LEMMA PlacesJoined ==
    ASSUME NEW a, NEW b, IsList(a), IsList(b), NEW i \in 1 .. Len(a \o b)
    PROVE  \/ i \in 1 .. Len(a) /\ (a \o b)[i] = a[i]
           \/ i - Len(a) \in 1 .. Len(b) /\ (a \o b)[i] = b[i - Len(a)]
<1> DEFINE both == a \o b
           m == Len(a)
           n == Len(b)
<1>1. /\ Len(both) = m + n /\ m \in Nat /\ n \in Nat
      /\ \A k \in 1 .. m : both[k] = a[k]
      /\ \A k \in 1 .. n : both[m + k] = b[k]
  BY ListsJoined
<1>2. i \in 1 .. Len(both)
  OBVIOUS
<1> HIDE DEF both, m, n
<1>3. CASE i \in 1 .. m
  BY <1>1, <1>3 DEF both, m
<1>4. CASE i \notin 1 .. m
  <2> DEFINE k == i - m
  <2>1. k \in 1 .. n /\ m + k = i
    BY <1>1, <1>2, <1>4
  <2>2. both[m + k] = b[k]
    BY <1>1, <2>1
  <2> QED
    BY <2>1, <2>2 DEF both, m, n
<1> QED
  BY <1>3, <1>4

\* Lines without the kind behind lines without it.
LEMMA NoneJoined ==
    ASSUME NEW a, NEW b, NEW kind, NoneIn(a, kind), NoneIn(b, kind)
    PROVE  NoneIn(a \o b, kind)
<1>1. IsList(a) /\ IsList(b)
  BY DEF NoneIn
<1>2. IsList(a \o b)
  BY <1>1, ListsJoined
<1>3. ASSUME NEW i \in 1 .. Len(a \o b)
      PROVE  (a \o b)[i].kind # kind
  <2>1. \/ i \in 1 .. Len(a) /\ (a \o b)[i] = a[i]
        \/ i - Len(a) \in 1 .. Len(b) /\ (a \o b)[i] = b[i - Len(a)]
    BY <1>1, PlacesJoined
  <2> QED
    BY <2>1 DEF NoneIn
<1> QED
  BY <1>2, <1>3 DEF NoneIn

\* Behind those that have it they change nothing.
LEMMA NoneBehind ==
    ASSUME NEW a, NEW b, NEW kind, NEW file, DeclaredIn(a, kind, file), NoneIn(b, kind)
    PROVE  DeclaredIn(a \o b, kind, file)
<1> DEFINE both == a \o b
<1>1. IsList(a) /\ IsList(b)
  BY DEF NoneIn, DeclaredIn
<1>2. /\ IsList(both) /\ Len(both) = Len(a) + Len(b) /\ Len(a) \in Nat /\ Len(b) \in Nat
      /\ \A i \in 1 .. Len(a) : both[i] = a[i]
  BY <1>1, ListsJoined
<1>3. ASSUME NEW i \in 1 .. Len(both), both[i].kind = kind
      PROVE  i \in 1 .. Len(a) /\ both[i] = a[i]
  <2>1. \/ i \in 1 .. Len(a) /\ both[i] = a[i]
        \/ i - Len(a) \in 1 .. Len(b) /\ both[i] = b[i - Len(a)]
    BY <1>1, PlacesJoined
  <2>2. \A k \in 1 .. Len(b) : b[k].kind # kind
    BY DEF NoneIn
  <2> HIDE DEF both
  <2> QED
    BY <1>3, <2>1, <2>2
<1>4. \A i \in 1 .. Len(a) : i \in 1 .. Len(both)
  BY <1>2
<1> HIDE DEF both
<1>5. \A i \in 1 .. Len(both) : both[i].kind = kind =>
          both[i].name \in 1 .. Len(file) /\ file[both[i].name] = kind
  BY <1>3 DEF DeclaredIn
<1>6. \A i, j \in 1 .. Len(both) :
          i < j /\ both[i].kind = kind /\ both[j].kind = kind => both[i].name < both[j].name
  BY <1>3 DEF DeclaredIn
<1>7. \A c \in 1 .. Len(file) : file[c] = kind =>
          \E i \in 1 .. Len(both) : both[i].kind = kind /\ both[i].name = c
  BY <1>2, <1>4 DEF DeclaredIn
<1>8. DeclaredIn(both, kind, file)
  BY <1>2, <1>5, <1>6, <1>7 DEF DeclaredIn
<1> QED
  BY <1>8 DEF both

\* Nor before them.
LEMMA NoneBefore ==
    ASSUME NEW a, NEW b, NEW kind, NEW file, NoneIn(a, kind), DeclaredIn(b, kind, file)
    PROVE  DeclaredIn(a \o b, kind, file)
<1> DEFINE both == a \o b
           m == Len(a)
<1>1. IsList(a) /\ IsList(b)
  BY DEF NoneIn, DeclaredIn
<1>2. /\ IsList(both) /\ Len(both) = m + Len(b) /\ m \in Nat /\ Len(b) \in Nat
      /\ \A i \in 1 .. Len(b) : both[m + i] = b[i]
  BY <1>1, ListsJoined
<1>3. ASSUME NEW i \in 1 .. Len(both), both[i].kind = kind
      PROVE  i - m \in 1 .. Len(b) /\ both[i] = b[i - m]
  <2>1. \/ i \in 1 .. Len(a) /\ both[i] = a[i]
        \/ i - m \in 1 .. Len(b) /\ both[i] = b[i - m]
    BY <1>1, PlacesJoined
  <2>2. \A k \in 1 .. Len(a) : a[k].kind # kind
    BY DEF NoneIn
  <2> HIDE DEF both
  <2> QED
    BY <1>3, <2>1, <2>2
<1>4. \A i \in 1 .. Len(b) : m + i \in 1 .. Len(both)
  BY <1>2
<1> HIDE DEF both, m
<1>5. \A i \in 1 .. Len(both) : both[i].kind = kind =>
          both[i].name \in 1 .. Len(file) /\ file[both[i].name] = kind
  BY <1>3 DEF DeclaredIn
<1>6. ASSUME NEW i \in 1 .. Len(both), NEW j \in 1 .. Len(both), i < j,
             both[i].kind = kind, both[j].kind = kind
      PROVE  both[i].name < both[j].name
  <2>1. i - m \in 1 .. Len(b) /\ j - m \in 1 .. Len(b) /\ both[i] = b[i - m] /\ both[j] = b[j - m]
    BY <1>3, <1>6
  <2>2. i - m < j - m
    BY <1>2, <1>6
  <2> QED
    BY <1>6, <2>1, <2>2 DEF DeclaredIn
<1>7. ASSUME NEW c \in 1 .. Len(file), file[c] = kind
      PROVE  \E i \in 1 .. Len(both) : both[i].kind = kind /\ both[i].name = c
  <2>1. PICK i \in 1 .. Len(b) : b[i].kind = kind /\ b[i].name = c
    BY <1>7 DEF DeclaredIn
  <2>2. both[m + i] = b[i] /\ m + i \in 1 .. Len(both)
    BY <1>2, <1>4
  <2> QED
    BY <2>1, <2>2
<1>8. DeclaredIn(both, kind, file)
  BY <1>2, <1>5, <1>6, <1>7 DEF DeclaredIn
<1> QED
  BY <1>8 DEF both

\* A list of one line.
LEMMA OneLine ==
    ASSUME NEW line
    PROVE  /\ IsList(<<line>>) /\ Len(<<line>>) = 1 /\ <<line>>[1] = line
           /\ \A kind : line.kind # kind => NoneIn(<<line>>, kind)
<1>1. <<line>> \in Seq({line}) /\ Len(<<line>>) = 1 /\ <<line>>[1] = line
  OBVIOUS
<1>2. IsList(<<line>>)
  BY <1>1, Zenon DEF IsList
<1>3. \A i \in 1 .. Len(<<line>>) : <<line>>[i] = line
  BY <1>1
<1> QED
  BY <1>1, <1>2, <1>3 DEF NoneIn

\* The emitter finds the names: the module has the one no object claims.
LEMMA NamesFound ==
    ASSUME NEW file, NEW tree, Len(tree) \in Nat, NodesOK(tree, Len(file), file), NEW head,
           OneHead(file, head), lowered = Layout!SignalsOf(tree),
           written_names = Layout!ModulesOf(tree) \o Layout!SignalsOf(tree)
    PROVE  /\ Layout!UnclaimedName = head
           /\ \A c \in 1 .. Len(file) : file[c] \in Layout!Declarations => Layout!NameOf(c) = c
<1> DEFINE a == Layout!ModulesOf(tree)
           b == Layout!SignalsOf(tree)
<1>1. /\ Len(file) \in Nat /\ head \in 1 .. Len(file) /\ file[head] = "module"
      /\ \A i \in 1 .. Len(file) : file[i] = "module" => i = head
  BY DEF OneHead
<1>2. ChosenOf(a, Len(tree), tree, {"module"})
  BY KindsChosen DEF Layout!ModulesOf
<1>3. ChosenOf(b, Len(tree), tree, Layout!Declarations)
  BY KindsChosen DEF Layout!SignalsOf
<1> HIDE DEF a, b
<1>4. \A i \in 1 .. Len(tree) : tree[i].kind \in {"module"} \cup Layout!Declarations =>
          tree[i].at \in 1 .. Len(file) /\ tree[i].kind = file[tree[i].at]
  BY DEF NodesOK, Layout!Declarations
<1>5. /\ IsList(a) /\ Len(a) \in Nat
      /\ \A i \in 1 .. Len(a) : a[i].at = head
      /\ Len(a) >= 1
  <2>1. IsList(a) /\ Len(a) \in Nat
    BY <1>2, ListLength DEF ChosenOf
  <2>2. PICK place \in [1 .. Len(a) -> 1 .. Len(tree)] :
            /\ \A i \in 1 .. Len(a) : a[i] = tree[place[i]] /\ tree[place[i]].kind \in {"module"}
            /\ \A k \in 1 .. Len(tree) : tree[k].kind \in {"module"} =>
                  \E i \in 1 .. Len(a) : place[i] = k
    BY <1>2 DEF ChosenOf
  <2>3. ASSUME NEW i \in 1 .. Len(a)
        PROVE  a[i].at = head
    <3>1. place[i] \in 1 .. Len(tree) /\ a[i] = tree[place[i]] /\ tree[place[i]].kind = "module"
      BY <2>2
    <3> QED
      BY <1>1, <1>4, <3>1
  <2>4. file[head] \in ItemKinds
    BY <1>1 DEF ItemKinds
  <2>5. PICK k \in 1 .. Len(tree) : tree[k].kind = "module"
    BY <1>1, <2>4 DEF NodesOK
  <2>6. PICK i \in 1 .. Len(a) : place[i] = k
    BY <2>2, <2>5
  <2> QED
    BY <2>1, <2>3, <2>6
<1>6. /\ IsList(b) /\ Len(b) \in Nat /\ DOMAIN b = 1 .. Len(b)
      /\ \A i \in 1 .. Len(b) : b[i].at \in 1 .. Len(file) /\ file[b[i].at] \in Layout!Declarations
      /\ \A c \in 1 .. Len(file) : file[c] \in Layout!Declarations =>
            \E i \in 1 .. Len(b) : b[i].at = c
  <2>1. IsList(b) /\ Len(b) \in Nat /\ DOMAIN b = 1 .. Len(b)
    BY <1>3, ListLength DEF ChosenOf
  <2>2. PICK place \in [1 .. Len(b) -> 1 .. Len(tree)] :
            /\ \A i \in 1 .. Len(b) :
                  b[i] = tree[place[i]] /\ tree[place[i]].kind \in Layout!Declarations
            /\ \A k \in 1 .. Len(tree) : tree[k].kind \in Layout!Declarations =>
                  \E i \in 1 .. Len(b) : place[i] = k
    BY <1>3 DEF ChosenOf
  <2>3. ASSUME NEW i \in 1 .. Len(b)
        PROVE  b[i].at \in 1 .. Len(file) /\ file[b[i].at] \in Layout!Declarations
    <3>1. /\ place[i] \in 1 .. Len(tree) /\ b[i] = tree[place[i]]
          /\ tree[place[i]].kind \in Layout!Declarations
      BY <2>2
    <3> QED
      BY <1>4, <3>1
  <2>4. ASSUME NEW c \in 1 .. Len(file), file[c] \in Layout!Declarations
        PROVE  \E i \in 1 .. Len(b) : b[i].at = c
    <3>1. file[c] \in ItemKinds
      BY <2>4 DEF ItemKinds
    <3>2. PICK k \in 1 .. Len(tree) : tree[k].kind = file[c] /\ tree[k].at = c
      BY <3>1 DEF NodesOK
    <3>3. PICK i \in 1 .. Len(b) : place[i] = k
      BY <2>2, <2>4, <3>2
    <3> QED
      BY <2>2, <3>2, <3>3
  <2> QED
    BY <2>1, <2>3, <2>4
<1>7. /\ IsList(written_names) /\ Len(written_names) = Len(a) + Len(b)
      /\ \A i \in 1 .. Len(a) : written_names[i] = a[i]
      /\ \A i \in 1 .. Len(b) : written_names[Len(a) + i] = b[i]
  BY <1>5, <1>6, ListsJoined DEF a, b
<1>8. DOMAIN written_names = 1 .. Len(written_names) /\ Len(written_names) \in Nat
  BY <1>7, ListLength
<1>9. lowered = b
  BY DEF b
<1>10. ASSUME NEW c \in 1 .. Len(file), file[c] \in Layout!Declarations
       PROVE  Layout!NameOf(c) = c
  <2>1. PICK i \in 1 .. Len(b) : b[i].at = c
    BY <1>6, <1>10
  <2>2. written_names[Len(a) + i] = b[i]
    BY <1>7
  <2>3. Len(a) + i \in 1 .. Len(a) + Len(b)
    BY <1>5, <1>6
  <2>4. Len(a) + i \in DOMAIN written_names
    BY <1>7, <1>8, <2>3
  <2> QED
    BY <2>1, <2>2, <2>4 DEF Layout!NameOf
<1>11. Layout!UnclaimedName = head
  <2> DEFINE free == {k \in DOMAIN written_names :
                         \A i \in DOMAIN lowered : lowered[i].at # written_names[k].at}
  <2>1. 1 \in 1 .. Len(a) /\ 1 \in DOMAIN written_names /\ written_names[1].at = head
    BY <1>5, <1>6, <1>7, <1>8
  <2>2. \A i \in DOMAIN lowered : lowered[i].at # head
    BY <1>1, <1>6, <1>9 DEF Layout!Declarations
  <2>3. 1 \in free
    BY <2>1, <2>2
  <2>4. free \in SUBSET Nat /\ \A k \in free : k >= 1 /\ k <= Len(written_names)
    BY <1>8
  <2>5. Layout!UnclaimedName = IF free = {} THEN 0 ELSE written_names[Layout!Min(free)].at
    BY DEF Layout!UnclaimedName
  <2> HIDE DEF free
  <2>6. free # {}
    BY <2>3
  <2>7. Layout!Min(free) \in free /\ \A k \in free : Layout!Min(free) <= k
    <3> DEFINE n == Len(written_names)
    <3>1. n \in Nat /\ \A k \in free : k <= n
      BY <1>8, <2>4
    <3> HIDE DEF n
    <3> QED
      BY <2>4, <2>6, <3>1, EndsOfSpan
  <2> DEFINE least == Layout!Min(free)
  <2> HIDE DEF least
  <2>8. least \in free /\ \A k \in free : least <= k
    BY <2>7 DEF least
  <2>9. least \in Nat /\ least >= 1 /\ least <= 1
    BY <2>3, <2>4, <2>8
  <2>10. least = 1
    BY <2>9
  <2> QED
    BY <2>1, <2>5, <2>6, <2>10 DEF least
<1> QED
  BY <1>10, <1>11

\* The lines of the declarations of a kind.
KindLines(kind) ==
    LET chosen == Layout!OfKind(SubSeq(items, 2, Len(items)), {kind})
    IN [i \in DOMAIN chosen |-> Layout!Lines(kind, Layout!NameOf(chosen[i].at))]

\* They are those of the declarations of the file.
LEMMA KindLinesKnown ==
    ASSUME NEW file, Len(file) \in Nat, SlotsKnown(items, file), NEW kind \in Layout!Declarations,
           \A c \in 1 .. Len(file) : file[c] \in Layout!Declarations => Layout!NameOf(c) = c
    PROVE  /\ DeclaredIn(KindLines(kind), kind, file)
           /\ \A other : other # kind => NoneIn(KindLines(kind), other)
<1> DEFINE chosen == Layout!OfKind(SubSeq(items, 2, Len(items)), {kind})
           lines == KindLines(kind)
<1>1. /\ IsList(chosen)
      /\ \A i \in 1 .. Len(chosen) :
            chosen[i].at \in 1 .. Len(file) /\ file[chosen[i].at] = kind
      /\ \A i, j \in 1 .. Len(chosen) : i < j => chosen[i].at < chosen[j].at
      /\ \A c \in 1 .. Len(file) : file[c] = kind =>
            \E i \in 1 .. Len(chosen) : chosen[i].at = c
  BY ChildrenOfKind
<1>2. lines = [i \in DOMAIN chosen |-> Layout!Lines(kind, Layout!NameOf(chosen[i].at))]
  BY DEF KindLines
<1> HIDE DEF chosen, lines
<1>3. Len(chosen) \in Nat /\ DOMAIN chosen = 1 .. Len(chosen)
  BY <1>1, ListLength
<1>4. ASSUME NEW i \in 1 .. Len(chosen)
      PROVE  lines[i].kind = kind /\ lines[i].name = chosen[i].at
  <2>1. lines[i] = Layout!Lines(kind, Layout!NameOf(chosen[i].at))
    BY <1>2, <1>3
  <2>2. Layout!NameOf(chosen[i].at) = chosen[i].at
    BY <1>1
  <2> QED
    BY <2>1, <2>2 DEF Layout!Lines
<1>5. IsList(lines) /\ Len(lines) = Len(chosen)
  <2> DEFINE line(i) == Layout!Lines(kind, Layout!NameOf(chosen[i].at))
             n == Len(chosen)
             all == {line(i) : i \in 1 .. n}
  <2>1. lines = [i \in 1 .. n |-> line(i)] /\ n \in Nat
    BY <1>2, <1>3
  <2>2. \A i \in 1 .. n : line(i) \in all
    OBVIOUS
  <2> HIDE DEF n, line, all
  <2>3. lines \in Seq(all) /\ Len(lines) = n
    BY <2>1, <2>2
  <2> QED
    BY <2>3 DEF IsList, n
<1>6. DeclaredIn(lines, kind, file)
  <2>1. \A i \in 1 .. Len(lines) : lines[i].name \in 1 .. Len(file) /\ file[lines[i].name] = kind
    BY <1>1, <1>4, <1>5
  <2>2. \A i, j \in 1 .. Len(lines) : i < j => lines[i].name < lines[j].name
    BY <1>1, <1>4, <1>5
  <2>3. ASSUME NEW c \in 1 .. Len(file), file[c] = kind
        PROVE  \E i \in 1 .. Len(lines) : lines[i].kind = kind /\ lines[i].name = c
    <3>1. PICK i \in 1 .. Len(chosen) : chosen[i].at = c
      BY <1>1, <2>3
    <3> QED
      BY <1>4, <1>5, <3>1
  <2> QED
    BY <1>5, <2>1, <2>2, <2>3 DEF DeclaredIn
<1>7. \A other : other # kind => NoneIn(lines, other)
  BY <1>4, <1>5 DEF NoneIn
<1> QED
  BY <1>6, <1>7 DEF lines

\* The lines of the module.
LinesOfModule ==
    <<Layout!Lines("module", Layout!UnclaimedName)>> \o KindLines("port") \o KindLines("signal")
       \o <<Layout!Lines("endmodule", 0)>>

\* They declare what the file declares.
LEMMA ModuleAsWritten ==
    ASSUME NEW file, NEW head, OneHead(file, head), SlotsKnown(items, file),
           Layout!UnclaimedName = head,
           \A c \in 1 .. Len(file) : file[c] \in Layout!Declarations => Layout!NameOf(c) = c
    PROVE  /\ IsList(LinesOfModule)
           /\ \A kind \in {"module", "port", "signal"} : DeclaredIn(LinesOfModule, kind, file)
<1> DEFINE first == Layout!Lines("module", Layout!UnclaimedName)
           last == Layout!Lines("endmodule", 0)
           m == <<first>>
           p == KindLines("port")
           s == KindLines("signal")
           e == <<last>>
<1>1. /\ Len(file) \in Nat /\ head \in 1 .. Len(file) /\ file[head] = "module"
      /\ \A i \in 1 .. Len(file) : file[i] = "module" => i = head
  BY DEF OneHead
<1>2. first.kind = "module" /\ first.name = head /\ last.kind = "endmodule"
  BY DEF Layout!Lines
<1> HIDE DEF first, last
<1>3. /\ IsList(m) /\ Len(m) = 1 /\ m[1] = first
      /\ \A kind : kind # "module" => NoneIn(m, kind)
  BY <1>2, OneLine
<1>4. \A kind : kind # "endmodule" => NoneIn(e, kind)
  BY <1>2, OneLine
<1>5. /\ DeclaredIn(p, "port", file)
      /\ \A kind : kind # "port" => NoneIn(p, kind)
  <2>1. "port" \in Layout!Declarations
    BY DEF Layout!Declarations
  <2> QED
    BY <1>1, <2>1, KindLinesKnown
<1>6. /\ DeclaredIn(s, "signal", file)
      /\ \A kind : kind # "signal" => NoneIn(s, kind)
  <2>1. "signal" \in Layout!Declarations
    BY DEF Layout!Declarations
  <2> QED
    BY <1>1, <2>1, KindLinesKnown
<1> HIDE DEF m, p, s, e
<1>7. DeclaredIn(m, "module", file)
  BY <1>1, <1>2, <1>3 DEF DeclaredIn
<1>8. DeclaredIn(m \o p \o s \o e, "module", file)
  <2>1. DeclaredIn(m \o p, "module", file)
    BY <1>5, <1>7, NoneBehind
  <2>2. DeclaredIn(m \o p \o s, "module", file)
    BY <1>6, <2>1, NoneBehind
  <2> QED
    BY <1>4, <2>2, NoneBehind
<1>9. DeclaredIn(m \o p \o s \o e, "port", file)
  <2>1. DeclaredIn(m \o p, "port", file)
    BY <1>3, <1>5, NoneBefore
  <2>2. DeclaredIn(m \o p \o s, "port", file)
    BY <1>6, <2>1, NoneBehind
  <2> QED
    BY <1>4, <2>2, NoneBehind
<1>10. DeclaredIn(m \o p \o s \o e, "signal", file)
  <2>1. NoneIn(m \o p, "signal")
    BY <1>3, <1>5, NoneJoined
  <2>2. DeclaredIn(m \o p \o s, "signal", file)
    BY <1>6, <2>1, NoneBefore
  <2> QED
    BY <1>4, <2>2, NoneBehind
<1>11. LinesOfModule = m \o p \o s \o e
  BY DEF LinesOfModule, m, p, s, e, first, last
<1> DEFINE all == m \o p \o s \o e
<1> HIDE DEF all
<1>12. LinesOfModule = all
  BY <1>11 DEF all
<1>13. DeclaredIn(all, "module", file) /\ DeclaredIn(all, "port", file)
       /\ DeclaredIn(all, "signal", file)
  BY <1>8, <1>9, <1>10 DEF all
<1>14. IsList(all)
  BY <1>13 DEF DeclaredIn
<1> QED
  BY <1>12, <1>13, <1>14

\* They are all that is emitted: the other slots are children of the module.
LEMMA RenderedModule ==
    ASSUME NEW file, SlotsKnown(items, file), IsList(LinesOfModule)
    PROVE  Layout!Rendered = LinesOfModule
<1>1. /\ IsList(items) /\ Len(items) >= 1 /\ items[1].kind = "module"
      /\ items[1].range = Behind(Len(items) - 1)
      /\ \A i \in 2 .. Len(items) : items[i].kind # "module"
  BY DEF SlotsKnown
<1>2. Len(items) \in Nat /\ DOMAIN items = 1 .. Len(items)
  BY <1>1, ListLength
<1>3. /\ items[1].range.first = 2 /\ items[1].range.count = Len(items) - 1
      /\ items[1].range.first + items[1].range.count - 1 = Len(items)
  BY <1>1, <1>2 DEF Behind
<1>4. \A m \in DOMAIN items : items[m].kind = "module" => m = 1
  BY <1>1, <1>2
<1>5. Layout!TopLevel(1)
  <2>1. 1 \notin 2 .. Len(items)
    BY <1>2
  <2> QED
    BY <1>3, <1>4, <2>1 DEF Layout!TopLevel
<1>6. ASSUME NEW i \in 2 .. Len(items)
      PROVE  ~Layout!TopLevel(i)
  BY <1>1, <1>2, <1>3 DEF Layout!TopLevel
<1>7. Layout!Nested(items[1]) = SubSeq(items, 2, Len(items))
  BY <1>3 DEF Layout!Nested
<1>8. Layout!ModuleLines(items[1]) = LinesOfModule
  BY <1>7 DEF Layout!ModuleLines, LinesOfModule, KindLines
<1> DEFINE line(i) == IF ~Layout!TopLevel(i) THEN << >>
                      ELSE IF items[i].kind = "module" THEN Layout!ModuleLines(items[i])
                      ELSE <<[kind |-> "text", name |-> 0, first |-> items[i].first,
                              end |-> items[i].end]>>
           parts == [i \in DOMAIN items |-> line(i)]
<1>9. Layout!Rendered = Layout!FlattenSeq(parts)
  BY DEF Layout!Rendered
<1>10. line(1) = LinesOfModule
  BY <1>1, <1>5, <1>8
<1>11. \A i \in 2 .. Len(items) : line(i) = << >>
  BY <1>6
<1> HIDE DEF line
<1>12. Len(parts) = Len(items) /\ parts[1] = LinesOfModule
  BY <1>1, <1>2, <1>10
<1>13. \A i \in 2 .. Len(parts) : parts[i] = << >>
  <2>1. \A i \in 2 .. Len(items) : parts[i] = line(i)
    BY <1>2
  <2> QED
    BY <1>11, <1>12, <2>1
<1> HIDE DEF parts
<1>14. Len(parts) \in Nat /\ Len(parts) # 0 /\ IsList(parts[1])
  BY <1>1, <1>2, <1>12
<1> QED
  BY <1>9, <1>12, <1>13, <1>14, FlattenFirst

-----------------------------------------------------------------------------
(* The invariant. *)

\* What is true of a file, of the slots of its output model and of the emitted lines.
Written(file, slots, out) ==
    LET spans == Layout!OfKind(slots, {"opaque"})
        of(kinds) == {i \in DOMAIN file : file[i] \in kinds}
    IN  /\ \A kind \in {"module", "port", "signal"} :
              LET declared == Layout!OfKind(out, {kind})
              IN  /\ {line.name : line \in Layout!ToSet(declared)} = of({kind})
                  /\ \A i, j \in DOMAIN declared : i < j => declared[i].name < declared[j].name
        /\ \A i \in DOMAIN file :
              Layout!Cardinality({s \in DOMAIN spans : spans[s].first < i /\ i <= spans[s].end}) =
                  IF i \in of(Layout!Declarations) THEN 0 ELSE 1

\* The lines declare what the file declares, and the spans of the file are what they are to be.
LEMMA WrittenSo ==
    ASSUME NEW file, Len(file) \in Nat, DOMAIN file = 1 .. Len(file),
           NEW tree, Len(tree) \in Nat, NodesOK(tree, Len(file), file), NEW head,
           Full(tree, file, head), Ordered(tree),
           NEW slots, SpansOf(Layout!OfKind(slots, {"opaque"}), tree), NEW out,
           \A kind \in {"module", "port", "signal"} : DeclaredIn(out, kind, file)
    PROVE  Written(file, slots, out)
<1> DEFINE spans == Layout!OfKind(slots, {"opaque"})
           of(kinds) == {i \in DOMAIN file : file[i] \in kinds}
<1>1. ASSUME NEW kind \in {"module", "port", "signal"}
      PROVE  LET declared == Layout!OfKind(out, {kind})
             IN  /\ {line.name : line \in Layout!ToSet(declared)} = of({kind})
                 /\ \A i, j \in DOMAIN declared : i < j => declared[i].name < declared[j].name
  <2> DEFINE declared == Layout!OfKind(out, {kind})
             declares == {line.name : line \in Layout!ToSet(declared)}
             places == {k \in 1 .. Len(out) : out[k].kind = kind}
  <2>1. /\ IsList(out)
        /\ \A i \in 1 .. Len(out) : out[i].kind = kind =>
              out[i].name \in 1 .. Len(file) /\ file[out[i].name] = kind
        /\ \A i, j \in 1 .. Len(out) :
              i < j /\ out[i].kind = kind /\ out[j].kind = kind => out[i].name < out[j].name
        /\ \A c \in 1 .. Len(file) : file[c] = kind =>
              \E i \in 1 .. Len(out) : out[i].kind = kind /\ out[i].name = c
    <3>1. DeclaredIn(out, kind, file)
      OBVIOUS
    <3> QED
      BY <3>1 DEF DeclaredIn
  <2>2. /\ declares = {out[i].name : i \in places}
        /\ \A i, j \in DOMAIN declared : i < j => declared[i].name < declared[j].name
    BY <2>1, NamesInOrder
  <2>3. {out[i].name : i \in places} = of({kind})
    <3>1. \A c \in {out[i].name : i \in places} : c \in of({kind})
      BY <2>1
    <3>2. \A c \in of({kind}) : c \in {out[i].name : i \in places}
      BY <2>1
    <3> QED
      BY <3>1, <3>2
  <2> QED
    BY <2>2, <2>3
<1>2. ASSUME NEW i \in DOMAIN file
      PROVE  Layout!Cardinality({s \in DOMAIN spans : spans[s].first < i /\ i <= spans[s].end}) =
                 IF i \in of(Layout!Declarations) THEN 0 ELSE 1
  <2> DEFINE over == {s \in DOMAIN spans : spans[s].first < i /\ i <= spans[s].end}
             covered == \E k \in 1 .. Len(tree) : /\ tree[k].kind = "opaque"
                                                  /\ tree[k].first < i /\ i <= tree[k].end
  <2>1. i \in 1 .. Len(file) /\ i \in Nat
    OBVIOUS
  <2>2. Cardinality(over) = IF covered THEN 1 ELSE 0
    <3> HIDE DEF spans
    <3>1. SpansOf(spans, tree)
      BY DEF spans
    <3> QED
      BY <2>1, <3>1, OneSpan
  <2>3. covered <=> file[i] \notin Layout!Declarations
    BY <2>1 DEF Full, Covered
  <2>4. Layout!Cardinality(over) = Cardinality(over)
    BY LayoutCardinality
  <2>5. i \in of(Layout!Declarations) <=> file[i] \in Layout!Declarations
    OBVIOUS
  <2> HIDE DEF over, covered, of
  <2>6. Layout!Cardinality(over) = IF i \in of(Layout!Declarations) THEN 0 ELSE 1
    BY <2>2, <2>3, <2>4, <2>5
  <2> QED
    BY <2>6 DEF over
<1> QED
  BY <1>1, <1>2, Zenon DEF Written

\* What the parts of the compiler have left for the next.
LayoutInv ==
    /\ source \in SourceFiles
    /\ layout_phase \in {"parsed", "named", "built"} => syntax = Layout!ParsedNodes(source)
    /\ layout_phase \in {"named", "built"} =>
          /\ Layout!ModulesOf(syntax) # << >>
          /\ lowered = Layout!SignalsOf(syntax)
          /\ written_names = Layout!ModulesOf(syntax) \o Layout!SignalsOf(syntax)
    /\ layout_phase = "built" =>
          ~Failed(Layout!Built(syntax)) /\ items = Layout!Built(syntax).items
    /\ EmittedAsWritten

\* A file with an output has one module.
LEMMA OneHeadOfBuilt ==
    ASSUME NEW file \in SourceFiles, Layout!ModulesOf(Layout!ParsedNodes(file)) # << >>,
           ~Failed(Layout!Built(Layout!ParsedNodes(file)))
    PROVE  \E head : OneHead(file, head)
<1> DEFINE tree == Layout!ParsedNodes(file)
           heads == Layout!ModulesOf(tree)
<1>1. /\ Len(file) \in Nat /\ Len(tree) \in Nat /\ NodesOK(tree, Len(file), file)
      /\ \A head \in 1 .. Len(file) : file[head] = "module" => HasSpan(tree, head)
  BY TreeKnown
<1> HIDE DEF tree
<1>2. ChosenOf(heads, Len(tree), tree, {"module"})
  BY <1>1, KindsChosen DEF Layout!ModulesOf
<1>3. heads # << >>
  BY DEF tree
<1> HIDE DEF heads
<1>4. Len(heads) >= 1
  <2>1. PICK R : heads \in Seq(R)
    BY <1>2 DEF ChosenOf, IsList
  <2> QED
    BY <1>3, <2>1
<1>5. PICK k \in 1 .. Len(tree) : tree[k].kind = "module"
  <2>1. PICK place \in [1 .. Len(heads) -> 1 .. Len(tree)] :
            \A i \in 1 .. Len(heads) : tree[place[i]].kind \in {"module"}
    BY <1>2 DEF ChosenOf
  <2>2. Len(heads) \in Nat
    BY <1>2, ListLength DEF ChosenOf
  <2>3. 1 \in 1 .. Len(heads)
    BY <1>4, <2>2
  <2> QED
    BY <2>1, <2>3
<1>6. tree[k].at \in 1 .. Len(file) /\ file[tree[k].at] = "module"
  BY <1>1, <1>5 DEF NodesOK
<1>7. ASSUME NEW i \in 1 .. Len(file), file[i] = "module"
      PROVE  i = tree[k].at
  <2> SUFFICES ASSUME i # tree[k].at
               PROVE  FALSE
    OBVIOUS
  <2>1. Failed(Layout!Built(tree))
    BY <1>1, <1>6, <1>7, TwoModulesFail
  <2> QED
    BY <2>1 DEF tree
<1> QED
  BY <1>1, <1>6, <1>7 DEF OneHead

\* What passes the test of the emitter is emitted as written.
LEMMA BuiltWritten ==
    ASSUME LayoutInv, layout_phase = "built", Layout!Covers
    PROVE  Written(source, items, Layout!Rendered)
<1> DEFINE tree == Layout!ParsedNodes(source)
           spans == Layout!OfKind(items, {"opaque"})
<1>1. /\ source \in SourceFiles /\ syntax = tree
      /\ Layout!ModulesOf(tree) # << >>
      /\ lowered = Layout!SignalsOf(tree)
      /\ written_names = Layout!ModulesOf(tree) \o Layout!SignalsOf(tree)
      /\ ~Failed(Layout!Built(tree)) /\ items = Layout!Built(tree).items
  BY DEF LayoutInv
<1>2. PICK head : OneHead(source, head)
  BY <1>1, OneHeadOfBuilt
<1>3. /\ Len(source) \in Nat /\ DOMAIN source = 1 .. Len(source) /\ Len(tree) \in Nat
      /\ NodesOK(tree, Len(source), source)
      /\ \A h \in 1 .. Len(source) : source[h] = "module" => HasSpan(tree, h)
      /\ Ordered(tree) => Full(tree, source, head)
  BY <1>1, <1>2, TreeKnown
<1>4. HasSpan(tree, head)
  BY <1>2, <1>3 DEF OneHead
<1> HIDE DEF tree
<1>5. LaidOf(items, Len(tree), tree)
  BY <1>1, <1>3, LaidBuilt DEF LaidSo
<1>6. SpansOf(spans, tree)
  BY <1>3, <1>5, SpansPlaced
<1>7. \A s \in 1 .. Len(spans) - 1 : spans[s].end <= spans[s + 1].first
  <2>1. spans = Layout!Spans
    BY DEF Layout!Spans
  <2> HIDE DEF spans
  <2>2. \E k \in 1 .. Len(tree) : tree[k].kind = "opaque"
    BY <1>4 DEF HasSpan
  <2>3. \E s \in 1 .. Len(spans) : TRUE
    BY <1>6, <2>2 DEF SpansOf
  <2>4. spans # << >>
    BY <2>3
  <2> QED
    BY <2>1, <2>4 DEF Layout!Covers
<1>8. Ordered(tree)
  <2> HIDE DEF spans
  <2> QED
    BY <1>3, <1>6, <1>7, NodesOrdered
<1>9. Full(tree, source, head)
  BY <1>3, <1>8
<1>10. PICK first : Single(tree, head, first)
  BY <1>1, <1>2, <1>3, <1>9, FullSingle
<1>11. SlotsKnown(items, source)
  <2>1. OneModule(Layout!Built(tree), Len(tree), tree, first)
    BY <1>3, <1>10, OneModuleBuilt
  <2> QED
    BY <1>1, <1>3, <1>10, <2>1, ModelKnown
<1>12. /\ Layout!UnclaimedName = head
       /\ \A c \in 1 .. Len(source) : source[c] \in Layout!Declarations => Layout!NameOf(c) = c
  BY <1>1, <1>2, <1>3, NamesFound
<1>13. /\ IsList(LinesOfModule)
       /\ \A kind \in {"module", "port", "signal"} : DeclaredIn(LinesOfModule, kind, source)
  BY <1>2, <1>11, <1>12, ModuleAsWritten
<1>14. Layout!Rendered = LinesOfModule
  BY <1>11, <1>13, RenderedModule
<1> QED
  BY <1>3, <1>6, <1>8, <1>9, <1>13, <1>14, WrittenSo

\* The property says so of what is emitted.
LEMMA WrittenIsEmitted ==
    EmittedAsWritten <=> (layout_phase = "emitted" => Written(source, items, output))
BY DEF EmittedAsWritten, Layout!EmittedAsWritten, Written, Layout!Chunks, Layout!SpannedBy,
       Layout!Spans

\* Initially nothing is known.
LEMMA LayoutInit == Layout!Init => LayoutInv
<1> SUFFICES ASSUME Layout!Init
             PROVE  LayoutInv
  OBVIOUS
<1>1. source \in SourceFiles /\ layout_phase = "read"
  BY DEF Layout!Init
<1>2. EmittedAsWritten
  BY <1>1, WrittenIsEmitted
<1> QED
  BY <1>1, <1>2 DEF LayoutInv

\* Every part keeps it.
LEMMA LayoutNext == LayoutInv /\ [Layout!Next]_Layout!vars => LayoutInv'
<1> SUFFICES ASSUME LayoutInv, [Layout!Next]_Layout!vars
             PROVE  LayoutInv'
  OBVIOUS
<1>0. EmittedAsWritten' <=> (layout_phase' = "emitted" => Written(source', items', output'))
  BY DEF EmittedAsWritten, Layout!EmittedAsWritten, Written, Layout!Chunks, Layout!SpannedBy,
         Layout!Spans
<1>1. CASE Layout!Parse
  <2>1. /\ layout_phase' = "parsed" /\ source' = source
        /\ syntax' = Layout!ParsedNodes(source)
    BY <1>1 DEF Layout!Parse
  <2>2. EmittedAsWritten'
    BY <1>0, <2>1
  <2> QED
    BY <2>1, <2>2 DEF LayoutInv
<1>2. CASE Layout!Lower
  <2>1. /\ layout_phase = "parsed" /\ source' = source /\ syntax' = syntax
        /\ layout_phase' \in {"named", "refused"}
        /\ layout_phase' = "named" => Layout!ModulesOf(syntax) # << >>
        /\ lowered' = Layout!SignalsOf(syntax)
        /\ written_names' = Layout!ModulesOf(syntax) \o Layout!SignalsOf(syntax)
    BY <1>2 DEF Layout!Lower
  <2>2. EmittedAsWritten'
    BY <1>0, <2>1
  <2> QED
    BY <2>1, <2>2 DEF LayoutInv
<1>3. CASE Layout!Build
  <2>1. /\ layout_phase = "named" /\ source' = source /\ syntax' = syntax
        /\ lowered' = lowered /\ written_names' = written_names
        /\ layout_phase' = IF Layout!Built(syntax).failed THEN "refused" ELSE "built"
        /\ items' = Layout!Built(syntax).items
    BY <1>3 DEF Layout!Build
  <2>2. layout_phase' \in {"refused", "built"}
    BY <2>1
  <2>3. layout_phase' = "built" => ~Failed(Layout!Built(syntax))
    BY <2>1, Zenon DEF Failed
  <2>4. EmittedAsWritten'
    BY <1>0, <2>2
  <2> QED
    BY <2>1, <2>2, <2>3, <2>4 DEF LayoutInv
<1>4. CASE Layout!Emit
  <2>1. /\ layout_phase = "built" /\ source' = source /\ items' = items
        /\ layout_phase' = IF Layout!Covers THEN "emitted" ELSE "refused"
        /\ Layout!Covers => output' = Layout!Rendered
    BY <1>4 DEF Layout!Emit
  <2>2. layout_phase' \in {"refused", "emitted"} /\ (layout_phase' = "emitted" => Layout!Covers)
    BY <2>1
  <2>3. EmittedAsWritten'
    <3> SUFFICES ASSUME layout_phase' = "emitted"
                 PROVE  Written(source', items', output')
      BY <1>0
    <3> QED
      BY <2>1, <2>2, BuiltWritten
  <2> QED
    BY <2>1, <2>2, <2>3 DEF LayoutInv
<1>5. CASE UNCHANGED Layout!vars
  <2>1. /\ source' = source /\ syntax' = syntax /\ lowered' = lowered
        /\ written_names' = written_names /\ items' = items /\ output' = output
        /\ layout_phase' = layout_phase
    BY <1>5 DEF Layout!vars
  <2>2. EmittedAsWritten'
    BY <1>0, <2>1, WrittenIsEmitted DEF LayoutInv
  <2> QED
    BY <2>1, <2>2 DEF LayoutInv
<1> QED
  BY <1>1, <1>2, <1>3, <1>4, <1>5 DEF Layout!Next

\* Whatever is emitted declares every module with its ports and then its other signals, each
\* once, in the order and under the names of the source, and its spans divide the file
\* without hole or overlap (compile.c, sv_emit.c): the parser makes the spans with two
\* cursors, the output model loses the children of every module but one, and the emitter
\* trusts the positions of the slots alone.
THEOREM EmittedAlwaysAsWritten == Layout!Spec => []EmittedAsWritten
<1>1. LayoutInv => EmittedAsWritten
  BY DEF LayoutInv
<1> QED
  BY <1>1, LayoutInit, LayoutNext, PTL DEF Layout!Spec
=============================================================================
