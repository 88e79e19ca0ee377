--------------------------- MODULE TextCallsProofs ---------------------------
(***************************************************************************)
(* The calls of TextService that are under way within one another.  A step *)
(* replaces the head of todo; what it may put there depends on the head    *)
(* alone, and that is what keeps the calls nested as CallsAreNested says,  *)
(* whatever the engine answers.                                            *)
(***************************************************************************)
EXTENDS TextServiceProofs, FiniteSetTheorems

-----------------------------------------------------------------------------
(* Kinds of items.                                                         *)

ResetEnd == [op |-> "ended", reset |-> TRUE]

\* Items that neither end a composition nor a flush, and pop only in a session.
Plain == {x \in Items : x.op # "ended" /\ x # Item("flushed") /\ x # Pop(FALSE)}

LEMMA PlainItems ==
    /\ \A op \in Simple \ {"flushed"} : Item(op) \in Plain
    /\ \A op \in Calling, m \in Methods : Call(op, m) \in Plain
    /\ \A s \in BOOLEAN : Flush(s) \in Plain
    /\ Pop(TRUE) \in Plain
    /\ \A op \in Updates, msg \in Replies \cup Async : Update(op, msg) \in Plain
  <1>1. /\ \A op \in Simple : Item(op) \in Items
        /\ \A op \in Calling, m \in Methods : Call(op, m) \in Items
        /\ \A s \in BOOLEAN : Flush(s) \in Items /\ Pop(s) \in Items
        /\ \A op \in Updates, msg \in Replies \cup Async : Update(op, msg) \in Items
    BY ItemTypes
  <1>2. /\ \A op \in Simple : Item(op).op = op
        /\ \A op \in Calling, m \in Methods : Call(op, m).op = op
        /\ \A s \in BOOLEAN : /\ Flush(s).op = "flush"
                              /\ Pop(s).op = "pop" /\ Pop(s).session = s
        /\ \A op \in Updates, msg \in Replies \cup Async : Update(op, msg).op = op
    BY DEF Item, Call, Flush, Pop, Update
  <1>3. /\ "ended" \notin Simple \cup Calling \cup Updates \cup {"flush", "pop"}
        /\ "flushed" \notin Calling \cup Updates \cup {"flush", "pop"}
        /\ "pop" \notin Simple \cup Calling \cup Updates
        /\ "flushed" \in Simple
    BY DEF Simple, Calling, Updates
  <1>4. Item("flushed").op = "flushed" /\ Pop(FALSE).op = "pop" /\ Pop(FALSE).session = FALSE
    BY <1>2, <1>3
  <1>5. \A x \in Items : x.op \notin {"ended", "flushed", "pop"} => x \in Plain
    BY <1>4 DEF Plain
  <1>6. /\ \A op \in Simple \ {"flushed"} : op \notin {"ended", "flushed", "pop"}
        /\ \A op \in Calling \cup Updates : op \notin {"ended", "flushed", "pop"}
    BY <1>3
  <1>7. /\ \A op \in Simple \ {"flushed"} : Item(op) \in Plain
        /\ \A op \in Calling, m \in Methods : Call(op, m) \in Plain
    BY <1>1, <1>2, <1>5, <1>6
  <1>8. \A op \in Updates, msg \in Replies \cup Async : Update(op, msg) \in Plain
    BY <1>1, <1>2, <1>5, <1>6
  <1>9. \A s \in BOOLEAN : Flush(s) \in Plain
    BY <1>1, <1>2, <1>5
  <1>10. Pop(TRUE) \in Items /\ Pop(TRUE).op = "pop" /\ Pop(TRUE).session = TRUE
    BY <1>1, <1>2
  <1>11. Pop(TRUE) \in Plain
    BY <1>4, <1>10 DEF Plain
  <1> QED
    BY <1>7, <1>8, <1>9, <1>11

LEMMA InnerItems ==
    /\ Item("terminate") \in Inner /\ Item("poll") \in Inner /\ Item("keyboard") \in Inner
    /\ Flush(FALSE) \in Inner /\ Pop(FALSE) \in Inner
    /\ \A op \in Calling, m \in Beneath : Call(op, m) \in Inner
    /\ \A msg \in Replies \cup Async : Update("bareList", msg) \in Inner
    /\ Inner \subseteq InFlush
    /\ Flush(TRUE) \in InFlush /\ Pop(TRUE) \in InFlush
    /\ \A op \in Updates, msg \in Replies \cup Async : Update(op, msg) \in InFlush
    /\ \A r \in BOOLEAN : [op |-> "ended", reset |-> r] \in InFlush
  BY DEF Inner, InFlush, Call, Update

\* What an item of these kinds is, by its op.
LEMMA InFlushForms ==
    ASSUME NEW x \in InFlush
    PROVE  /\ x.op \in Calling => x.method \in Beneath
           /\ x.op \in Simple => x.op \in {"terminate", "keyboard", "poll", "flushed"}
           /\ x \in Inner => x.op \notin {"list", "commit", "compose", "ended"}
           /\ x \in Inner /\ x.op = "flush" => x.session = FALSE
  BY DEF InFlush, Inner, Item, Flush, Pop, Calling, Simple, Updates

\* The call of the engine that a change of the keyboard makes, and what is made of it.
LEMMA KeyboardCallForms ==
    /\ \A op \in Calling : Call(op, "onKeyboardStatusChanged") \in KeyboardCalls
    /\ \A x \in KeyboardCalls : /\ x \in Inner /\ x.op \in Calling
                               /\ x = Call(x.op, "onKeyboardStatusChanged")
                               /\ x.method = "onKeyboardStatusChanged"
  <1>1. "onKeyboardStatusChanged" \in Beneath
    BY DEF Beneath
  <1>2. \A x \in KeyboardCalls : /\ x.op \in Calling
                               /\ x = [op |-> x.op, method |-> "onKeyboardStatusChanged"]
    BY DEF KeyboardCalls
  <1>3. \A op \in Calling : Call(op, "onKeyboardStatusChanged") \in Inner
    BY <1>1 DEF Inner, Call
  <1>4. \A op \in Calling : Call(op, "onKeyboardStatusChanged") \in KeyboardCalls
    BY DEF KeyboardCalls, Call
  <1>5. \A x \in KeyboardCalls : x = Call(x.op, "onKeyboardStatusChanged")
    BY <1>2 DEF Call
  <1>6. \A x \in KeyboardCalls : x.method = "onKeyboardStatusChanged"
    BY DEF KeyboardCalls
  <1> QED
    BY <1>2, <1>3, <1>4, <1>5, <1>6

LEMMA HeadForms ==
    ASSUME TypeOK, todo # <<>>
    PROVE  /\ Head(todo) \in Items /\ Head(todo) = todo[1]
           /\ Head(todo).op \in Simple => Head(todo) = Item(Head(todo).op)
           /\ Head(todo).op = "flush" => Head(todo) = Flush(Head(todo).session)
           /\ Head(todo).op = "pop" => Head(todo) = Pop(Head(todo).session)
  <1>0. todo \in Seq(Items)
    BY DEF TypeOK
  <1>1. Head(todo) \in Items /\ Head(todo) = todo[1]
    BY <1>0, HeadTailProperties
  <1> DEFINE x == Head(todo)
  <1> HIDE DEF x
  <1>2. x \in Items => /\ x.op \in Simple => x = Item(x.op)
                       /\ x.op = "flush" => x = Flush(x.session)
                       /\ x.op = "pop" => x = Pop(x.session)
    BY DEF Items, Simple, Calling, Updates, Item, Flush, Pop
  <1> QED
    BY <1>1, <1>2 DEF x

LEMMA MemberOf ==
    ASSUME NEW S, NEW s \in Seq(S)
    PROVE  Len(s) \in Nat /\ \A p \in 1..Len(s) : s[p] \in S
  BY ElementOfSeq, LenProperties

LEMMA SubsetSequence ==
    ASSUME NEW S, NEW T, S \subseteq T, NEW s \in Seq(S)
    PROVE  s \in Seq(T)
  OBVIOUS

-----------------------------------------------------------------------------
(* The parts of CallsAreNested, place against place.                       *)

Apart ==
    \A i, j \in 1..Len(todo) : i < j /\ todo[j].op = "ended" =>
        \/ todo[i] \in Inner
        \/ \E k \in 1..Len(todo) : i < k /\ k < j /\ todo[k] = Item("flushed")

OneFlush ==
    \A i, j \in 1..Len(todo) :
        i < j /\ todo[j] = Item("flushed") => todo[i] \in InFlush \ {Item("flushed")}

Flags ==
    /\ UnderFlush => flushing /\ ~Deferred
    /\ \A i, j \in 1..Len(deferred) :
          deferred[i] = "flush" /\ deferred[j] = "flush" => flushing /\ i = j

TodoInv == Apart /\ OneFlush /\ QuietComesFirst

LEMMA Below ==
    ASSUME NEW n \in Nat
    PROVE  /\ \A j \in 1..n : \A i : i \in 1..(j - 1) <=> i \in 1..n /\ i < j
           /\ \A i, j \in 1..n : \A k : k \in (i + 1)..(j - 1) <=> k \in 1..n /\ i < k /\ k < j
  OBVIOUS

LEMMA ByPlaces ==
    TypeOK => /\ EndsApart <=> Apart
              /\ FlagHeldOnce <=> OneFlush /\ Flags
  <1> SUFFICES ASSUME TypeOK
               PROVE  /\ EndsApart <=> Apart
                      /\ FlagHeldOnce <=> OneFlush /\ Flags
    OBVIOUS
  <1>0. Len(todo) \in Nat
    BY MemberOf DEF TypeOK
  <1>1. EndsApart => Apart
    BY <1>0, Below DEF EndsApart, Apart
  <1>2. Apart => EndsApart
    BY <1>0, Below DEF EndsApart, Apart
  <1>3. OneFlush <=> \A j \in 1..Len(todo) : todo[j] = Item("flushed") =>
                        \A i \in 1..(j - 1) : todo[i] \in InFlush \ {Item("flushed")}
    BY <1>0, Below DEF OneFlush
  <1> QED
    BY <1>1, <1>2, <1>3 DEF FlagHeldOnce, Flags, UnderFlush, Deferred

LEMMA NestedParts ==
    CallsAreNested <=> /\ TypeOK /\ TodoInv /\ Flags
                       /\ undefined = "pop without a session" => opened
  BY ByPlaces DEF CallsAreNested, TodoInv

LEMMA NestedPartsThen ==
    CallsAreNested' <=> /\ TypeOK' /\ TodoInv' /\ Flags'
                        /\ undefined' = "pop without a session" => opened'
  <1>1. (CallsAreNested <=> /\ TypeOK /\ TodoInv /\ Flags
                            /\ undefined = "pop without a session" => opened)'
    BY NestedParts, PTL
  <1> QED
    BY <1>1

-----------------------------------------------------------------------------
(* What a step may put in the place of the head.                           *)

\* A composition that ends is preceded by its terminate ...
EndsFit(items) ==
    /\ \A p \in 1..Len(items) : items[p].op = "ended" => p = 2 /\ items[1] \in Inner
    /\ Head(todo) \in Inner => \A p \in 1..Len(items) :
           \/ items[p] \in Inner
           \/ \E q \in 1..Len(items) : p < q /\ items[q] = Item("flushed")

\* ... a flush takes a flag that nobody holds ...
FlushFits(items) ==
    /\ \A p \in 1..Len(items) : items[p] = Item("flushed") =>
           p = 2 /\ items[1] = Flush(TRUE) /\ ~flushing /\ flushing'
    /\ Head(todo) \in InFlush => \A p \in 1..Len(items) : items[p] \in InFlush \cup {Item("flushed")}

\* What is applied without a session makes no call by itself ...
Bare == {"bareList", "keyboard"}
BareItems == {Item("keyboard")} \cup [op : {"bareList"}, msg : Replies \cup Async]

\* ... or it comes before a call that opening the keyboard has made.
Covered(items) ==
    \A p \in 1..Len(items) :
        items[p].op \in Bare \/ \E q \in p..Len(items) : items[q] \in KeyboardCalls

\* ... and the end of a reset has nothing to wait for, nor has a pop without a
\* session but for the keyboard.
QuietFits(items) ==
    /\ \A p \in 1..Len(items) :
           /\ items[p] = ResetEnd => p = 2 /\ items[1] = Item("terminate") /\ view'.suppress
           /\ items[p] = Pop(FALSE) =>
                  queue' # <<>> /\ \A q \in 1..(p - 1) : items[q].op \in Bare
    /\ At("terminate") /\ view.suppress => items = <<>>
    /\ Head(todo).op \in Bare => opened' \/ (items = <<>> /\ queue' = queue)
    /\ Head(todo).op \in Bare \/ Head(todo) \in KeyboardCalls => Covered(items)

Fits(items) == EndsFit(items) /\ FlushFits(items) /\ QuietFits(items)

LEMMA Positions ==
    ASSUME TypeOK, todo # <<>>, NEW items \in Seq(Items), Do(items)
    PROVE  /\ Len(items) \in Nat /\ Len(todo) \in Nat
           /\ Len(todo') = Len(items) + Len(todo) - 1
           /\ \A p \in 1..Len(items) : todo'[p] = items[p]
           /\ \A p \in Len(items) + 1..Len(todo') :
                  p - Len(items) + 1 \in 2..Len(todo) /\ todo'[p] = todo[p - Len(items) + 1]
           /\ \A k \in 2..Len(todo) :
                  Len(items) + k - 1 \in 1..Len(todo') /\ todo'[Len(items) + k - 1] = todo[k]
  <1>1. todo \in Seq(Items) /\ Tail(todo) \in Seq(Items) /\ todo' = items \o Tail(todo)
    BY ShortSequences DEF TypeOK, Do
  <1>2. /\ Len(items) \in Nat /\ Len(todo) \in Nat /\ Len(Tail(todo)) = Len(todo) - 1
        /\ Len(todo) > 0
        /\ \A k \in 1..Len(todo) - 1 : Tail(todo)[k] = todo[k + 1]
    BY <1>1, HeadTailProperties, LenProperties, EmptySeq
  <1>3. /\ Len(todo') = Len(items) + Len(todo) - 1
        /\ \A p \in 1..Len(todo') :
              todo'[p] = IF p <= Len(items) THEN items[p] ELSE Tail(todo)[p - Len(items)]
    BY <1>1, <1>2, ConcatProperties
  <1>4. \A p \in 1..Len(items) : todo'[p] = items[p]
    BY <1>2, <1>3
  <1>5. ASSUME NEW p \in Len(items) + 1..Len(todo')
        PROVE  p - Len(items) + 1 \in 2..Len(todo) /\ todo'[p] = todo[p - Len(items) + 1]
    BY <1>2, <1>3
  <1>6. ASSUME NEW k \in 2..Len(todo)
        PROVE  Len(items) + k - 1 \in 1..Len(todo') /\ todo'[Len(items) + k - 1] = todo[k]
    <2>1. Len(items) + k - 1 \in Len(items) + 1..Len(todo')
      BY <1>2, <1>3
    <2>2. (Len(items) + k - 1) - Len(items) + 1 = k
      BY <1>2
    <2> QED
      BY <1>2, <1>5, <2>1, <2>2
  <1> QED
    BY <1>2, <1>3, <1>4, <1>5, <1>6

LEMMA EndsStayApart ==
    ASSUME TypeOK, Apart, todo # <<>>, NEW items \in Seq(Items), Do(items), EndsFit(items)
    PROVE  Apart'
  <1> DEFINE L == Len(items)
  <1>1. /\ L \in Nat /\ Len(todo) \in Nat /\ Len(todo') = L + Len(todo) - 1
        /\ \A p \in 1..L : todo'[p] = items[p]
        /\ \A p \in L + 1..Len(todo') : p - L + 1 \in 2..Len(todo) /\ todo'[p] = todo[p - L + 1]
        /\ \A k \in 2..Len(todo) : L + k - 1 \in 1..Len(todo') /\ todo'[L + k - 1] = todo[k]
    BY Positions
  <1>2. Head(todo) = todo[1]
    BY HeadForms
  <1> HIDE DEF L
  <1>3. SUFFICES ASSUME NEW i \in 1..Len(todo'), NEW j \in 1..Len(todo'),
                        i < j, todo'[j].op = "ended"
                 PROVE  \/ todo'[i] \in Inner
                        \/ \E k \in 1..Len(todo') : i < k /\ k < j /\ todo'[k] = Item("flushed")
    BY DEF Apart, Inner
  <1>4. CASE j <= L
    <2>1. items[j].op = "ended" /\ j \in 1..L
      BY <1>1, <1>3, <1>4
    <2>2. j = 2 /\ items[1] \in Inner
      BY <2>1 DEF EndsFit, L
    <2>3. i = 1 /\ 1 \in 1..L
      BY <1>1, <1>3, <2>1, <2>2
    <2> QED
      BY <1>1, <2>2, <2>3
  <1>5. CASE j > L
    <2> DEFINE b == j - L + 1
    <2>1. b \in 2..Len(todo) /\ todo[b].op = "ended"
      BY <1>1, <1>3, <1>5
    <2>2. ASSUME NEW a \in 1..Len(todo), a < b, todo[a] \notin Inner, i < L + a
          PROVE  \E k \in 1..Len(todo') : i < k /\ k < j /\ todo'[k] = Item("flushed")
      <3>1. PICK k \in 1..Len(todo) : a < k /\ k < b /\ todo[k] = Item("flushed")
        BY <2>1, <2>2 DEF Apart
      <3>2. k \in 2..Len(todo)
        BY <1>1, <2>2, <3>1
      <3>3. L + k - 1 \in 1..Len(todo') /\ todo'[L + k - 1] = Item("flushed")
        BY <1>1, <3>1, <3>2
      <3>4. i < L + k - 1 /\ L + k - 1 < j
        BY <1>1, <1>3, <2>2, <3>1
      <3> QED
        BY <3>3, <3>4
    <2>3. CASE i <= L
      <3>1. i \in 1..L /\ 1 \in 1..Len(todo) /\ 1 < b /\ i < L + 1
        BY <1>1, <1>3, <2>1, <2>3
      <3>2. CASE todo[1] \in Inner
        <4>1. \/ items[i] \in Inner
              \/ \E q \in 1..L : i < q /\ items[q] = Item("flushed")
          BY <1>2, <3>1, <3>2 DEF EndsFit, L
        <4>2. ASSUME NEW q \in 1..L, i < q, items[q] = Item("flushed")
              PROVE  q \in 1..Len(todo') /\ q < j /\ todo'[q] = Item("flushed")
          BY <1>1, <1>3, <1>5, <4>2
        <4> QED
          BY <1>1, <3>1, <4>1, <4>2
      <3>3. CASE todo[1] \notin Inner
        BY <2>2, <3>1, <3>3
      <3> QED
        BY <3>2, <3>3
    <2>4. CASE i > L
      <3>1. /\ i - L + 1 \in 2..Len(todo) /\ todo'[i] = todo[i - L + 1]
            /\ i - L + 1 < b /\ i < L + (i - L + 1)
        BY <1>1, <1>3, <2>4
      <3>2. i - L + 1 \in 1..Len(todo)
        BY <3>1, <1>1
      <3> QED
        BY <2>2, <3>1, <3>2
    <2>5. L \in Nat
      BY <1>1
    <2> QED
      BY <2>3, <2>4, <2>5
  <1> QED
    BY <1>1, <1>3, <1>4, <1>5

LEMMA FlushStaysOne ==
    ASSUME TypeOK, OneFlush, Flags, todo # <<>>, NEW items \in Seq(Items), Do(items), FlushFits(items)
    PROVE  OneFlush'
  <1> DEFINE L == Len(items)
  <1>1. /\ L \in Nat /\ Len(todo) \in Nat /\ Len(todo') = L + Len(todo) - 1
        /\ \A p \in 1..L : todo'[p] = items[p]
        /\ \A p \in L + 1..Len(todo') : p - L + 1 \in 2..Len(todo) /\ todo'[p] = todo[p - L + 1]
    BY Positions
  <1>2. Head(todo) = todo[1]
    BY HeadForms
  <1>3. Flush(TRUE) \in InFlush \ {Item("flushed")}
    BY InnerItems DEF Flush, Item
  <1> HIDE DEF L
  <1>4. SUFFICES ASSUME NEW i \in 1..Len(todo'), NEW j \in 1..Len(todo'),
                        i < j, todo'[j] = Item("flushed")
                 PROVE  todo'[i] \in InFlush \ {Item("flushed")}
    BY DEF OneFlush, InFlush, Inner
  <1>5. CASE j <= L
    <2>1. items[j] = Item("flushed") /\ j \in 1..L
      BY <1>1, <1>4, <1>5
    <2>2. j = 2 /\ items[1] = Flush(TRUE)
      BY <2>1 DEF FlushFits, L
    <2>3. i = 1 /\ 1 \in 1..L
      BY <1>1, <1>4, <2>1, <2>2
    <2> QED
      BY <1>1, <1>3, <2>2, <2>3
  <1>6. CASE j > L
    <2> DEFINE b == j - L + 1
    <2>1. b \in 2..Len(todo) /\ todo[b] = Item("flushed")
      BY <1>1, <1>4, <1>6
    <2>2. b \in 1..Len(todo)
      BY <1>1, <2>1
    <2>3. flushing
      BY <2>1, <2>2 DEF Flags, UnderFlush
    <2>4. CASE i <= L
      <3>1. i \in 1..L /\ 1 \in 1..Len(todo) /\ 1 < b
        BY <1>1, <1>4, <2>1, <2>4
      <3>2. todo[1] \in InFlush
        BY <2>1, <2>2, <3>1 DEF OneFlush
      <3>3. items[i] \in InFlush \cup {Item("flushed")} /\ items[i] # Item("flushed")
        BY <1>2, <2>3, <3>1, <3>2 DEF FlushFits, L
      <3> QED
        BY <1>1, <3>1, <3>3
    <2>5. CASE i > L
      <3>1. /\ i - L + 1 \in 2..Len(todo) /\ todo'[i] = todo[i - L + 1]
            /\ i - L + 1 < b
        BY <1>1, <1>4, <2>5
      <3>2. i - L + 1 \in 1..Len(todo)
        BY <3>1, <1>1
      <3> QED
        BY <2>1, <2>2, <3>1, <3>2 DEF OneFlush
    <2> QED
      BY <1>1, <1>4, <2>4, <2>5
  <1> QED
    BY <1>1, <1>4, <1>5, <1>6

LEMMA QuietStaysFirst ==
    ASSUME TypeOK, QuietComesFirst, todo # <<>>, NEW items \in Seq(Items), Do(items),
           QuietFits(items), opened => opened'
    PROVE  QuietComesFirst'
  <1> DEFINE L == Len(items)
  <1>1. /\ L \in Nat /\ Len(todo) \in Nat /\ Len(todo') = L + Len(todo) - 1
        /\ \A p \in 1..L : todo'[p] = items[p]
        /\ \A p \in L + 1..Len(todo') : p - L + 1 \in 2..Len(todo) /\ todo'[p] = todo[p - L + 1]
    BY Positions
  <1>8. \A k \in 2..Len(todo) : L + k - 1 \in 1..Len(todo') /\ todo'[L + k - 1] = todo[k]
    BY Positions
  <1>2. Head(todo) = todo[1] /\ (items = <<>> => L = 0)
    BY HeadForms, EmptySeq
  <1>3. L # 0 => todo' # <<>> /\ Head(todo') = items[1] /\ 1 \in 1..L
    <2>1. todo' \in Seq(Items)
      BY ReplacesType DEF Replaces
    <2> QED
      BY <1>1, <2>1, HeadTailProperties, EmptySeq
  <1> HIDE DEF L
  <1>4. ASSUME NEW j \in 1..Len(todo'), todo'[j] = ResetEnd
        PROVE  j = 1 \/ (j = 2 /\ At("terminate")' /\ view'.suppress)
    <2>1. CASE j <= L
      <3>1. j \in 1..L /\ items[j] = ResetEnd /\ L # 0
        BY <1>1, <1>4, <2>1
      <3>2. j = 2 /\ items[1] = Item("terminate") /\ view'.suppress
        BY <3>1 DEF QuietFits, L
      <3>3. At("terminate")'
        BY <1>3, <3>1, <3>2 DEF At, Item
      <3> QED
        BY <3>2, <3>3
    <2>2. CASE j > L
      <3> DEFINE b == j - L + 1
      <3>1. b \in 2..Len(todo) /\ b \in 1..Len(todo) /\ b # 1 /\ todo[b] = ResetEnd
        BY <1>1, <1>4, <2>2
      <3>2. b = 2 /\ At("terminate") /\ view.suppress
        BY <3>1 DEF QuietComesFirst, ResetEnd
      <3>3. L = 0
        BY <1>2, <3>2 DEF QuietFits
      <3> QED
        BY <1>1, <3>2, <3>3
    <2> QED
      BY <1>1, <2>1, <2>2
  <1>5. ASSUME NEW j \in 1..Len(todo'), j <= L
        PROVE  todo'[j] = Pop(FALSE) =>
               /\ opened' \/ queue' # <<>>
               /\ \A i \in 1..(j - 1) : todo'[i].op \in Bare
    <2>0. HAVE todo'[j] = Pop(FALSE)
    <2>1. j \in 1..L /\ items[j] = Pop(FALSE)
      <3>1. j \in 1..L /\ todo'[j] = items[j]
        BY <1>1, <1>5
      <3> QED
        BY <2>0, <3>1, Zenon
    <2>2. queue' # <<>> /\ \A i \in 1..(j - 1) : items[i].op \in Bare
      BY <2>1 DEF QuietFits, L
    <2>3. \A i \in 1..(j - 1) : i \in 1..L
      BY <1>1, <2>1
    <2> QED
      BY <1>1, <2>2, <2>3
  <1>6. ASSUME NEW j \in 1..Len(todo'), j > L
        PROVE  todo'[j] = Pop(FALSE) =>
               /\ opened' \/ queue' # <<>>
               /\ \A i \in 1..(j - 1) :
                     \/ todo'[i].op \in Bare
                     \/ opened' /\ \E k \in i..(j - 1) : todo'[k] \in KeyboardCalls
    <2>0. HAVE todo'[j] = Pop(FALSE)
    <2> DEFINE b == j - L + 1
    <2>1. b \in 2..Len(todo) /\ b \in 1..Len(todo) /\ todo[b] = Pop(FALSE) /\ j = L + b - 1
      <3>1. /\ b \in 2..Len(todo) /\ b \in 1..Len(todo) /\ j = L + b - 1
            /\ todo'[j] = todo[b]
        BY <1>1, <1>6
      <3> QED
        BY <2>0, <3>1, Zenon
    <2> HIDE DEF b
    <2>2. /\ opened \/ queue # <<>>
          /\ \A a \in 1..(b - 1) :
                \/ todo[a].op \in Bare
                \/ opened /\ \E k \in a..(b - 1) : todo[k] \in KeyboardCalls
      BY <2>1 DEF QuietComesFirst, Bare
    \* A call below the head stays where it covers what is above it.
    <2>3. ASSUME NEW k \in 2..(b - 1), todo[k] \in KeyboardCalls, NEW i \in 1..(L + k - 1)
          PROVE  \E q \in i..(j - 1) : todo'[q] \in KeyboardCalls
      <3>1. k \in 2..Len(todo) /\ L + k - 1 \in i..(j - 1)
        BY <1>1, <2>1, <2>3
      <3> QED
        BY <1>8, <2>3, <3>1
    <2>4. Covered(items) =>
             \A i \in 1..L : \/ todo'[i].op \in Bare
                             \/ \E q \in i..(j - 1) : todo'[q] \in KeyboardCalls
      <3>1. SUFFICES ASSUME Covered(items), NEW i \in 1..L, items[i].op \notin Bare
                     PROVE  \E q \in i..(j - 1) : todo'[q] \in KeyboardCalls
        BY <1>1
      <3>2. PICK q \in i..L : items[q] \in KeyboardCalls
        BY <3>1 DEF Covered, L
      <3>3. q \in 1..L /\ q \in i..(j - 1)
        BY <1>1, <1>6, <3>2
      <3> QED
        BY <1>1, <3>2, <3>3
    <2>5. ASSUME NEW i \in 1..(j - 1), i > L
          PROVE  \/ todo'[i].op \in Bare
                 \/ opened' /\ \E k \in i..(j - 1) : todo'[k] \in KeyboardCalls
      <3> DEFINE a == i - L + 1
      <3>1. /\ a \in 2..(b - 1) /\ a \in 1..(b - 1) /\ i = L + a - 1 /\ i \in L + 1..Len(todo')
            /\ todo'[i] = todo[a]
        BY <1>1, <2>1, <2>5
      <3> HIDE DEF a
      <3>2. ASSUME NEW k \in a..(b - 1), todo[k] \in KeyboardCalls
            PROVE  \E q \in i..(j - 1) : todo'[q] \in KeyboardCalls
        <4>1. k \in 2..(b - 1) /\ i \in 1..(L + k - 1)
          BY <1>1, <2>1, <3>1, <3>2
        <4> QED
          BY <2>3, <3>2, <4>1
      <3> QED
        BY <2>2, <3>1, <3>2
    <2>6. CASE Head(todo).op \in Bare
      <3>1. opened' \/ (L = 0 /\ queue' = queue)
        BY <1>2, <2>6 DEF QuietFits
      <3>2. Covered(items)
        BY <2>6 DEF QuietFits
      <3>3. ASSUME NEW i \in 1..(j - 1)
            PROVE  \/ todo'[i].op \in Bare
                   \/ opened' /\ \E k \in i..(j - 1) : todo'[k] \in KeyboardCalls
        <4>1. i \in 1..L \/ i > L
          BY <1>1
        <4> QED
          BY <1>1, <2>4, <2>5, <3>1, <3>2, <4>1
      <3> QED
        BY <2>2, <3>1, <3>3
    <2>7. CASE Head(todo).op \notin Bare
      <3>1. 1 \in 1..(b - 1)
        BY <2>1
      <3>2. opened /\ \E k \in 1..(b - 1) : todo[k] \in KeyboardCalls
        BY <1>2, <2>2, <2>7, <3>1
      <3>3. PICK k \in 1..(b - 1) : todo[k] \in KeyboardCalls
        BY <3>2
      <3>4. ASSUME NEW i \in 1..L
            PROVE  todo'[i].op \in Bare \/ \E q \in i..(j - 1) : todo'[q] \in KeyboardCalls
        <4>1. CASE k = 1
          BY <1>2, <2>4, <3>3, <4>1 DEF QuietFits
        <4>2. CASE k # 1
          <5>1. k \in 2..(b - 1) /\ i \in 1..(L + k - 1)
            BY <1>1, <2>1, <3>3, <4>2
          <5> QED
            BY <2>3, <3>3, <5>1
        <4> QED
          BY <4>1, <4>2
      <3>5. \A i \in 1..(j - 1) : i \in 1..L \/ i > L
        BY <1>1
      <3> QED
        BY <2>5, <3>2, <3>4, <3>5
    <2> QED
      BY <2>6, <2>7
  <1>7. \A j \in 1..Len(todo') :
           /\ todo'[j] = ResetEnd => j = 1 \/ (j = 2 /\ At("terminate")' /\ view'.suppress)
           /\ todo'[j] = Pop(FALSE) =>
                 /\ opened' \/ queue' # <<>>
                 /\ \A i \in 1..(j - 1) :
                       \/ todo'[i].op \in Bare
                       \/ opened' /\ \E k \in i..(j - 1) : todo'[k] \in KeyboardCalls
    <2> TAKE j \in 1..Len(todo')
    <2>1. j <= L \/ j > L
      BY <1>1
    <2> QED
      BY <1>4, <1>5, <1>6, <2>1, Zenon
  <1> QED
    BY <1>7 DEF QuietComesFirst, ResetEnd, Bare, KeyboardCalls

-----------------------------------------------------------------------------
(* What each step puts there.                                              *)

LEMMA NothingFits ==
    ASSUME Head(todo).op \in Bare => opened' \/ queue' = queue
    PROVE  Fits(<<>>)
  <1>1. Len(<<>>) = 0
    BY EmptySeq
  <1> QED
    BY <1>1 DEF Fits, EndsFit, FlushFits, QuietFits, Covered

\* Neither the end of a composition, nor that of a flush, nor a sessionless pop.
LEMMA PlainFits ==
    ASSUME NEW items \in Seq(Plain), todo # <<>>, Head(todo).op \notin Bare,
           At("terminate") => ~view.suppress, Head(todo) \in KeyboardCalls => Covered(items),
           Head(todo) \in InFlush => items \in Seq(InFlush),
           Head(todo) \in Inner => items \in Seq(Inner)
    PROVE  Fits(items)
  <1>1. \A p \in 1..Len(items) :
           items[p].op # "ended" /\ items[p] # Item("flushed") /\ items[p] # Pop(FALSE)
    <2>1. \A p \in 1..Len(items) : items[p] \in Plain
      BY MemberOf
    <2> QED
      BY <2>1 DEF Plain
  <1>2. Head(todo) \in InFlush => \A p \in 1..Len(items) : items[p] \in InFlush
    BY MemberOf
  <1>3. Head(todo) \in Inner => \A p \in 1..Len(items) : items[p] \in Inner
    BY MemberOf
  <1>4. \A p \in 1..Len(items) : items[p] # ResetEnd
    <2>1. ResetEnd.op = "ended"
      BY DEF ResetEnd
    <2> QED
      BY <1>1, <2>1
  <1> QED
    BY <1>1, <1>2, <1>3, <1>4 DEF Fits, EndsFit, FlushFits, QuietFits

LEMMA PairOf ==
    ASSUME NEW a, NEW b
    PROVE  /\ 1..Len(<<a, b>>) = {1, 2}
           /\ <<a, b>>[1] = a /\ <<a, b>>[2] = b
  OBVIOUS

LEMMA EndFits ==
    ASSUME NEW r \in BOOLEAN, todo # <<>>, Head(todo) \notin Inner,
           ~At("terminate"), Head(todo).op \notin Bare, r => view'.suppress
    PROVE  Fits(EndComposition(r))
  <1> DEFINE t == Item("terminate")
             e == [op |-> "ended", reset |-> r]
  <1>1. /\ t \in Inner /\ t \in InFlush /\ e \in InFlush
        /\ t.op # "ended" /\ t # Item("flushed") /\ t # Pop(FALSE)
        /\ e # Item("flushed") /\ e # Pop(FALSE) /\ (e = ResetEnd => r)
    BY InnerItems DEF Item, Pop, ResetEnd
  <1>2. t # ResetEnd
    BY DEF Item, ResetEnd
  <1>3. EndComposition(r) = <<t, e>>
    BY DEF EndComposition
  <1> HIDE DEF t, e
  <1> DEFINE w == <<t, e>>
  <1>4. 1..Len(w) = {1, 2} /\ w[1] = t /\ w[2] = e
    BY PairOf
  <1> HIDE DEF w
  <1>5. EndsFit(w)
    BY <1>1, <1>4 DEF EndsFit
  <1>6. FlushFits(w)
    BY <1>1, <1>4 DEF FlushFits
  <1>7. QuietFits(w)
    BY <1>1, <1>2, <1>4, KeyboardCallForms DEF QuietFits, t
  <1> QED
    BY <1>3, <1>5, <1>6, <1>7 DEF Fits, w

LEMMA FlushBeginsFits ==
    ASSUME At("poll"), ~flushing, flushing'
    PROVE  Fits(<<Flush(TRUE), Item("flushed")>>)
  <1> DEFINE f == Flush(TRUE)
             g == Item("flushed")
  <1>1. /\ f \in InFlush /\ f.op # "ended" /\ g.op # "ended" /\ f # g
        /\ f # Pop(FALSE) /\ g # Pop(FALSE) /\ f # ResetEnd /\ g # ResetEnd /\ g \in Inner
    BY InnerItems DEF Flush, Item, Pop, ResetEnd, Inner
  <1>2. ~At("terminate") /\ Head(todo).op \notin Bare /\ Head(todo) \notin KeyboardCalls
    BY KeyboardCallForms DEF At, Bare, Calling
  <1> HIDE DEF f, g
  <1> DEFINE w == <<f, g>>
  <1>3. 1..Len(w) = {1, 2} /\ w[1] = f /\ w[2] = g
    BY PairOf
  <1> HIDE DEF w
  <1>4. EndsFit(w)
    <2>1. \A p \in 1..Len(w) : w[p].op # "ended"
      BY <1>1, <1>3
    <2>2. w[2] = Item("flushed") /\ 1 < 2 /\ 2 \in 1..Len(w)
      BY <1>3 DEF g
    <2>3. \A p \in 1..Len(w) :
             \/ w[p] \in Inner
             \/ \E q \in 1..Len(w) : p < q /\ w[q] = Item("flushed")
      BY <1>1, <1>3, <2>2
    <2> QED
      BY <2>1, <2>3 DEF EndsFit
  <1>5. FlushFits(w)
    <2>1. \A p \in 1..Len(w) : w[p] = Item("flushed") => p = 2 /\ w[1] = Flush(TRUE)
      BY <1>1, <1>3 DEF g, f
    <2>2. \A p \in 1..Len(w) : w[p] \in InFlush \cup {Item("flushed")}
      BY <1>1, <1>3 DEF g
    <2> QED
      BY <2>1, <2>2 DEF FlushFits
  <1>6. QuietFits(w)
    BY <1>1, <1>2, <1>3 DEF QuietFits
  <1> QED
    BY <1>4, <1>5, <1>6 DEF Fits, w, f, g

LEMMA BareItemForms ==
    /\ Item("keyboard") \in BareItems
    /\ \A msg \in Replies \cup Async : Update("bareList", msg) \in BareItems
    /\ \A x \in BareItems :
          /\ x \in Items /\ x \in Plain /\ x \in Inner /\ x \in InFlush
          /\ x.op \in Bare /\ x.op # "ended" /\ x # Item("flushed") /\ x # ResetEnd
          /\ x # Pop(FALSE)
  <1>1. /\ Item("keyboard") \in BareItems
        /\ \A msg \in Replies \cup Async : Update("bareList", msg) \in BareItems
    BY DEF BareItems, Update
  <1>2. \A x \in BareItems :
           \/ x = Item("keyboard")
           \/ \E msg \in Replies \cup Async : x = Update("bareList", msg)
    BY DEF BareItems, Update
  <1>3. /\ Item("keyboard") \in Items /\ Item("keyboard") \in Plain
        /\ \A msg \in Replies \cup Async :
              Update("bareList", msg) \in Items /\ Update("bareList", msg) \in Plain
    BY ItemTypes, PlainItems DEF Simple, Updates
  <1>4. \A x \in BareItems : x \in Items /\ x \in Plain /\ x \in Inner /\ x \in InFlush
    BY <1>2, <1>3, InnerItems
  <1>5. \A x \in BareItems : x.op \in Bare
    BY <1>2 DEF Item, Update, Bare
  <1>6. \A x \in BareItems : x.op # "ended" /\ x # Item("flushed") /\ x # Pop(FALSE)
    BY <1>4 DEF Plain
  <1>7. \A x \in BareItems : x # ResetEnd
    <2>1. ResetEnd.op = "ended"
      BY DEF ResetEnd
    <2> QED
      BY <1>6, <2>1
  <1> QED
    BY <1>1, <1>4, <1>5, <1>6, <1>7

\* A flush without an edit session: at most the candidates and the keyboard, then
\* the pop.
LEMMA SessionlessFits ==
    ASSUME NEW bare \in Seq(BareItems), todo # <<>>, Head(todo) = Flush(FALSE),
           queue # <<>>, queue' = queue
    PROVE  /\ bare \o <<Pop(FALSE), Flush(FALSE)>> \in Seq(Items)
           /\ Fits(bare \o <<Pop(FALSE), Flush(FALSE)>>)
  <1> DEFINE o == Pop(FALSE)
             f == Flush(FALSE)
             w == bare \o <<o, f>>
             B == Len(bare)
  <1>1. /\ {o, f} \subseteq Inner /\ {o, f} \subseteq InFlush /\ {o, f} \subseteq Items
    BY InnerItems, ItemTypes
  <1>2. \A x \in {o, f} : x.op # "ended" /\ x # Item("flushed") /\ x # ResetEnd
    BY DEF Pop, Flush, Item, ResetEnd
  <1>3. ~At("terminate") /\ Head(todo).op \notin Bare /\ Head(todo) \notin KeyboardCalls
    BY KeyboardCallForms DEF At, Flush, Bare, Calling
  <1>4. f # o
    BY DEF Pop, Flush
  <1> HIDE DEF o, f
  <1>5. /\ <<o, f>> \in Seq(Items) /\ Len(<<o, f>>) = 2 /\ <<o, f>>[1] = o /\ <<o, f>>[2] = f
    BY <1>1
  <1>6. /\ bare \in Seq(Items) /\ B \in Nat
        /\ \A p \in 1..B : bare[p] \in BareItems
    <2>1. BareItems \subseteq Items
      BY BareItemForms
    <2> QED
      BY <2>1, MemberOf
  <1> DEFINE t == <<o, f>>
  <1> HIDE DEF t
  <1>7. /\ bare \o t \in Seq(Items) /\ Len(bare \o t) = B + 2
        /\ \A p \in 1..(B + 2) : (bare \o t)[p] = IF p <= B THEN bare[p] ELSE t[p - B]
    BY <1>5, <1>6, ConcatProperties DEF t
  <1>8. /\ w \in Seq(Items) /\ Len(w) = B + 2
        /\ \A p \in 1..B : w[p] = bare[p]
        /\ w[B + 1] = o /\ w[B + 2] = f
    BY <1>5, <1>6, <1>7 DEF t
  <1>9. \A p \in 1..Len(w) : p \in 1..B \/ p = B + 1 \/ p = B + 2
    BY <1>6, <1>8
  <1> HIDE DEF w, B
  <1>10. \A p \in 1..Len(w) : /\ w[p] \in Inner /\ w[p] \in InFlush /\ w[p].op # "ended"
                              /\ w[p] # Item("flushed") /\ w[p] # ResetEnd
    BY <1>1, <1>2, <1>6, <1>8, <1>9, BareItemForms
  <1>11. \A p \in 1..Len(w) : w[p] = o => p = B + 1
    BY <1>4, <1>6, <1>8, <1>9, BareItemForms DEF o
  <1>12. \A q \in 1..B : w[q].op \in Bare
    BY <1>6, <1>8, BareItemForms
  <1>13. (B + 1) - 1 = B
    BY <1>6
  <1>14. QuietFits(w)
    BY <1>3, <1>10, <1>11, <1>12, <1>13 DEF QuietFits, o
  <1>15. EndsFit(w) /\ FlushFits(w)
    BY <1>10 DEF EndsFit, FlushFits
  <1> QED
    BY <1>8, <1>14, <1>15 DEF Fits, w, o, f

-----------------------------------------------------------------------------
(* Every step replaces the head by something that fits.                    *)

\* The head gives way to what fits.
FitsIn == todo # <<>> /\ \E items \in Seq(Items) : Do(items) /\ Fits(items)

LEMMA PlainFitsIn ==
    ASSUME TypeOK, todo # <<>>, NEW items \in Seq(Plain), Do(items),
           Head(todo).op \notin Bare, At("terminate") => ~view.suppress,
           Head(todo) \in KeyboardCalls => Covered(items),
           Head(todo) \in InFlush => items \in Seq(InFlush),
           Head(todo) \in Inner => items \in Seq(Inner)
    PROVE  FitsIn
  <1>1. items \in Seq(Items)
    <2>1. Plain \subseteq Items
      BY DEF Plain
    <2> QED
      BY <2>1
  <1> QED
    BY <1>1, PlainFits DEF FitsIn

LEMMA NothingFitsIn ==
    ASSUME todo # <<>>, Do(<<>>), Head(todo).op \in Bare => opened' \/ queue' = queue
    PROVE  FitsIn
  BY NothingFits, ShortSequences DEF FitsIn

LEMMA EndFitsIn ==
    ASSUME NEW r \in BOOLEAN, todo # <<>>, Do(EndComposition(r)), Head(todo) \notin Inner,
           ~At("terminate"), Head(todo).op \notin Bare, r => view'.suppress
    PROVE  FitsIn
  BY EndFits, EndCompositionType DEF FitsIn

\* A call in progress: what may be made of it depends on its method.
LEMMA CallFitsIn ==
    ASSUME TypeOK, todo # <<>>, Head(todo).op \in Calling, NEW items \in Seq(Plain), Do(items),
           Method \in Beneath => items \in Seq(Inner),
           Method = "onKeyboardStatusChanged" => Covered(items)
    PROVE  FitsIn
  <1>1. Head(todo) \in InFlush => Method \in Beneath
    BY InFlushForms DEF Method
  <1>2. items \in Seq(Inner) => items \in Seq(InFlush)
    BY InnerItems
  <1>3. Head(todo).op \notin Bare /\ ~At("terminate")
    BY DEF At, Calling, Bare
  <1>4. Head(todo) \in Inner => Head(todo) \in InFlush
    BY InnerItems
  <1>5. Head(todo) \in KeyboardCalls => Method = "onKeyboardStatusChanged"
    BY KeyboardCallForms DEF Method
  <1> QED
    BY <1>1, <1>2, <1>3, <1>4, <1>5, PlainFitsIn

\* What a call of the keyboard gives way to: nothing, what is bare, or a call of it.
LEMMA CoveredItems ==
    /\ \A items \in Seq(BareItems) : Covered(items)
    /\ \A op \in Calling : Covered(<<Call(op, "onKeyboardStatusChanged")>>)
    /\ \A x \in Items, op \in Calling : Covered(<<x, Call(op, "onKeyboardStatusChanged")>>)
  <1>1. ASSUME NEW items \in Seq(BareItems) PROVE Covered(items)
    <2>1. \A p \in 1..Len(items) : items[p] \in BareItems
      BY MemberOf
    <2> QED
      BY <2>1, BareItemForms DEF Covered
  <1>2. ASSUME NEW c, c \in KeyboardCalls PROVE Covered(<<c>>)
    <2> DEFINE w == <<c>>
    <2>1. 1..Len(w) = {1} /\ w[1] = c /\ 1 \in 1..1
      OBVIOUS
    <2> HIDE DEF w
    <2>2. Len(w) = 1 \/ 1 \in 1..Len(w)
      BY <2>1
    <2> QED
      BY <1>2, <2>1, <2>2 DEF Covered, w
  <1>3. ASSUME NEW x, NEW c, c \in KeyboardCalls PROVE Covered(<<x, c>>)
    <2> DEFINE w == <<x, c>>
    <2>1. Len(w) = 2 /\ w[2] = c /\ \A p \in 1..2 : 2 \in p..2
      OBVIOUS
    <2> HIDE DEF w
    <2>2. Covered(w)
      BY <1>3, <2>1 DEF Covered
    <2> QED
      BY <2>2 DEF w
  <1> QED
    BY <1>1, <1>2, <1>3, KeyboardCallForms

LEMMA UpdateStatusKinds ==
    ASSUME NEW msg \in Replies \cup Async
    PROVE  /\ UpdateStatus(msg, TRUE) \in Seq(Plain) /\ UpdateStatus(msg, TRUE) \in Seq(InFlush)
           /\ UpdateStatus(msg, FALSE) \in Seq(BareItems)
  <1> DEFINE commit == IF msg.commit THEN <<Update("commit", msg)>> ELSE <<>>
             list == <<Update("list", msg)>>
             compose == <<Update("compose", msg)>>
             bare == IF msg.cands # Empty THEN <<Update("bareList", msg)>> ELSE <<>>
             keyboard == IF msg.open THEN <<Item("keyboard")>> ELSE <<>>
  <1>1. /\ \A part \in Updates : Update(part, msg) \in Plain /\ Update(part, msg) \in InFlush
        /\ Item("keyboard") \in Plain /\ Item("keyboard") \in InFlush
        /\ Item("keyboard") \in BareItems /\ Update("bareList", msg) \in BareItems
    BY PlainItems, InnerItems, BareItemForms DEF Simple
  <1>2. /\ commit \in Seq(Plain) /\ list \in Seq(Plain) /\ compose \in Seq(Plain)
        /\ commit \in Seq(InFlush) /\ list \in Seq(InFlush) /\ compose \in Seq(InFlush)
        /\ keyboard \in Seq(Plain) /\ keyboard \in Seq(InFlush)
        /\ bare \in Seq(BareItems) /\ keyboard \in Seq(BareItems)
    BY <1>1 DEF Updates
  <1>3. /\ UpdateStatus(msg, TRUE)
              = (IF msg.commit /\ msg.comp THEN commit \o compose \o list
                 ELSE list \o commit \o compose) \o keyboard
        /\ UpdateStatus(msg, FALSE) = bare \o keyboard
    BY DEF UpdateStatus
  <1> HIDE DEF commit, list, compose, bare, keyboard
  <1>4. /\ commit \o compose \o list \in Seq(Plain) /\ list \o commit \o compose \in Seq(Plain)
        /\ commit \o compose \o list \in Seq(InFlush) /\ list \o commit \o compose \in Seq(InFlush)
    BY <1>2
  <1>5. /\ (commit \o compose \o list) \o keyboard \in Seq(Plain)
        /\ (list \o commit \o compose) \o keyboard \in Seq(Plain)
        /\ (commit \o compose \o list) \o keyboard \in Seq(InFlush)
        /\ (list \o commit \o compose) \o keyboard \in Seq(InFlush)
    BY <1>2, <1>4, ShortSequences
  <1>6. bare \o keyboard \in Seq(BareItems)
    BY <1>2, ShortSequences
  <1> QED
    BY <1>3, <1>5, <1>6

LEMMA NothingBefore ==
    ASSUME NEW S, NEW items \in Seq(S)
    PROVE  <<>> \o items = items /\ items \o <<>> = items
  BY ConcatEmptySeq

LEMMA JoinTwo ==
    ASSUME NEW S, NEW a \in S, NEW b \in S
    PROVE  <<a>> \o <<b>> = <<a, b>>
  <1>1. /\ <<a>> \o <<b>> \in Seq(S) /\ Len(<<a>> \o <<b>>) = 2
        /\ \A i \in 1..2 : (<<a>> \o <<b>>)[i] = IF i = 1 THEN a ELSE b
    BY ConcatProperties
  <1>2. <<a, b>> \in Seq(S) /\ Len(<<a, b>>) = 2 /\ <<a, b>>[1] = a /\ <<a, b>>[2] = b
    OBVIOUS
  <1> DEFINE v == <<a>> \o <<b>>
             w == <<a, b>>
  <1> HIDE DEF v, w
  <1>3. \A i \in 1..Len(v) : v[i] = w[i]
    BY <1>1, <1>2 DEF v, w
  <1>4. v = w
    BY <1>1, <1>2, <1>3, SeqEqual DEF v, w
  <1> QED
    BY <1>4 DEF v, w

\* A failure in an edit session ends the composition first, silently.
LEMMA FailEnds ==
    ASSUME ViewInv, todo # <<>>, view.composing, Fail(TRUE, <<>>)
    PROVE  view'.suppress /\ Do(EndComposition(TRUE))
  <1> DEFINE w == ResetDegraded(view)
  <1>1. w \in View
    BY ResetDegradedKeeps DEF ViewInv, TypeOK, Hosted, Good, Sound, Housed
  <1>2. view' = [w EXCEPT !.suppress = w.suppress \/ TRUE]
    BY DEF Fail
  <1>3. Do(EndComposition(TRUE) \o <<>>)
    BY DEF Fail
  <1> HIDE DEF w
  <1>4. view'.suppress = (w.suppress \/ TRUE)
    BY <1>1, <1>2 DEF View
  <1> QED
    BY <1>3, <1>4, EndCompositionType, NothingBefore

LEMMA FailGoesOn ==
    ASSUME NEW s, NEW next \in Seq(Items), ~(s /\ view.composing), Fail(s, next)
    PROVE  Do(next)
  BY NothingBefore DEF Fail

LEMMA AfterKinds ==
    ASSUME NEW m \in Methods
    PROVE  /\ AfterSuccess(m) \subseteq Seq(Plain) /\ AfterFailure(m) \subseteq Seq(Plain)
           /\ m \in Beneath => AfterSuccess(m) \subseteq Seq(Inner) /\ AfterFailure(m) = {<<>>}
           /\ m \in InSession => AfterFailure(m) = {<<>>}
  <1>1. /\ Item("refresh") \in Plain /\ Flush(TRUE) \in Plain
        /\ Call("rpc", "onKeyDown") \in Plain /\ Call("rpc", "onActivate") \in Plain
        /\ Call("rpc", "onActivate") \in Inner
    BY PlainItems, InnerItems DEF Simple, Calling, Methods, InSession, Beneath
  <1>2. /\ <<Item("refresh"), Flush(TRUE)>> \in Seq(Plain) /\ <<>> \in Seq(Plain)
        /\ <<Call("rpc", "onKeyDown")>> \in Seq(Plain) /\ <<Call("rpc", "onActivate")>> \in Seq(Plain)
        /\ <<Call("rpc", "onActivate")>> \in Seq(Inner) /\ <<>> \in Seq(Inner)
    BY <1>1, ShortSequences
  <1>3. m \in Beneath => m \notin Refreshing \cup Filters
    BY DEF Beneath, Refreshing, Filters
  <1>4. m \in Beneath \cup InSession => m # "filterKeyDown"
    BY DEF Beneath, InSession
  <1> QED
    BY <1>2, <1>3, <1>4 DEF AfterSuccess, AfterFailure

LEMMA MethodsApart == Beneath \cap InSession = {} /\ Beneath \subseteq Methods
  BY DEF Beneath, InSession, Methods, Checked

LEMMA InSessionFailFits ==
    ASSUME ViewInv, todo # <<>>, Head(todo).op \in Calling, Method \in Methods,
           NEW next \in AfterFailure(Method) \cup {<<>>}, Fail(Method \in InSession, next)
    PROVE  FitsIn
  <1>1. TypeOK
    BY DEF ViewInv
  <1>2. next \in Seq(Plain) /\ next \in Seq(Items) /\ (Method \in Beneath => next \in Seq(Inner))
    BY AfterKinds, AfterTypes, ShortSequences
  <1>3. CASE Method \in InSession /\ view.composing
    <2>1. next = <<>> /\ Fail(TRUE, <<>>)
      <3>1. next = <<>>
        BY <1>3, AfterKinds
      <3>2. (Method \in InSession) = TRUE
        BY <1>3
      <3> QED
        BY <3>1, <3>2
    <2>2. view'.suppress /\ Do(EndComposition(TRUE))
      BY <1>3, <2>1, FailEnds
    <2>3. Head(todo) \notin Inner
      BY <1>3, InFlushForms, InnerItems, MethodsApart DEF Method
    <2>4. ~At("terminate") /\ Head(todo).op \notin Bare
      BY DEF At, Calling, Bare
    <2> QED
      BY <2>2, <2>3, <2>4, EndFitsIn
  <1>4. CASE ~(Method \in InSession /\ view.composing)
    <2>1. Do(next)
      BY <1>2, <1>4, FailGoesOn
    <2>2. Method = "onKeyboardStatusChanged" => Covered(next)
      <3>1. Method = "onKeyboardStatusChanged" => next = <<>>
        BY AfterKinds DEF Beneath
      <3> QED
        BY <3>1, CoveredItems, ShortSequences
    <2> QED
      BY <1>1, <1>2, <2>1, <2>2, CallFitsIn
  <1> QED
    BY <1>3, <1>4

LEMMA FailingFits ==
    ASSUME ViewInv, Failing
    PROVE  FitsIn
  <1>0. TypeOK /\ <<>> \in Seq(Items)
    BY ShortSequences DEF ViewInv
  <1>1. CASE PollMalformed
    <2>1. todo # <<>> /\ Head(todo).op \notin Bare /\ Fail(FALSE, <<>>)
      BY <1>1 DEF PollMalformed, At, Bare
    <2>2. Do(<<>>)
      BY <1>0, <2>1, FailGoesOn
    <2> QED
      BY <2>1, <2>2, NothingFitsIn
  <1>2. CASE Broken
    <2>1. todo # <<>> /\ Head(todo).op \in Calling /\ Method \in Methods
          /\ Fail(FALSE, <<Call("noAnswer", Method)>>)
      BY <1>0, <1>2, HeadTypes DEF Broken, At, Calling
    <2>2. /\ <<Call("noAnswer", Method)>> \in Seq(Plain)
          /\ <<Call("noAnswer", Method)>> \in Seq(Items)
          /\ Method \in Beneath => <<Call("noAnswer", Method)>> \in Seq(Inner)
      BY <2>1, ItemTypes, PlainItems, InnerItems, ShortSequences DEF Calling
    <2>3. Do(<<Call("noAnswer", Method)>>)
      BY <2>1, <2>2, FailGoesOn
    <2>4. Method = "onKeyboardStatusChanged" => Covered(<<Call("noAnswer", Method)>>)
      BY CoveredItems DEF Calling
    <2> QED
      BY <1>0, <2>1, <2>2, <2>3, <2>4, CallFitsIn
  <1>3. CASE AnswerFails
    <2>1. /\ todo # <<>> /\ Head(todo).op \in Calling /\ Method \in Methods
          /\ \E next \in AfterFailure(Method) : Fail(Method \in InSession, next)
      BY <1>0, <1>3, HeadTypes DEF AnswerFails, At, Calling
    <2> QED
      BY <2>1, InSessionFailFits
  <1>4. CASE NoAnswerUnchecked
    <2>1. /\ todo # <<>> /\ Head(todo).op \in Calling /\ Method \in Methods
          /\ Fail(Method \in InSession, <<>>)
      BY <1>0, <1>4, HeadTypes DEF NoAnswerUnchecked, At, Calling
    <2> QED
      BY <2>1, InSessionFailFits
  <1>5. CASE FlushFails
    <2>1. /\ todo # <<>> /\ At("flush") /\ Head(todo).session \in BOOLEAN
          /\ Fail(Head(todo).session, <<>>)
      BY <1>0, <1>5, HeadTypes DEF FlushFails, At
    <2>2. ~At("terminate") /\ Head(todo).op \notin Bare
      BY <2>1 DEF At, Bare
    <2>3. CASE Head(todo).session = TRUE /\ view.composing
      <3>1. view'.suppress /\ Do(EndComposition(TRUE))
        BY <2>1, <2>3, FailEnds
      <3>2. Head(todo) \notin Inner
        BY <2>1, <2>3, InFlushForms, InnerItems DEF At
      <3> QED
        BY <2>1, <2>2, <3>1, <3>2, EndFitsIn
    <2>4. CASE ~(Head(todo).session /\ view.composing)
      <3>1. Do(<<>>)
        BY <1>0, <2>1, <2>4, FailGoesOn
      <3> QED
        BY <2>1, <2>2, <3>1, NothingFitsIn
    <2> QED
      BY <2>1, <2>3, <2>4
  <1> QED
    BY <1>1, <1>2, <1>3, <1>4, <1>5 DEF Failing

LEMMA TravellingFits ==
    ASSUME TypeOK, Travelling
    PROVE  FitsIn
  <1>1. todo # <<>> /\ Head(todo).op \in Calling /\ Method \in Methods
    BY HeadTypes
       DEF Travelling, CallOpen, ConnectFails, Connect, Connected, SendClosed, SendAnswered,
           SendFails, AnswerSucceeds, NoAnswerChecked, At, Calling
  <1>2. /\ \A op \in Calling : Call(op, Method) \in Plain
        /\ Call("rpc", "init") \in Plain /\ Item("poll") \in Plain /\ Flush(FALSE) \in Plain
    BY <1>1, PlainItems DEF Calling, Methods, Checked, Simple
  <1>3. /\ Method \in Beneath => \A op \in Calling : Call(op, Method) \in Inner
        /\ Call("rpc", "init") \in Inner /\ Item("poll") \in Inner /\ Flush(FALSE) \in Inner
    BY InnerItems DEF Calling, Beneath
  <1>4. /\ <<Item("poll"), Call("send", Method)>> \in Seq(Plain)
        /\ <<Call("noAnswer", Method)>> \in Seq(Plain)
        /\ <<Call("rpc", "init"), Call("connected", Method)>> \in Seq(Plain)
        /\ <<Flush(FALSE), Call("answer", Method)>> \in Seq(Plain)
        /\ <<Flush(FALSE), Call("broken", Method)>> \in Seq(Plain)
    BY <1>2, ShortSequences DEF Calling
  <1>5. Method \in Beneath =>
           /\ <<Item("poll"), Call("send", Method)>> \in Seq(Inner)
           /\ <<Call("noAnswer", Method)>> \in Seq(Inner)
           /\ <<Call("rpc", "init"), Call("connected", Method)>> \in Seq(Inner)
           /\ <<Flush(FALSE), Call("answer", Method)>> \in Seq(Inner)
           /\ <<Flush(FALSE), Call("broken", Method)>> \in Seq(Inner)
    BY <1>3, ShortSequences DEF Calling
  <1>9. Method = "onKeyboardStatusChanged" =>
           /\ Covered(<<Item("poll"), Call("send", Method)>>)
           /\ Covered(<<Call("noAnswer", Method)>>)
           /\ Covered(<<Call("rpc", "init"), Call("connected", Method)>>)
           /\ Covered(<<Flush(FALSE), Call("answer", Method)>>)
           /\ Covered(<<Flush(FALSE), Call("broken", Method)>>)
    <2>1. Item("poll") \in Items /\ Call("rpc", "init") \in Items /\ Flush(FALSE) \in Items
      BY ItemTypes DEF Simple, Calling, Methods, Checked
    <2> QED
      BY <2>1, CoveredItems DEF Calling
  <1>6. CASE CallOpen \/ ConnectFails \/ Connect \/ Connected \/ SendClosed \/ SendAnswered
             \/ SendFails
    <2>1. PICK items \in Seq(Plain) :
             /\ Do(items) /\ (Method \in Beneath => items \in Seq(Inner))
             /\ Method = "onKeyboardStatusChanged" => Covered(items)
      BY <1>4, <1>5, <1>6, <1>9
         DEF CallOpen, ConnectFails, Connect, Connected, SendClosed, SendAnswered, SendFails
    <2> QED
      BY <1>1, <2>1, CallFitsIn
  <1>7. CASE AnswerSucceeds
    <2>1. PICK r \in Replies, next \in AfterSuccess(Method) :
             Do(UpdateStatus(r, Method \in InSession) \o next)
      BY <1>7 DEF AnswerSucceeds
    <2>2. next \in Seq(Plain) /\ (Method \in Beneath => next \in Seq(Inner))
      BY <1>1, <2>1, AfterKinds
    <2>3. CASE Method \in InSession
      <3>1. (Method \in InSession) = TRUE
        BY <2>3
      <3>2. Do(UpdateStatus(r, TRUE) \o next)
        BY <2>1, <3>1
      <3>3. UpdateStatus(r, TRUE) \o next \in Seq(Plain)
        BY <2>2, UpdateStatusKinds, ShortSequences
      <3>4. Method \notin Beneath /\ Method # "onKeyboardStatusChanged"
        BY <2>3, MethodsApart DEF Beneath
      <3> QED
        BY <1>1, <3>2, <3>3, <3>4, CallFitsIn
    <2>4. CASE Method \notin InSession
      <3>1. (Method \in InSession) = FALSE
        BY <2>4
      <3>2. Do(UpdateStatus(r, FALSE) \o next)
        BY <2>1, <3>1
      <3>3. UpdateStatus(r, FALSE) \in Seq(BareItems)
        BY UpdateStatusKinds
      <3>4. BareItems \subseteq Plain /\ BareItems \subseteq Inner
        BY BareItemForms
      <3>5. UpdateStatus(r, FALSE) \in Seq(Plain) /\ UpdateStatus(r, FALSE) \in Seq(Inner)
        BY <3>3, <3>4, SubsetSequence
      <3>6. /\ UpdateStatus(r, FALSE) \o next \in Seq(Plain)
            /\ Method \in Beneath => UpdateStatus(r, FALSE) \o next \in Seq(Inner)
        BY <2>2, <3>5, ShortSequences
      <3>7. Method = "onKeyboardStatusChanged" => Covered(UpdateStatus(r, FALSE) \o next)
        <4>1. Method = "onKeyboardStatusChanged" => next = <<>>
          BY <2>1 DEF AfterSuccess, Refreshing, Filters
        <4>2. UpdateStatus(r, FALSE) \o <<>> = UpdateStatus(r, FALSE)
          BY <3>3, NothingBefore
        <4> QED
          BY <3>3, <4>1, <4>2, CoveredItems
      <3> QED
        BY <1>1, <3>2, <3>6, <3>7, CallFitsIn
    <2> QED
      BY <2>3, <2>4
  <1>8. CASE NoAnswerChecked
    <2>1. PICK next \in AfterFailure(Method) : Do(next)
      BY <1>8 DEF NoAnswerChecked
    <2>2. next \in Seq(Plain) /\ (Method \in Beneath => next \in Seq(Inner))
      BY <1>1, <2>1, AfterKinds, ShortSequences
    <2>3. Method = "onKeyboardStatusChanged" => Covered(next)
      <3>1. Method = "onKeyboardStatusChanged" => next = <<>>
        BY <2>1 DEF AfterFailure
      <3> QED
        BY <3>1, CoveredItems, ShortSequences
    <2> QED
      BY <1>1, <2>1, <2>2, <2>3, CallFitsIn
  <1> QED
    BY <1>6, <1>7, <1>8 DEF Travelling

LEMMA FlushAppliesFits ==
    ASSUME TypeOK, FlushApplies
    PROVE  FitsIn
  <1> DEFINE msg == Head(queue)
  <1>1. /\ todo # <<>> /\ Head(todo).op = "flush" /\ queue # <<>> /\ queue' = queue
        /\ Head(todo).session \in BOOLEAN /\ Head(todo) = Flush(Head(todo).session)
    BY HeadTypes, HeadForms DEF FlushApplies, At, messages
  <1>2. msg \in Replies \cup Async
    BY <1>1, ShortSequences DEF TypeOK
  <1>3. ~At("terminate") /\ Head(todo).op \notin Bare /\ Head(todo) \notin KeyboardCalls
    BY <1>1, KeyboardCallForms DEF At, Bare, Calling
  <1>4. ASSUME NEW s \in BOOLEAN, Head(todo).session = s
        PROVE  Do(UpdateStatus(msg, s) \o <<Pop(s), Flush(s)>>)
    BY <1>4 DEF FlushApplies
  <1> HIDE DEF msg
  <1>5. CASE Head(todo).session = TRUE
    <2>1. Do(UpdateStatus(msg, TRUE) \o <<Pop(TRUE), Flush(TRUE)>>)
      BY <1>4, <1>5
    <2>2. <<Pop(TRUE), Flush(TRUE)>> \in Seq(Plain) /\ <<Pop(TRUE), Flush(TRUE)>> \in Seq(InFlush)
      BY PlainItems, InnerItems, ShortSequences
    <2>3. /\ UpdateStatus(msg, TRUE) \o <<Pop(TRUE), Flush(TRUE)>> \in Seq(Plain)
          /\ UpdateStatus(msg, TRUE) \o <<Pop(TRUE), Flush(TRUE)>> \in Seq(InFlush)
      BY <1>2, <2>2, UpdateStatusKinds, ShortSequences
    <2>4. Head(todo) \notin Inner
      BY <1>1, <1>5, InFlushForms, InnerItems
    <2> QED
      BY <1>1, <1>3, <2>1, <2>3, <2>4, PlainFitsIn
  <1>6. CASE Head(todo).session = FALSE
    <2>1. Do(UpdateStatus(msg, FALSE) \o <<Pop(FALSE), Flush(FALSE)>>)
      BY <1>4, <1>6
    <2>2. Head(todo) = Flush(FALSE)
      BY <1>1, <1>6
    <2>3. UpdateStatus(msg, FALSE) \in Seq(BareItems)
      BY <1>2, UpdateStatusKinds
    <2> QED
      BY <1>1, <2>1, <2>2, <2>3, SessionlessFits DEF FitsIn
  <1> QED
    BY <1>1, <1>5, <1>6

\* Opening the keyboard calls the engine twice, and the calls cover what comes after.
LEMMA KeyboardChangedFits ==
    ASSUME Head(todo).op = "keyboard", opened'
    PROVE  KeyboardChanged \in Seq(Items) /\ Fits(KeyboardChanged)
  <1> DEFINE c == Call("rpc", "onKeyboardStatusChanged")
             w == <<c, c>>
  <1>1. c \in KeyboardCalls /\ c \in Inner /\ c \in InFlush /\ c \in Items /\ c \in Plain
    BY KeyboardCallForms, InnerItems, ItemTypes, PlainItems
       DEF Calling, Methods, Beneath
  <1>2. c.op # "ended" /\ c # Item("flushed") /\ c # Pop(FALSE)
    BY <1>1 DEF Plain
  <1>3. c # ResetEnd
    <2>1. ResetEnd.op = "ended"
      BY DEF ResetEnd
    <2> QED
      BY <1>2, <2>1
  <1>4. ~At("terminate")
    BY DEF At
  <1> HIDE DEF c
  <1>5. w \in Seq(Items) /\ Len(w) = 2 /\ \A p \in 1..2 : w[p] = c /\ 2 \in p..2
    BY <1>1
  <1>6. KeyboardChanged = w
    BY DEF KeyboardChanged, c
  <1> HIDE DEF w
  <1>7. EndsFit(w) /\ FlushFits(w)
    BY <1>1, <1>2, <1>5 DEF EndsFit, FlushFits
  <1>8. Covered(w)
    BY <1>1, <1>5 DEF Covered
  <1>9. QuietFits(w)
    BY <1>2, <1>3, <1>4, <1>5, <1>8 DEF QuietFits
  <1> QED
    BY <1>5, <1>6, <1>7, <1>9 DEF Fits

LEMMA HandlingFits ==
    ASSUME TypeOK, Handling, ~PopEmpty
    PROVE  FitsIn
  <1>1. CASE PollQuietly \/ PollAndDefer \/ Flushed \/ FlushDone \/ PopFront \/ Ended \/ Refresh
             \/ Guarded \/ Activated \/ Release \/ Hide
    <2>1. todo # <<>> /\ Do(<<>>) /\ Head(todo).op \notin Bare
      BY <1>1 DEF PollQuietly, PollAndDefer, Flushed, FlushDone, PopFront, Ended, Refresh,
                  Guarded, Activated, Release, Hide, At, Bare
    <2> QED
      BY <2>1, NothingFitsIn
  <1>2. CASE PollAndFlush
    <2>1. /\ At("poll") /\ todo # <<>> /\ ~flushing /\ flushing'
          /\ Do(<<Flush(TRUE), Item("flushed")>>)
      BY <1>2 DEF PollAndFlush, At
    <2>2. <<Flush(TRUE), Item("flushed")>> \in Seq(Items)
      BY ItemTypes, ShortSequences DEF Simple
    <2> QED
      BY <2>1, <2>2, FlushBeginsFits DEF FitsIn
  <1>3. CASE FlushApplies
    BY <1>3, FlushAppliesFits
  <1>4. ASSUME todo # <<>>, Do(EndComposition(FALSE)),
               At("commit") \/ At("compose") \/ At("endTyping")
        PROVE  FitsIn
    <2>1. ~At("terminate") /\ Head(todo).op \notin Bare
      BY <1>4 DEF At, Bare
    <2>2. Head(todo) \notin Inner
      BY <1>4, InFlushForms, InnerItems DEF At, Simple
    <2> QED
      BY <1>4, <2>1, <2>2, EndFitsIn
  <1>5. CASE ApplyUpdate
    <2>1. todo # <<>> /\ queue' = queue
      BY <1>5 DEF ApplyUpdate, At, messages
    <2>2. \/ Do(<<>>)
          \/ Do(EndComposition(FALSE)) /\ (At("commit") \/ At("compose"))
      BY <1>5 DEF ApplyUpdate
    <2> QED
      BY <1>4, <2>1, <2>2, NothingFitsIn
  <1>6. CASE EndTyping
    <2>1. /\ todo # <<>> /\ At("endTyping") /\ Head(todo).op \notin Bare
          /\ Do(<<>>) \/ Do(EndComposition(FALSE))
      BY <1>6 DEF EndTyping, At, Bare
    <2> QED
      BY <1>4, <2>1, NothingFitsIn
  <1>7. CASE Terminate
    <2>1. todo # <<>> /\ Head(todo).op \notin Bare /\ Head(todo) \notin KeyboardCalls
      BY <1>7, KeyboardCallForms DEF Terminate, At, Bare, Calling
    <2>2. \/ Do(<<>>)
          \/ ~view.suppress /\ Do(<<Call("rpc", "onCompositionTerminated")>>)
      BY <1>7 DEF Terminate
    <2>3. /\ <<Call("rpc", "onCompositionTerminated")>> \in Seq(Plain)
          /\ <<Call("rpc", "onCompositionTerminated")>> \in Seq(Inner)
          /\ <<Call("rpc", "onCompositionTerminated")>> \in Seq(InFlush)
      BY PlainItems, InnerItems, ShortSequences DEF Calling, Methods, Beneath
    <2> QED
      BY <2>1, <2>2, <2>3, NothingFitsIn, PlainFitsIn
  <1>8. CASE Create
    <2> DEFINE items == <<Call("rpc", "onActivate"), Item("activated"), Item("guarded")>>
    <2>1. /\ todo # <<>> /\ Head(todo).op = "create" /\ Head(todo).op \notin Bare
          /\ ~At("terminate") /\ Head(todo) \notin KeyboardCalls /\ Do(items)
      BY <1>8, KeyboardCallForms DEF Create, At, Bare, Calling
    <2>2. items \in Seq(Plain)
      <3>1. /\ Call("rpc", "onActivate") \in Plain /\ Item("activated") \in Plain
            /\ Item("guarded") \in Plain
        BY PlainItems DEF Calling, Methods, Simple
      <3> QED
        BY <3>1, ShortSequences
    <2> HIDE DEF items
    <2>3. Head(todo) \notin InFlush /\ Head(todo) \notin Inner
      BY <2>1, InFlushForms, InnerItems DEF Simple
    <2> QED
      BY <2>1, <2>2, <2>3, PlainFitsIn
  <1>9. CASE UpdateKeyboard
    <2>1. todo # <<>> /\ Head(todo).op = "keyboard" /\ opened'
          /\ (Do(KeyboardChanged) \/ Do(<<>>))
      BY <1>9 DEF UpdateKeyboard, At
    <2>2. CASE Do(KeyboardChanged)
      <3>1. KeyboardChanged \in Seq(Items) /\ Fits(KeyboardChanged)
        BY <2>1, KeyboardChangedFits
      <3> QED
        BY <2>1, <2>2, <3>1 DEF FitsIn
    <2>3. CASE Do(<<>>)
      BY <2>1, <2>3, NothingFitsIn
    <2> QED
      BY <2>1, <2>2, <2>3
  <1> QED
    BY <1>1, <1>2, <1>3, <1>5, <1>6, <1>7, <1>8, <1>9 DEF Handling

LEMMA OpenedStays ==
    ASSUME Failing \/ Travelling \/ Handling \/ Raising
    PROVE  opened => opened'
  <1>1. CASE Failing
    BY <1>1 DEF Failing, PollMalformed, Broken, AnswerFails, NoAnswerUnchecked, FlushFails,
                Fail, host
  <1>2. CASE Travelling
    BY <1>2 DEF Travelling, CallOpen, ConnectFails, Connect, Connected, SendClosed,
                SendAnswered, SendFails, AnswerSucceeds, NoAnswerChecked, host
  <1>3. CASE Handling
    BY <1>3 DEF Handling, PollQuietly, PollAndFlush, PollAndDefer, Flushed, FlushDone,
                FlushApplies, PopFront, PopEmpty, ApplyUpdate, UpdateKeyboard, Terminate, Ended,
                Refresh, Guarded, Create, Activated, Release, EndTyping, Hide, host
  <1>4. CASE Raising
    BY <1>4 DEF Raising, CaughtInCall, CaughtAbove, host
  <1> QED
    BY <1>1, <1>2, <1>3, <1>4

LEMMA StepFits ==
    ASSUME ViewInv, Next, ~PopEmpty
    PROVE  (FitsIn /\ (opened => opened')) \/ Raising \/ Event
  BY Cases, FailingFits, TravellingFits, HandlingFits, OpenedStays DEF ViewInv

-----------------------------------------------------------------------------
(* What the host, TSF and the engine begin.                                *)

\* A sequence of plain items satisfies what is said of todo.
LEMMA PlainBegins ==
    ASSUME todo' \in Seq(Plain)
    PROVE  TodoInv' /\ ~UnderFlush'
  <1>1. \A j \in 1..Len(todo') : todo'[j] \in Plain
    BY MemberOf
  <1>2. \A j \in 1..Len(todo') :
           todo'[j].op # "ended" /\ todo'[j] # Item("flushed") /\ todo'[j] # Pop(FALSE)
    BY <1>1 DEF Plain
  <1>3. \A j \in 1..Len(todo') : todo'[j] # ResetEnd
    <2>1. ResetEnd.op = "ended"
      BY DEF ResetEnd
    <2> QED
      BY <1>2, <2>1
  <1>4. Apart' /\ OneFlush' /\ ~UnderFlush'
    BY <1>2 DEF Apart, OneFlush, UnderFlush
  <1>5. QuietComesFirst'
    BY <1>2, <1>3 DEF QuietComesFirst, ResetEnd
  <1> QED
    BY <1>4, <1>5 DEF TodoInv

LEMMA EndBegins ==
    ASSUME NEW told, told \in {<<>>, <<Call("rpc", "onCompositionTerminated")>>},
           todo' = told \o <<[op |-> "ended", reset |-> FALSE]>>
    PROVE  TodoInv' /\ ~UnderFlush'
  <1> DEFINE c == Call("rpc", "onCompositionTerminated")
             e == [op |-> "ended", reset |-> FALSE]
  <1>1. /\ c \in Inner /\ c.op # "ended" /\ c # Item("flushed") /\ e # Item("flushed")
        /\ c # Pop(FALSE) /\ e # Pop(FALSE) /\ c # ResetEnd /\ e # ResetEnd
    BY InnerItems DEF Calling, Beneath, Call, Item, Pop, ResetEnd
  <1>2. c \in Items /\ e \in Items
    BY ItemTypes DEF Calling, Methods
  <1>3. <<>> \o <<e>> = <<e>> /\ <<c>> \o <<e>> = <<c, e>>
    <2>1. ASSUME NEW x \in Items, NEW y \in Items
          PROVE  <<>> \o <<y>> = <<y>> /\ <<x>> \o <<y>> = <<x, y>>
      <3>1. <<y>> \in Seq(Items)
        OBVIOUS
      <3> QED
        BY <3>1, JoinTwo, NothingBefore
    <2> QED
      BY <1>2, <2>1, Zenon
  <1> HIDE DEF c, e
  <1>4. todo' = <<e>> \/ todo' = <<c, e>>
    BY <1>3 DEF c, e
  <1>5. /\ \A j \in 1..Len(todo') : /\ todo'[j] # Item("flushed") /\ todo'[j] # Pop(FALSE)
                                    /\ todo'[j] # ResetEnd
        /\ \A i, j \in 1..Len(todo') : i < j => todo'[i] \in Inner
    <2>1. CASE todo' = <<e>>
      <3>1. 1..Len(todo') = {1} /\ todo'[1] = e
        <4>1. 1..Len(<<e>>) = {1} /\ <<e>>[1] = e
          OBVIOUS
        <4> QED
          BY <2>1, <4>1
      <3>2. \A j \in 1..Len(todo') : todo'[j] = e
        BY <3>1
      <3>3. \A i, j \in 1..Len(todo') : ~(i < j)
        BY <3>1
      <3> QED
        BY <1>1, <3>2, <3>3
    <2>2. CASE todo' = <<c, e>>
      <3>1. 1..Len(todo') = {1, 2} /\ todo'[1] = c /\ todo'[2] = e
        <4>1. 1..Len(<<c, e>>) = {1, 2} /\ <<c, e>>[1] = c /\ <<c, e>>[2] = e
          BY PairOf
        <4> QED
          BY <2>2, <4>1
      <3>2. \A j \in 1..Len(todo') : todo'[j] = c \/ todo'[j] = e
        BY <3>1
      <3>3. \A i, j \in 1..Len(todo') : i < j => todo'[i] = c
        BY <3>1
      <3> QED
        BY <1>1, <3>2, <3>3
    <2> QED
      BY <1>4, <2>1, <2>2
  <1>6. Apart' /\ OneFlush' /\ ~UnderFlush'
    BY <1>5 DEF Apart, OneFlush, UnderFlush, Inner
  <1>7. QuietComesFirst'
    BY <1>5 DEF QuietComesFirst, ResetEnd
  <1> QED
    BY <1>6, <1>7 DEF TodoInv

LEMMA FlushBeginsAlone ==
    ASSUME todo' = <<Flush(TRUE), Item("flushed")>>
    PROVE  TodoInv'
  <1> DEFINE f == Flush(TRUE)
             g == Item("flushed")
  <1>1. /\ f \in InFlush /\ f.op # "ended" /\ g.op # "ended" /\ f # g
        /\ f # Pop(FALSE) /\ g # Pop(FALSE) /\ f # ResetEnd /\ g # ResetEnd
    BY InnerItems DEF Flush, Item, Pop, ResetEnd
  <1>2. todo' = <<f, g>>
    OBVIOUS
  <1> HIDE DEF f, g
  <1>3. 1..Len(todo') = {1, 2} /\ todo'[1] = f /\ todo'[2] = g
    <2>1. 1..Len(<<f, g>>) = {1, 2} /\ <<f, g>>[1] = f /\ <<f, g>>[2] = g
      BY PairOf
    <2> QED
      BY <1>2, <2>1
  <1>4. \A i, j \in 1..Len(todo') : i < j => todo'[i] = f
    <2>1. \A i, j \in {1, 2} : i < j => i = 1
      OBVIOUS
    <2> QED
      BY <1>3, <2>1
  <1>5. Apart'
    BY <1>1, <1>3 DEF Apart
  <1>6. OneFlush'
    BY <1>1, <1>4 DEF OneFlush, g
  <1>7. QuietComesFirst'
    BY <1>1, <1>3 DEF QuietComesFirst, ResetEnd
  <1> QED
    BY <1>5, <1>6, <1>7 DEF TodoInv

LEMMA CloseClientKind == CloseClient \in Seq(Plain)
  <1>1. Call("rpc", "onDeactivate") \in Plain /\ Item("release") \in Plain
    BY PlainItems DEF Simple, Calling, Methods
  <1> QED
    BY <1>1, ShortSequences DEF CloseClient

\* The host begins plain calls only, but for the end of a composition it reports
\* and the flush it has put off.
Beginning ==
    \/ OnLangProfileActivated \/ OnLangProfileDeactivated \/ OnDeactivate
    \/ OnSetThreadFocus \/ FilterKeyDown \/ FilterKeyUp \/ OtherCall \/ SelectCandidate
    \/ OnAsyncPollTimer \/ OnKeyboardStatusChanged

LEMMA BeginningPlain ==
    ASSUME Beginning
    PROVE  todo' \in Seq(Plain)
  <1>1. /\ \A m \in Methods : Call("rpc", m) \in Plain
        /\ Item("create") \in Plain /\ Item("poll") \in Plain /\ Item("guarded") \in Plain
        /\ Item("endTyping") \in Plain /\ Item("hide") \in Plain
    BY PlainItems DEF Simple, Calling
  <1>2. /\ <<>> \in Seq(Plain) /\ <<Item("create")>> \in Seq(Plain)
        /\ \A m \in Methods : /\ <<Call("rpc", m)>> \in Seq(Plain)
                              /\ <<Call("rpc", m), Item("guarded")>> \in Seq(Plain)
        /\ <<Item("poll")>> \in Seq(Plain)
        /\ <<Item("endTyping"), Item("hide")>> \in Seq(Plain)
    BY <1>1, ShortSequences
  <1>3. {"filterKeyUp", "onPreservedKey", "filterKeyDown", "selectCandidate",
         "onKeyboardStatusChanged"} \subseteq Methods
    BY DEF Methods, Filters, InSession
  <1>4. CASE OnLangProfileActivated \/ OnLangProfileDeactivated \/ OnDeactivate
    <2>1. CloseClient \in Seq(Plain) /\ CloseClient \o <<Item("create")>> \in Seq(Plain)
      BY <1>2, CloseClientKind, ShortSequences
    <2> QED
      BY <1>4, <2>1
         DEF OnLangProfileActivated, OnLangProfileDeactivated, OnDeactivate, Begin
  <1>5. CASE OnSetThreadFocus \/ OnAsyncPollTimer \/ SelectCandidate \/ OtherCall
    BY <1>2, <1>3, <1>5
       DEF OnSetThreadFocus, OnAsyncPollTimer, SelectCandidate, OtherCall, Begin
  <1>6. CASE FilterKeyDown \/ FilterKeyUp
    <2>1. (IF client THEN <<>> ELSE <<Item("create")>>)
             \o <<Call("rpc", "filterKeyDown"), Item("guarded")>> \in Seq(Plain)
      BY <1>2, <1>3, ShortSequences
    <2> QED
      BY <1>2, <1>3, <1>6, <2>1 DEF FilterKeyDown, FilterKeyUp, Begin
  <1>7. CASE OnKeyboardStatusChanged
    <2> DEFINE call == IF client THEN <<Call("rpc", "onKeyboardStatusChanged")>> ELSE <<>>
               close == IF opened THEN <<Item("endTyping"), Item("hide")>> ELSE <<>>
    <2>1. call \in Seq(Plain) /\ close \in Seq(Plain)
      BY <1>2, <1>3
    <2>2. todo' = call \o close \o call
      BY <1>7 DEF OnKeyboardStatusChanged
    <2> HIDE DEF call, close
    <2> QED
      BY <2>1, <2>2, ShortSequences
  <1> QED
    BY <1>4, <1>5, <1>6, <1>7 DEF Beginning

LEMMA TodoInvStays ==
    ASSUME TodoInv, UNCHANGED <<todo, view, queue, opened>>
    PROVE  TodoInv' /\ (UnderFlush' <=> UnderFlush)
  <1>1. todo' = todo /\ view' = view /\ queue' = queue /\ opened' = opened
    OBVIOUS
  <1>2. At("terminate")' = At("terminate")
    BY <1>1 DEF At
  <1>3. Apart'
    BY <1>1 DEF TodoInv, Apart, Inner
  <1>4. OneFlush'
    BY <1>1 DEF TodoInv, OneFlush, InFlush, Inner
  <1>5. QuietComesFirst'
    <2> DEFINE o == Pop(FALSE)
    <2>1. \A j \in 1..Len(todo) :
             /\ todo[j] = ResetEnd => j = 1 \/ (j = 2 /\ At("terminate") /\ view.suppress)
             /\ todo[j] = o =>
                   /\ opened \/ queue # <<>>
                   /\ \A i \in 1..(j - 1) :
                         \/ todo[i].op \in Bare
                         \/ opened /\ \E k \in i..(j - 1) : todo[k] \in KeyboardCalls
      BY DEF TodoInv, QuietComesFirst, ResetEnd, Bare
    <2> HIDE DEF o
    <2>2. \A j \in 1..Len(todo') :
             /\ todo'[j] = ResetEnd => j = 1 \/ (j = 2 /\ At("terminate")' /\ view'.suppress)
             /\ todo'[j] = o =>
                   /\ opened' \/ queue' # <<>>
                   /\ \A i \in 1..(j - 1) :
                         \/ todo'[i].op \in Bare
                         \/ opened' /\ \E k \in i..(j - 1) : todo'[k] \in KeyboardCalls
      BY <1>1, <1>2, <2>1
    <2> QED
      BY <2>2 DEF QuietComesFirst, ResetEnd, Bare, KeyboardCalls, o
  <1>6. UnderFlush' <=> UnderFlush
    BY <1>1 DEF UnderFlush
  <1> QED
    BY <1>3, <1>4, <1>5, <1>6 DEF TodoInv

LEMMA HeadPlace ==
    ASSUME TypeOK, todo # <<>>
    PROVE  1 \in 1..Len(todo)
  <1>1. todo \in Seq(Items)
    BY DEF TypeOK
  <1>2. Len(todo) \in Nat /\ Len(todo) # 0
    BY <1>1, EmptySeq, LenProperties
  <1> QED
    BY <1>2

LEMMA EventNests ==
    ASSUME TypeOK, TodoInv, Event
    PROVE  TodoInv' /\ (UnderFlush' => UnderFlush \/ (RunDeferred /\ Head(deferred) = "flush"))
  <1>0. <<>> \in Seq(Plain)
    BY ShortSequences
  <1>1. CASE Beginning
    BY <1>1, BeginningPlain, PlainBegins
  <1>2. CASE OnCompositionTerminated
    <2> DEFINE told == IF client THEN <<Call("rpc", "onCompositionTerminated")>> ELSE <<>>
    <2>1. todo' = told \o <<[op |-> "ended", reset |-> FALSE]>>
      BY <1>2 DEF OnCompositionTerminated, Begin
    <2>2. told \in {<<>>, <<Call("rpc", "onCompositionTerminated")>>}
      OBVIOUS
    <2> HIDE DEF told
    <2> QED
      BY <2>1, <2>2, EndBegins
  <1>3. CASE RunDeferred
    <2>1. CASE Head(deferred) = "flush"
      <3>1. todo' = <<Flush(TRUE), Item("flushed")>>
        BY <1>3, <2>1 DEF RunDeferred
      <3> QED
        BY <1>3, <2>1, <3>1, FlushBeginsAlone
    <2>2. CASE Head(deferred) = "select"
      <3>1. todo' = <<Call("rpc", "selectCandidate")>>
        BY <1>3, <2>2 DEF RunDeferred
      <3>2. <<Call("rpc", "selectCandidate")>> \in Seq(Plain)
        BY PlainItems, ShortSequences DEF Calling, Methods, InSession
      <3> QED
        BY <3>1, <3>2, PlainBegins
    <2>3. CASE Head(deferred) = "dangling"
      <3>1. todo' \in Seq(Plain)
        BY <1>0, <1>3, <2>3 DEF RunDeferred, Idle
      <3> QED
        BY <3>1, PlainBegins
    <2> QED
      BY <1>3, <2>1, <2>2, <2>3 DEF RunDeferred
  <1>4. CASE WindowDies
    <2>1. todo' \in Seq(Plain)
      BY <1>0, <1>4 DEF WindowDies, Idle
    <2> QED
      BY <2>1, PlainBegins
  <1>5. CASE SelectCandidateLater \/ Arrive \/ RetryDelayPasses
    <2>1. UNCHANGED <<todo, view, queue, opened>>
      BY <1>5 DEF SelectCandidateLater, Arrive, RetryDelayPasses, messages, host
    <2> QED
      BY <2>1, TodoInvStays
  <1> QED
    BY <1>1, <1>2, <1>3, <1>4, <1>5 DEF Event, Beginning

-----------------------------------------------------------------------------
(* What an exception leaves.                                               *)

\* The call that catches it takes the place of those it has abandoned, and was
\* nested as they were.
LEMMA CatchNests ==
    ASSUME TypeOK, TodoInv, NEW k, Catches(k), opened' = opened
    PROVE  TodoInv' /\ (UnderFlush' => UnderFlush)
  <1> DEFINE m == todo[k].method
             c == Call("noAnswer", m)
  <1>1. k \in 2..Len(todo) /\ k \in 1..Len(todo) /\ Len(todo) \in Nat
    BY DEF Catches
  <1>2. /\ m \in Methods /\ todo[k].op \in Calling /\ todo[k].op \notin Bare
        /\ todo[k] = Call(todo[k].op, m)
    BY <1>1, CallerType DEF Catches, Trying, Calling, Bare
  <1>3. /\ Len(todo') = Len(todo) - k + 1 /\ todo'[1] = c
        /\ \A i \in 2..Len(todo') : todo'[i] = todo[i + k - 1]
    BY <1>1, <1>2, CaughtTodo DEF Catches
  <1>4. /\ c.op = "noAnswer" /\ c \in Plain
        /\ m \in Beneath => c \in Inner
        /\ m = "onKeyboardStatusChanged" => c \in KeyboardCalls
    BY <1>2, InnerItems, PlainItems, KeyboardCallForms DEF Calling, Call
  <1>5. c.op # "ended" /\ c # Item("flushed") /\ c # Pop(FALSE)
    BY <1>4 DEF Plain
  <1>6. c # ResetEnd
    <2>1. ResetEnd.op = "ended"
      BY DEF ResetEnd
    <2> QED
      BY <1>5, <2>1
  <1> HIDE DEF m, c
  \* What is below the caller has only moved up.
  <1>7. ASSUME NEW j \in 1..Len(todo')
        PROVE  \/ j = 1 /\ todo'[j] = c
               \/ /\ j # 1 /\ j + k - 1 \in k + 1..Len(todo) /\ j + k - 1 \in 1..Len(todo)
                  /\ todo'[j] = todo[j + k - 1]
    <2>1. CASE j = 1
      BY <1>3, <2>1
    <2>2. CASE j # 1
      <3>1. j \in 2..Len(todo') /\ j + k - 1 \in k + 1..Len(todo) /\ j + k - 1 \in 1..Len(todo)
        BY <1>1, <1>3, <2>2
      <3> QED
        BY <1>3, <2>2, <3>1
    <2> QED
      BY <2>1, <2>2
  <1>8. ASSUME NEW n \in k + 1..Len(todo)
        PROVE  n - k + 1 \in 2..Len(todo') /\ todo'[n - k + 1] = todo[n]
    <2>1. n - k + 1 \in 2..Len(todo') /\ (n - k + 1) + k - 1 = n
      BY <1>1, <1>3
    <2> QED
      BY <1>3, <2>1
  <1>9. Apart'
    <2>1. SUFFICES ASSUME NEW i \in 1..Len(todo'), NEW j \in 1..Len(todo'),
                          i < j, todo'[j].op = "ended"
                   PROVE  \/ todo'[i] \in Inner
                          \/ \E n \in 1..Len(todo') : i < n /\ n < j /\ todo'[n] = Item("flushed")
      BY DEF Apart, Inner
    <2> DEFINE a == i + k - 1
               b == j + k - 1
    <2>2. /\ b \in 1..Len(todo) /\ a \in 1..Len(todo) /\ a < b /\ k <= a
          /\ todo[b].op = "ended"
      <3>1. j # 1
        BY <1>1, <1>3, <2>1
      <3>2. b \in k + 1..Len(todo) /\ todo'[j] = todo[b]
        BY <1>7, <3>1
      <3> QED
        BY <1>1, <1>3, <2>1, <3>2
    <2>3. \/ todo[a] \in Inner
          \/ \E n \in 1..Len(todo) : a < n /\ n < b /\ todo[n] = Item("flushed")
      BY <2>2 DEF TodoInv, Apart
    <2>4. CASE todo[a] \in Inner
      <3>1. CASE i = 1
        <4>1. a = k
          BY <1>1, <3>1
        <4>2. todo[k] \in InFlush
          BY <2>4, <4>1, InnerItems
        <4>3. m \in Beneath
          BY <1>2, <4>2, InFlushForms DEF m
        <4> QED
          BY <1>3, <1>4, <3>1, <4>3
      <3>2. CASE i # 1
        BY <1>7, <2>4, <3>2
      <3> QED
        BY <3>1, <3>2
    <2>5. CASE \E n \in 1..Len(todo) : a < n /\ n < b /\ todo[n] = Item("flushed")
      <3>1. PICK n \in 1..Len(todo) : a < n /\ n < b /\ todo[n] = Item("flushed")
        BY <2>5
      <3>2. n \in k + 1..Len(todo)
        BY <1>1, <2>2, <3>1
      <3>3. n - k + 1 \in 1..Len(todo') /\ todo'[n - k + 1] = Item("flushed")
        BY <1>1, <1>3, <1>8, <3>1, <3>2
      <3>4. i < n - k + 1 /\ n - k + 1 < j
        BY <1>1, <2>1, <3>1, <3>2
      <3> QED
        BY <3>3, <3>4
    <2> QED
      BY <2>3, <2>4, <2>5
  <1>10. OneFlush'
    <2>1. SUFFICES ASSUME NEW i \in 1..Len(todo'), NEW j \in 1..Len(todo'),
                          i < j, todo'[j] = Item("flushed")
                   PROVE  todo'[i] \in InFlush \ {Item("flushed")}
      BY DEF OneFlush, InFlush, Inner
    <2> DEFINE a == i + k - 1
               b == j + k - 1
    <2>2. /\ b \in 1..Len(todo) /\ a \in 1..Len(todo) /\ a < b
          /\ todo[b] = Item("flushed")
      <3>1. j # 1
        BY <1>1, <1>3, <2>1
      <3>2. b \in k + 1..Len(todo) /\ todo'[j] = todo[b]
        BY <1>7, <3>1
      <3> QED
        BY <1>1, <1>3, <2>1, <3>2
    <2>3. todo[a] \in InFlush \ {Item("flushed")}
      BY <2>2 DEF TodoInv, OneFlush
    <2>4. CASE i = 1
      <3>1. a = k
        BY <1>1, <2>4
      <3>2. m \in Beneath
        BY <1>2, <2>3, <3>1, InFlushForms DEF m
      <3> QED
        BY <1>3, <1>4, <1>5, <2>4, <3>2, InnerItems
    <2>5. CASE i # 1
      BY <1>7, <2>3, <2>5
    <2> QED
      BY <2>4, <2>5
  <1>11. ASSUME NEW j \in 1..Len(todo') PROVE todo'[j] # ResetEnd
    <2>1. CASE j = 1
      BY <1>3, <1>6, <2>1
    <2>2. CASE j # 1
      <3>1. /\ j + k - 1 \in 1..Len(todo) /\ j + k - 1 # 1 /\ j + k - 1 # 2
            /\ todo'[j] = todo[j + k - 1]
        BY <1>1, <1>7, <2>2
      <3> QED
        BY <3>1 DEF TodoInv, QuietComesFirst, ResetEnd
    <2> QED
      BY <2>1, <2>2
  <1>12. ASSUME NEW j \in 1..Len(todo')
         PROVE  todo'[j] = Pop(FALSE) =>
                   /\ opened'
                   /\ \A i \in 1..(j - 1) :
                         \/ todo'[i].op \in Bare
                         \/ \E n \in i..(j - 1) : todo'[n] \in KeyboardCalls
    <2>0. HAVE todo'[j] = Pop(FALSE)
    <2> DEFINE b == j + k - 1
    <2>1. j # 1
      BY <1>3, <1>5, <2>0
    <2>2. b \in k + 1..Len(todo) /\ b \in 1..Len(todo) /\ todo'[j] = todo[b]
      BY <1>7, <2>1
    <2>3. todo[b] = Pop(FALSE)
      BY <2>0, <2>2, Zenon
    <2> HIDE DEF b
    <2>4. \A a \in 1..(b - 1) :
             \/ todo[a].op \in Bare
             \/ opened /\ \E n \in a..(b - 1) : todo[n] \in KeyboardCalls
      BY <2>2, <2>3 DEF TodoInv, QuietComesFirst, Bare
    <2>5. opened
      <3>1. k \in 1..(b - 1)
        BY <1>1, <2>2
      <3> QED
        BY <1>2, <2>4, <3>1
    <2>6. ASSUME NEW n \in k..(b - 1), todo[n] \in KeyboardCalls
          PROVE  todo'[n - k + 1] \in KeyboardCalls
      <3>1. CASE n = k
        <4>1. m = "onKeyboardStatusChanged"
          BY <2>6, <3>1, KeyboardCallForms DEF m
        <4>2. n - k + 1 = 1
          BY <1>1, <3>1
        <4> QED
          BY <1>3, <1>4, <4>1, <4>2
      <3>2. CASE n # k
        <4>1. n \in k + 1..Len(todo)
          BY <1>1, <2>2, <3>2
        <4> QED
          BY <1>8, <2>6, <4>1
      <3> QED
        BY <3>1, <3>2
    <2>7. ASSUME NEW i \in 1..(j - 1)
          PROVE  \/ todo'[i].op \in Bare
                 \/ \E n \in i..(j - 1) : todo'[n] \in KeyboardCalls
      <3> DEFINE a == i + k - 1
      <3>1. a \in 1..(b - 1) /\ a \in k..(b - 1) /\ i \in 1..Len(todo')
        BY <1>1, <1>3, <2>2, <2>7 DEF b
      <3>2. CASE todo[a].op \in Bare
        <4>1. i # 1
          BY <1>1, <1>2, <3>2
        <4> QED
          BY <1>7, <3>1, <3>2, <4>1
      <3>3. CASE \E n \in a..(b - 1) : todo[n] \in KeyboardCalls
        <4>1. PICK n \in a..(b - 1) : todo[n] \in KeyboardCalls
          BY <3>3
        <4>2. n \in k..(b - 1) /\ n - k + 1 \in i..(j - 1)
          BY <1>1, <2>2, <3>1, <4>1 DEF b
        <4> QED
          BY <2>6, <4>1, <4>2
      <3> QED
        BY <2>4, <3>1, <3>2, <3>3
    <2> QED
      BY <2>5, <2>7
  <1>13. QuietComesFirst'
    BY <1>11, <1>12 DEF QuietComesFirst, ResetEnd, Bare, KeyboardCalls
  <1>14. UnderFlush' => UnderFlush
    BY <1>5, <1>7 DEF UnderFlush
  <1> QED
    BY <1>9, <1>10, <1>13, <1>14 DEF TodoInv

LEMMA RaisingNests ==
    ASSUME TypeOK, TodoInv, Raising
    PROVE  TodoInv' /\ (UnderFlush' => UnderFlush)
  <1>1. CASE CaughtInCall
    <2>1. PICK k : Catches(k)
      BY <1>1 DEF CaughtInCall, Catches
    <2>2. opened' = opened
      BY <1>1 DEF CaughtInCall, host
    <2> QED
      BY <2>1, <2>2, CatchNests
  <1>2. CASE CaughtAbove
    <2>1. todo' = CloseClient \/ todo' = <<>>
      BY <1>2 DEF CaughtAbove
    <2>2. todo' \in Seq(Plain)
      BY <2>1, CloseClientKind, ShortSequences
    <2> QED
      BY <2>2, PlainBegins
  <1> QED
    BY <1>1, <1>2 DEF Raising

-----------------------------------------------------------------------------
(* The flag.                                                               *)

\* A flush under way after a step was under way below the head, or begins.
LEMMA FlushComesFrom ==
    ASSUME TypeOK, OneFlush, FitsIn, UnderFlush'
    PROVE  \/ ~flushing /\ flushing'
           \/ UnderFlush /\ Head(todo) \in InFlush \ {Item("flushed")}
  <1>1. PICK items \in Seq(Items) : Do(items) /\ Fits(items)
    BY DEF FitsIn
  <1> DEFINE L == Len(items)
  <1>2. /\ L \in Nat /\ Len(todo) \in Nat /\ Len(todo') = L + Len(todo) - 1
        /\ \A p \in 1..L : todo'[p] = items[p]
        /\ \A p \in L + 1..Len(todo') : p - L + 1 \in 2..Len(todo) /\ todo'[p] = todo[p - L + 1]
    BY <1>1, Positions DEF FitsIn
  <1>3. Head(todo) = todo[1]
    BY HeadForms DEF FitsIn
  <1> HIDE DEF L
  <1>4. PICK j \in 1..Len(todo') : todo'[j] = Item("flushed")
    BY DEF UnderFlush
  <1>5. CASE j <= L
    <2>1. j \in 1..L /\ items[j] = Item("flushed")
      BY <1>2, <1>4, <1>5
    <2> QED
      BY <1>1, <2>1 DEF Fits, FlushFits, L
  <1>6. CASE j > L
    <2>1. j - L + 1 \in 2..Len(todo) /\ todo[j - L + 1] = Item("flushed")
      BY <1>2, <1>4, <1>6
    <2>2. j - L + 1 \in 1..Len(todo) /\ 1 \in 1..Len(todo) /\ 1 < j - L + 1
      BY <1>2, <2>1
    <2> QED
      BY <1>3, <2>1, <2>2 DEF OneFlush, UnderFlush
  <1> QED
    BY <1>2, <1>4, <1>5, <1>6

LEMMA DroppedFlush ==
    ASSUME TypeOK, todo # <<>>, Do(<<>>), UnderFlush'
    PROVE  UnderFlush
  <1>1. <<>> \in Seq(Items) /\ Len(<<>>) = 0
    BY ShortSequences, EmptySeq
  <1>2. /\ Len(todo) \in Nat
        /\ \A p \in 0 + 1..Len(todo') : p - 0 + 1 \in 2..Len(todo) /\ todo'[p] = todo[p - 0 + 1]
    BY <1>1, Positions
  <1>3. PICK j \in 1..Len(todo') : todo'[j] = Item("flushed")
    BY DEF UnderFlush
  <1>4. j - 0 + 1 \in 1..Len(todo) /\ todo[j - 0 + 1] = Item("flushed")
    BY <1>2, <1>3
  <1> QED
    BY <1>4 DEF UnderFlush

LEMMA DeferredParts ==
    ASSUME TypeOK
    PROVE  /\ Len(deferred) \in Nat
           /\ \A what \in {"flush", "select"} :
                 /\ Len(Append(deferred, what)) = Len(deferred) + 1
                 /\ Append(deferred, what)[Len(deferred) + 1] = what
                 /\ \A i \in 1..Len(deferred) : Append(deferred, what)[i] = deferred[i]
           /\ deferred # <<>> =>
                 /\ Head(deferred) = deferred[1]
                 /\ 1 \in 1..Len(deferred)
                 /\ \A i \in 1..Len(Tail(deferred)) :
                       i + 1 \in 1..Len(deferred) /\ Tail(deferred)[i] = deferred[i + 1]
  <1>1. deferred \in Seq({"flush", "select", "dangling"})
    BY DEF TypeOK
  <1> QED
    BY <1>1, AppendProperties, HeadTailProperties, LenProperties, EmptySeq

LEMMA FlagsStep ==
    ASSUME ViewInv, TodoInv, Flags, Next
    PROVE  Flags'
  <1>0. TypeOK /\ OneFlush
    BY DEF ViewInv, TodoInv
  <1>1. CASE PollAndFlush
    <2>1. ~flushing /\ flushing' /\ deferred' = deferred
      BY <1>1 DEF PollAndFlush
    <2> QED
      BY <2>1 DEF Flags, Deferred
  <1>2. CASE PollAndDefer
    <2>1. /\ ~flushing /\ flushing' /\ deferred' = Append(deferred, "flush")
          /\ todo # <<>> /\ Do(<<>>)
      BY <1>2 DEF PollAndDefer, At
    <2>2. ~UnderFlush'
      BY <1>0, <2>1, DroppedFlush DEF Flags
    <2>3. \A i \in 1..Len(deferred') : deferred'[i] = "flush" => i = Len(deferred) + 1
      BY <1>0, <2>1, DeferredParts DEF Flags
    <2> QED
      BY <2>1, <2>2, <2>3 DEF Flags
  <1>3. CASE Flushed
    <2>1. At("flushed") /\ todo # <<>> /\ ~flushing' /\ deferred' = deferred
      BY <1>3 DEF Flushed, At
    <2>2. Head(todo) = Item("flushed") /\ Head(todo) = todo[1]
      BY <1>0, <2>1, HeadForms DEF At, Simple
    <2>3. UnderFlush
      <3>1. 1 \in 1..Len(todo)
        BY <1>0, <2>1, HeadPlace
      <3> QED
        BY <2>2, <3>1 DEF UnderFlush
    <2>4. FitsIn
      BY <1>0, <1>3, HandlingFits DEF Handling, Flushed, PopEmpty, At
    <2>5. ~UnderFlush'
      BY <1>0, <2>1, <2>2, <2>4, FlushComesFrom
    <2> QED
      BY <2>1, <2>3, <2>5 DEF Flags, Deferred
  <1>4. CASE Release
    <2>1. /\ At("release") /\ todo # <<>> /\ ~flushing'
          /\ deferred' = [i \in 1..Len(deferred) |-> "dangling"]
      BY <1>4 DEF Release, At
    <2>2. FitsIn
      BY <1>0, <1>4, HandlingFits DEF Handling, Release, PopEmpty, At
    <2>3. Head(todo) \notin InFlush
      BY <2>1, InFlushForms DEF At, Simple
    <2>4. ~UnderFlush'
      BY <1>0, <2>1, <2>2, <2>3, FlushComesFrom
    <2>5. \A i \in 1..Len(deferred') : deferred'[i] = "dangling"
      BY <1>0, <2>1, DeferredParts
    <2> QED
      BY <2>4, <2>5 DEF Flags
  <1>5. CASE RunDeferred
    <2>1. /\ todo = <<>> /\ deferred # <<>> /\ deferred' = Tail(deferred) /\ flushing' = flushing
      BY <1>5 DEF RunDeferred, Idle
    <2>2. ~UnderFlush
      BY <2>1, EmptySeq DEF UnderFlush
    <2>3. UnderFlush' => Head(deferred) = "flush"
      BY <1>0, <1>5, <2>2, EventNests DEF Event
    <2>4. Head(deferred) = "flush" => flushing /\ ~Deferred'
      BY <1>0, <2>1, DeferredParts DEF Flags, Deferred
    <2>5. \A i, j \in 1..Len(deferred') :
             deferred'[i] = "flush" /\ deferred'[j] = "flush" => flushing' /\ i = j
      BY <1>0, <2>1, DeferredParts DEF Flags
    <2> QED
      BY <2>1, <2>3, <2>4, <2>5 DEF Flags
  <1>6. CASE SelectCandidateLater
    <2>1. /\ todo' = todo /\ flushing' = flushing /\ deferred' = Append(deferred, "select")
      BY <1>6 DEF SelectCandidateLater
    <2>2. \A i \in 1..Len(deferred') :
             deferred'[i] = "flush" => i \in 1..Len(deferred) /\ deferred[i] = "flush"
      BY <1>0, <2>1, DeferredParts
    <2> QED
      BY <2>1, <2>2 DEF Flags, Deferred, UnderFlush
  <1>7. CASE ~Flagging
    <2>1. flushing' = flushing /\ deferred' = deferred
      BY <1>7, FlagStays
    <2>2. UnderFlush' => UnderFlush
      <3>1. CASE PopEmpty
        BY <3>1 DEF PopEmpty, UnderFlush
      <3>2. CASE FitsIn
        BY <1>0, <2>1, <3>2, FlushComesFrom
      <3>3. CASE Event
        BY <1>0, <1>7, <3>3, EventNests DEF Flagging
      <3>4. CASE Raising
        BY <1>0, <3>4, RaisingNests
      <3> QED
        BY <3>1, <3>2, <3>3, <3>4, StepFits
    <2> QED
      BY <2>1, <2>2 DEF Flags, Deferred
  <1> QED
    BY <1>1, <1>2, <1>3, <1>4, <1>5, <1>6, <1>7 DEF Flagging

-----------------------------------------------------------------------------
(* The invariant.                                                          *)

LEMMA UndefinedStays ==
    ASSUME Next, ~PopEmpty, ~RunDeferred
    PROVE  UNCHANGED undefined
  BY DEF Next, Step, Event, Fail, CallOpen, ConnectFails, Connect, Connected, PollMalformed,
         PollQuietly, PollAndFlush, PollAndDefer, Flushed, SendClosed, SendAnswered, SendFails,
         Broken, AnswerSucceeds, AnswerFails, NoAnswerUnchecked, NoAnswerChecked, FlushDone,
         FlushApplies, FlushFails, PopFront, ApplyUpdate, UpdateKeyboard, Terminate, Ended,
         Refresh, CaughtInCall, CaughtAbove, Guarded, Create, Activated, Release, EndTyping,
         Hide, OnLangProfileActivated, OnLangProfileDeactivated, OnDeactivate,
         OnSetThreadFocus, FilterKeyDown, FilterKeyUp, OtherCall, SelectCandidate,
         SelectCandidateLater, OnAsyncPollTimer, OnKeyboardStatusChanged,
         OnCompositionTerminated, WindowDies, Arrive, RetryDelayPasses, Begin, faults

LEMMA DefinedBefore ==
    ASSUME Next PROVE undefined = "no"
  BY DEF Next, Step, Event, OnLangProfileActivated, OnLangProfileDeactivated, OnDeactivate,
         OnSetThreadFocus, FilterKeyDown, FilterKeyUp, OtherCall, SelectCandidate,
         SelectCandidateLater, RunDeferred, OnAsyncPollTimer, OnKeyboardStatusChanged,
         OnCompositionTerminated, WindowDies, Arrive, RetryDelayPasses, Begin, Idle

\* Unless the keyboard has been opened, a pop without a session finds the message
\* that was applied.
LEMMA PopFindsIts ==
    ASSUME TypeOK, QuietComesFirst, PopEmpty, undefined' = "pop without a session"
    PROVE  opened'
  <1>1. /\ todo # <<>> /\ Head(todo).op = "pop" /\ queue = <<>> /\ opened' = opened
        /\ undefined' = IF Head(todo).session THEN "pop in a session" ELSE "pop without a session"
    BY DEF PopEmpty, At, host
  <1>2. Head(todo) = todo[1] /\ Head(todo) = Pop(Head(todo).session) /\ Head(todo).session \in BOOLEAN
    BY <1>1, HeadForms, HeadTypes
  <1>3. 1 \in 1..Len(todo)
    BY <1>1, HeadPlace
  <1>4. Head(todo).session = FALSE
    BY <1>1, <1>2
  <1> QED
    BY <1>1, <1>2, <1>3, <1>4 DEF QuietComesFirst

LEMMA NestedStep ==
    ASSUME ViewInv, CallsAreNested, [Next]_vars
    PROVE  CallsAreNested'
  <1>0. /\ TypeOK /\ TodoInv /\ Apart /\ OneFlush /\ QuietComesFirst /\ Flags
        /\ undefined = "pop without a session" => opened
    BY NestedParts DEF ViewInv, CallsAreNested, TodoInv
  <1>3. TypeOK'
    BY ViewInvStep DEF ViewInv
  <1>1. CASE UNCHANGED vars
    <2>1. /\ UNCHANGED <<todo, view, queue, opened>> /\ flushing' = flushing
          /\ deferred' = deferred /\ undefined' = undefined
      BY <1>1 DEF vars, messages, host, faults
    <2>2. TodoInv' /\ (UnderFlush' <=> UnderFlush)
      BY <1>0, <2>1, TodoInvStays
    <2>3. Flags'
      BY <1>0, <2>1, <2>2 DEF Flags, Deferred
    <2> QED
      BY <1>0, <1>3, <2>1, <2>2, <2>3, NestedPartsThen
  <1>2. CASE Next
    <2>1. TodoInv'
      <3>1. CASE PopEmpty
        <4>1. UNCHANGED <<todo, view, queue, opened>>
          BY <3>1 DEF PopEmpty, messages, host
        <4> QED
          BY <1>0, <4>1, TodoInvStays
      <3>2. CASE FitsIn /\ (opened => opened')
        <4>1. PICK items \in Seq(Items) : Do(items) /\ Fits(items)
          BY <3>2 DEF FitsIn
        <4> QED
          BY <1>0, <3>2, <4>1, EndsStayApart, FlushStaysOne, QuietStaysFirst
             DEF FitsIn, Fits, TodoInv
      <3>3. CASE Event
        BY <1>0, <3>3, EventNests
      <3>4. CASE Raising
        BY <1>0, <3>4, RaisingNests
      <3> QED
        BY <1>2, <3>1, <3>2, <3>3, <3>4, StepFits
    <2>2. Flags'
      BY <1>0, <1>2, FlagsStep
    <2>3. undefined' = "pop without a session" => opened'
      <3>1. CASE PopEmpty
        BY <1>0, <3>1, PopFindsIts
      <3>2. CASE RunDeferred
        <4>1. undefined' \in {undefined, "freed client"}
          BY <3>2 DEF RunDeferred
        <4> QED
          BY <1>2, <4>1, DefinedBefore
      <3> QED
        BY <1>2, <3>1, <3>2, UndefinedStays, DefinedBefore
    <2> QED
      BY <1>3, <2>1, <2>2, <2>3, NestedPartsThen
  <1> QED
    BY <1>1, <1>2

LEMMA NestedInit == Init => CallsAreNested
  <1> SUFFICES ASSUME Init PROVE CallsAreNested
    OBVIOUS
  <1>1. Len(todo) = 0 /\ Len(deferred) = 0 /\ undefined = "no"
    BY EmptySeq DEF Init
  <1>2. TypeOK
    BY ViewInit DEF ViewInv
  <1> QED
    BY <1>1, <1>2 DEF CallsAreNested, EndsApart, FlagHeldOnce, QuietComesFirst

\* Whatever the engine answers, whatever it sends in between and whatever exception
\* that raises, the calls under way are nested in one way only: what is applied in
\* an edit session while a composition is being ended is applied by the one flush
\* that holds the flag; nothing is called from a reset, and from a flush without a
\* session only what opening the keyboard calls.
THEOREM CallsStayNested == Spec => []CallsAreNested
  <1> QED
    BY ViewInit, ViewInvStep, NestedInit, NestedStep, PTL DEF Spec

LEMMA NestedIsQuiet ==
    ASSUME CallsAreNested
    PROVE  QuietWhereItMustBe
  <1>1. ASSUME NEW i \in 1..Len(todo), NEW j \in 1..Len(todo), i < j, todo[i].op \in Calling
        PROVE  /\ todo[j] # ResetEnd
               /\ todo[j] = Pop(FALSE) => \E k \in i..(j - 1) : todo[k] \in KeyboardCalls
    <2>1. ASSUME todo[j] = ResetEnd
          PROVE  FALSE
      <3>1. j = 1 \/ (j = 2 /\ At("terminate"))
        BY <2>1 DEF CallsAreNested, QuietComesFirst, ResetEnd
      <3>2. j = 2 /\ i = 1
        BY <1>1, <3>1
      <3>3. Head(todo) = todo[1]
        OBVIOUS
      <3> QED
        BY <1>1, <3>1, <3>2, <3>3 DEF At, Calling
    <2>2. i \in 1..(j - 1) /\ todo[i].op \notin {"bareList", "keyboard"}
      BY <1>1 DEF Calling
    <2>3. todo[j] = Pop(FALSE) => \E k \in i..(j - 1) : todo[k] \in KeyboardCalls
      BY <2>2 DEF CallsAreNested, QuietComesFirst
    <2> QED
      BY <2>1, <2>3
  <1>2. Len(todo) \in Nat
    BY MemberOf DEF CallsAreNested, TypeOK
  <1>3. \A j \in 1..Len(todo) : \A i \in 1..(j - 1) : i \in 1..Len(todo) /\ i < j
    BY <1>2
  <1> QED
    BY <1>1, <1>3 DEF QuietWhereItMustBe, CallsAreNested, ResetEnd

\* The engine is not called from the middle of a reset; in a flush without an edit
\* session it is called only where a message has opened the keyboard, and a flush
\* that has not opened it pops the message it has applied.
THEOREM ResetsAreQuiet == Spec => []QuietWhereItMustBe
  <1> QED
    BY CallsStayNested, NestedIsQuiet, PTL

LEMMA AtMostTwo ==
    ASSUME NEW S, \A a, b, c \in S : a = b \/ a = c \/ b = c
    PROVE  Cardinality(S) <= 2
  <1>1. CASE S = {}
    BY <1>1, FS_EmptySet
  <1>2. ASSUME NEW a \in S, NEW b \in S
        PROVE  S = {a, b} \/ a = b
    BY <1>2
  <1>3. CASE \E a, b \in S : a # b
    <2>1. PICK a \in S, b \in S : a # b
      BY <1>3
    <2>2. S = {a} \cup {b}
      BY <1>2, <2>1
    <2>3. IsFiniteSet({a}) /\ Cardinality({a}) = 1
      BY FS_Singleton
    <2>4. Cardinality({a} \cup {b}) = IF b \in {a} THEN 1 ELSE 1 + 1
      BY <2>3, FS_AddElement
    <2> QED
      BY <2>1, <2>2, <2>4
  <1>4. CASE S # {} /\ ~\E a, b \in S : a # b
    <2>1. PICK a \in S : TRUE
      BY <1>4
    <2>2. S = {a}
      BY <1>4, <2>1
    <2> QED
      BY <2>2, FS_Singleton
  <1> QED
    BY <1>1, <1>3, <1>4

\* Between two ends of a composition there is a flush that holds the flag, and
\* there is one such flush: a third end has no place.
LEMMA NestedBoundsEnds ==
    ASSUME CallsAreNested
    PROVE  EndsAreNotNested
  <1> DEFINE E == {i \in 1..Len(todo) : todo[i].op = "ended"}
             F == {i \in 1..Len(todo) : todo[i] = Item("flushed")}
  <1>0. \A i \in 1..Len(todo) : i \in Int
    OBVIOUS
  <1>1. \A i, j \in E : i < j => \E k \in F : i < k /\ k < j
    <2> TAKE i, j \in E
    <2>1. HAVE i < j
    <2>2. todo[i] \in Inner \/ \E k \in 1..Len(todo) : i < k /\ k < j /\ todo[k] = Item("flushed")
      BY <2>1, NestedParts DEF TodoInv, Apart
    <2>3. todo[i].op = "ended" /\ (todo[i] \in Inner => todo[i] \in InFlush)
      BY InnerItems
    <2>4. todo[i] \notin Inner
      BY <2>3, InFlushForms
    <2> QED
      BY <2>2, <2>4
  <1>2. \A k, l \in F : k = l
    <2>1. \A k, l \in F : ~(k < l)
      BY NestedParts DEF TodoInv, OneFlush
    <2> QED
      BY <1>0, <2>1
  <1>3. /\ \A i \in E : i \in Int
        /\ \A k \in F : k \in Int
    BY <1>0
  <1> HIDE DEF E, F
  <1>4. \A a, b, c \in E : a = b \/ a = c \/ b = c
    <2> SUFFICES ASSUME NEW a \in E, NEW b \in E, NEW c \in E, a # b, a # c, b # c
                 PROVE  FALSE
      OBVIOUS
    <2>1. ASSUME NEW x \in E, NEW y \in E, NEW z \in E, x < y, y < z
          PROVE  FALSE
      <3>1. PICK k \in F : x < k /\ k < y
        BY <1>1, <2>1
      <3>2. PICK l \in F : y < l /\ l < z
        BY <1>1, <2>1
      <3> QED
        BY <1>2, <1>3, <3>1, <3>2
    <2>2. \/ (a < b /\ b < c) \/ (a < c /\ c < b) \/ (b < a /\ a < c)
          \/ (b < c /\ c < a) \/ (c < a /\ a < b) \/ (c < b /\ b < a)
      BY <1>3
    <2> QED
      BY <2>1, <2>2
  <1> QED
    BY <1>4, AtMostTwo DEF EndsAreNotNested, E

\* However often the engine commits, at most two ends of a composition wait for
\* one another: the recursion of flush, end, call and flush is bounded.
THEOREM RecursionIsBounded == Spec => []EndsAreNotNested
  <1> QED
    BY CallsStayNested, NestedBoundsEnds, PTL

==============================================================================
