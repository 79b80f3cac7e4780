------------------------ MODULE TGenGeneratorProofs -------------------------
(***************************************************************************)
(* Proofs about TGenGenerator, for any number of generators, of any kind,  *)
(* with models of any length: GeneratorInv is inductive, with it no freed  *)
(* generator is used, reference counts and the driver's counters are       *)
(* exact, and the generators implement TGenActivity.                       *)
(***************************************************************************)
EXTENDS TGenGenerator, FiniteSetTheorems, SequenceTheorems, TLAPS

\* Where a stack holds calls of op on g, and how many.
Places(s, op, g) == {i \in 1 .. Len(s) : s[i].op = op /\ s[i].g = g}
Count(s, op, g) == Cardinality(Places(s, op, g))

\* What may be left when a call returns.
Quiet(s) ==
  \A i \in 1 .. Len(s) : s[i].op \in {"setTimer", "unref"} /\ s[i].flags = {} /\ ~s[i].id
-----------------------------------------------------------------------------
(* The stack.                                                               *)

\* A call put on a stack lies above the calls that were there.
LEMMA Pushing ==
  ASSUME NEW x \in CallType, NEW t \in Seq(CallType)
  PROVE  /\ <<x>> \o t \in Seq(CallType)
         /\ Len(<<x>> \o t) = Len(t) + 1
         /\ <<x>> \o t # <<>>
         /\ Head(<<x>> \o t) = x
         /\ (<<x>> \o t)[1] = x
         /\ \A i \in 1 .. Len(t) : (<<x>> \o t)[i + 1] = t[i]
<1>1. <<x>> \in Seq(CallType) /\ Len(<<x>>) = 1 /\ <<x>>[1] = x
  OBVIOUS
<1>2. Len(t) \in Nat
  OBVIOUS
<1>3. /\ <<x>> \o t \in Seq(CallType)
      /\ Len(<<x>> \o t) = 1 + Len(t)
      /\ \A i \in 1 .. 1 + Len(t) : (<<x>> \o t)[i] = IF i <= 1 THEN <<x>>[i] ELSE t[i - 1]
  BY <1>1, ConcatProperties
<1> DEFINE s == <<x>> \o t
<1> HIDE DEF s
<1>4. s # <<>>
  BY <1>2, <1>3 DEF s
<1>5. s[1] = x
  BY <1>1, <1>2, <1>3 DEF s
<1>6. Head(s) = x
  BY <1>3, <1>4, <1>5 DEF s
<1>7. \A i \in 1 .. Len(t) : s[i + 1] = t[i]
  <2> SUFFICES ASSUME NEW i \in 1 .. Len(t) PROVE s[i + 1] = t[i]
    OBVIOUS
  <2>1. i + 1 \in 1 .. 1 + Len(t) /\ ~(i + 1 <= 1) /\ (i + 1) - 1 = i
    BY <1>2
  <2> QED
    BY <1>3, <2>1 DEF s
<1> QED
  BY <1>2, <1>3, <1>4, <1>5, <1>6, <1>7 DEF s

\* Counts are numbers.
LEMMA CountType ==
  ASSUME NEW s \in Seq(CallType), NEW op, NEW g
  PROVE  Count(s, op, g) \in Nat /\ IsFiniteSet(Places(s, op, g))
<1>1. IsFiniteSet(1 .. Len(s))
  BY FS_Interval
<1>2. Places(s, op, g) \in SUBSET (1 .. Len(s))
  BY DEF Places
<1> QED
  BY <1>1, <1>2, FS_Subset, FS_CardinalityType DEF Count

\* A count is zero when the stack holds no such call, and only then.
LEMMA CountZero ==
  ASSUME NEW s \in Seq(CallType), NEW op, NEW g
  PROVE  Count(s, op, g) = 0 <=> \A i \in 1 .. Len(s) : ~(s[i].op = op /\ s[i].g = g)
<1>1. Count(s, op, g) = 0 <=> Places(s, op, g) = {}
  BY CountType, FS_EmptySet DEF Count
<1> QED
  BY <1>1 DEF Places

\* A call put on the stack is counted.
LEMMA CountPush ==
  ASSUME NEW x \in CallType, NEW t \in Seq(CallType), NEW op, NEW g
  PROVE  Count(<<x>> \o t, op, g) = Count(t, op, g) + One(x.op = op /\ x.g = g)
<1> DEFINE s == <<x>> \o t
           B == Places(t, op, g)
           A == Places(s, op, g)
           C == {i \in A : i # 1}
           f == [i \in B |-> i + 1]
<1>1. /\ Len(s) = Len(t) + 1 /\ Len(t) \in Nat /\ s \in Seq(CallType)
      /\ s[1] = x /\ \A i \in 1 .. Len(t) : s[i + 1] = t[i]
  BY Pushing
<1> HIDE DEF s
<1>2. IsFiniteSet(A) /\ IsFiniteSet(B) /\ Count(t, op, g) \in Nat
  BY <1>1, CountType
<1>3. f \in Bijection(B, C)
  <2>1. \A i \in B : i + 1 \in C
    BY <1>1 DEF Places
  <2>2. f \in [B -> C]
    BY <2>1
  <2>3. \A i, j \in B : f[i] = f[j] => i = j
    BY DEF Places
  <2>4. \A j \in C : \E i \in B : f[i] = j
    <3> SUFFICES ASSUME NEW j \in C PROVE \E i \in B : f[i] = j
      OBVIOUS
    <3>1. j - 1 \in 1 .. Len(t) /\ (j - 1) + 1 = j
      BY <1>1 DEF Places
    <3>2. j - 1 \in B
      BY <1>1, <3>1 DEF Places
    <3> QED
      BY <3>1, <3>2
  <2> HIDE DEF f, B, C
  <2>5. DOMAIN f = B
    BY <2>2
  <2> QED
    BY <2>2, <2>3, <2>4, <2>5 DEF Bijection, Injection, Surjection, IsInjective
<1>4. IsFiniteSet(C) /\ Cardinality(C) = Cardinality(B)
  <2> HIDE DEF f, B, C
  <2>1. ExistsBijection(B, C)
    BY <1>3 DEF ExistsBijection
  <2> QED
    BY <1>2, <2>1, FS_Bijection
<1>5. CASE x.op = op /\ x.g = g
  <2>1. A = C \cup {1} /\ 1 \notin C
    BY <1>1, <1>5 DEF Places
  <2>2. Cardinality(A) = Cardinality(C) + 1
    <3> HIDE DEF A, C
    <3> QED
      BY <1>4, <2>1, FS_AddElement
  <2> QED
    BY <1>4, <1>5, <2>2 DEF Count, One, s
<1>6. CASE ~(x.op = op /\ x.g = g)
  <2>1. A = C
    BY <1>1, <1>6 DEF Places
  <2>2. Count(s, op, g) = Count(t, op, g)
    BY <1>4, <2>1 DEF Count
  <2>3. One(x.op = op /\ x.g = g) = 0
    BY <1>6 DEF One
  <2> QED
    BY <1>2, <2>2, <2>3 DEF s
<1> QED
  BY <1>5, <1>6

\* The action's id comes with the call on top.
WithId == calls # <<>> /\ Head(calls).id

\* Number of calls, of the stack of a state.
LEMMA NumIsCount == \A op, g : Num(op, g) = Count(calls, op, g)
BY DEF Num, Count, Places

\* The call on top, and what is below it.
LEMMA TopCall ==
  ASSUME TypeOK, StackInOrder, NEW op, NEW g, On(op, g)
  PROVE  /\ calls # <<>> /\ Head(calls) = calls[1] /\ 1 \in 1 .. Len(calls)
         /\ Head(calls) \in CallType /\ Head(calls).op = op /\ Head(calls).g = g
         /\ op \in Ops /\ g \in Gens
         /\ Tail(calls) \in Seq(CallType) /\ Quiet(Tail(calls))
         /\ \A i \in 1 .. Len(Tail(calls)) : Live(Tail(calls)[i].g)
         /\ \A o, h : On(o, h) <=> (op = o /\ g = h)
         /\ \A o, h : Num(o, h) = Count(Tail(calls), o, h) + One(op = o /\ g = h)
<1>1. calls # <<>> /\ Head(calls).op = op /\ Head(calls).g = g /\ calls \in Seq(CallType)
  BY DEF On, TypeOK
<1>2. Head(calls) = calls[1] /\ 1 \in 1 .. Len(calls)
  BY <1>1
<1>3. /\ Head(calls) \in CallType /\ Tail(calls) \in Seq(CallType)
      /\ Len(Tail(calls)) = Len(calls) - 1
      /\ \A i \in 1 .. Len(Tail(calls)) : Tail(calls)[i] = calls[i + 1]
  BY <1>1, HeadTailProperties
<1>4. op \in Ops /\ g \in Gens
  BY <1>1, <1>3 DEF CallType
<1>5. ASSUME NEW i \in 1 .. Len(Tail(calls))
      PROVE  /\ Tail(calls)[i].op \in {"setTimer", "unref"}
             /\ Tail(calls)[i].flags = {} /\ ~Tail(calls)[i].id /\ Live(Tail(calls)[i].g)
  <2>1. i + 1 \in 2 .. Len(calls) /\ i + 1 \in 1 .. Len(calls)
    BY <1>1, <1>3
  <2>2. Tail(calls)[i] = calls[i + 1]
    BY <1>3
  <2> QED
    BY <2>1, <2>2 DEF StackInOrder
<1>6. \A o, h : On(o, h) <=> (op = o /\ g = h)
  BY <1>1 DEF On
<1>7. ASSUME NEW o, NEW h
      PROVE  Num(o, h) = Count(Tail(calls), o, h) + One(op = o /\ g = h)
  <2>1. calls = <<Head(calls)>> \o Tail(calls)
    <3> DEFINE r == <<Head(calls)>> \o Tail(calls)
    <3>1. /\ r \in Seq(CallType) /\ Len(r) = Len(Tail(calls)) + 1 /\ r[1] = Head(calls)
          /\ \A i \in 1 .. Len(Tail(calls)) : r[i + 1] = Tail(calls)[i]
      BY <1>3, Pushing
    <3> HIDE DEF r
    <3>2. Len(r) = Len(calls) /\ Len(calls) \in Nat
      BY <1>1, <1>3, <3>1
    <3>3. ASSUME NEW i \in 1 .. Len(calls) PROVE calls[i] = r[i]
      <4>1. CASE i = 1
        BY <1>2, <3>1, <4>1
      <4>2. CASE i # 1
        <5>1. i - 1 \in 1 .. Len(Tail(calls)) /\ (i - 1) + 1 = i
          BY <1>3, <3>2, <4>2
        <5> QED
          BY <1>3, <3>1, <5>1
      <4> QED
        BY <4>1, <4>2
    <3>4. calls = r
      BY <1>1, <3>1, <3>2, <3>3, SeqEqual
    <3> QED
      BY <3>4 DEF r
  <2>2. Count(calls, o, h)
          = Count(Tail(calls), o, h) + One(Head(calls).op = o /\ Head(calls).g = h)
    <3> DEFINE c == Head(calls)
               t == Tail(calls)
    <3>1. c \in CallType /\ t \in Seq(CallType)
      BY <1>3
    <3> HIDE DEF c, t
    <3>2. Count(<<c>> \o t, o, h) = Count(t, o, h) + One(c.op = o /\ c.g = h)
      BY <3>1, CountPush
    <3> QED
      BY <2>1, <3>2 DEF c, t
  <2> QED
    BY <1>1, <2>2, NumIsCount
<1> QED
  BY <1>1, <1>2, <1>3, <1>4, <1>5, <1>6, <1>7 DEF Quiet

\* What is on top after a call was made.
LEMMA Pushed ==
  ASSUME NEW x \in CallType, NEW t \in Seq(CallType), calls' = <<x>> \o t
  PROVE  /\ calls' \in Seq(CallType) /\ calls' # <<>> /\ Head(calls') = x
         /\ WithId' <=> x.id
         /\ \A o, h : On(o, h)' <=> (x.op = o /\ x.g = h)
         /\ \A w : Carries(w)' <=> <<w, "complete">> \in x.flags
         /\ \A o, h : Num(o, h)' = Count(t, o, h) + One(x.op = o /\ x.g = h)
<1>1. calls' \in Seq(CallType) /\ calls' # <<>> /\ Head(calls') = x
  BY Pushing
<1>2. \A o, h : Num(o, h)' = Count(calls', o, h)
  BY DEF Num, Count, Places
<1>3. \A o, h : Count(calls', o, h) = Count(t, o, h) + One(x.op = o /\ x.g = h)
  BY CountPush
<1>4. WithId' <=> x.id
  BY <1>1 DEF WithId
<1>5. \A o, h : On(o, h)' <=> (x.op = o /\ x.g = h)
  BY <1>1 DEF On
<1>6. \A w : Carries(w)' <=> <<w, "complete">> \in x.flags
  BY <1>1 DEF Carries
<1> QED
  BY <1>1, <1>2, <1>3, <1>4, <1>5, <1>6

\* What is on top after a call has returned.
LEMMA Returned ==
  ASSUME NEW t \in Seq(CallType), Quiet(t), calls' = t
  PROVE  /\ calls' \in Seq(CallType)
         /\ ~WithId'
         /\ \A o \in Ops \ {"setTimer", "unref"} : \A h : ~On(o, h)'
         /\ \A w : ~Carries(w)'
         /\ \A o, h : Num(o, h)' = Count(t, o, h)
<1>1. \A o, h : Num(o, h)' = Count(t, o, h)
  BY DEF Num, Count, Places
<1>2. t # <<>> => Head(t) = t[1] /\ 1 \in 1 .. Len(t)
  OBVIOUS
<1>3. t # <<>> => Head(t).op \in {"setTimer", "unref"} /\ Head(t).flags = {} /\ ~Head(t).id
  BY <1>2 DEF Quiet
<1>4. ~WithId'
  BY <1>3 DEF WithId
<1>5. \A o \in Ops \ {"setTimer", "unref"} : \A h : ~On(o, h)'
  BY <1>3 DEF On
<1>6. \A w : ~Carries(w)'
  BY <1>3 DEF Carries
<1> QED
  BY <1>1, <1>4, <1>5, <1>6

\* The stack stays in order when the call made is in order.
LEMMA StackPushed ==
  ASSUME NEW x \in CallType, NEW t \in Seq(CallType), calls' = <<x>> \o t, Quiet(t),
         \A i \in 1 .. Len(t) : Live(t[i].g)',
         x.op \in {"start", "generateNext", "setTimer", "unref"} => x.flags = {},
         x.op \in {"onComplete", "onNotify"} =>
            \A flag \in x.flags :
              flag[1] = "stream" \/ (flag[1] = "flow" /\ gen'[x.g].kind = "traffic"),
         x.op = "onNotify" => ~AllDone(gen'[x.g]),
         x.op # "driver" => Live(x.g)' /\ ~x.id,
         x.op = "driver" /\ ~x.id => Own(Root)'
  PROVE  StackInOrder'
<1>1. /\ Len(calls') = Len(t) + 1 /\ Len(t) \in Nat
      /\ calls'[1] = x /\ \A i \in 1 .. Len(t) : calls'[i + 1] = t[i]
  BY Pushing
<1>2. ASSUME NEW i \in 2 .. Len(calls')
      PROVE  /\ calls'[i].op \in {"setTimer", "unref"} /\ calls'[i].flags = {}
             /\ ~calls'[i].id /\ Live(calls[i].g)'
  <2>1. i - 1 \in 1 .. Len(t) /\ (i - 1) + 1 = i
    BY <1>1
  <2>2. calls'[i] = t[i - 1]
    BY <1>1, <2>1
  <2> QED
    BY <2>1, <2>2 DEF Quiet
<1>3. ASSUME NEW i \in 1 .. Len(calls')
      PROVE  /\ calls'[i].op \in {"start", "generateNext", "setTimer", "unref"}
                  => calls'[i].flags = {}
             /\ calls'[i].op \in {"onComplete", "onNotify"} =>
                  \A flag \in calls'[i].flags :
                    flag[1] = "stream" \/ (flag[1] = "flow" /\ gen'[calls'[i].g].kind = "traffic")
             /\ calls'[i].op = "onNotify" => ~AllDone(gen'[calls'[i].g])
             /\ calls'[i].op # "driver" => Live(calls[i].g)' /\ ~calls'[i].id
             /\ calls'[i].op = "driver" /\ ~calls'[i].id => Own(Root)'
  <2>1. CASE i = 1
    BY <1>1, <2>1
  <2>2. CASE i # 1
    <3>1. i \in 2 .. Len(calls')
      BY <1>1, <2>2
    <3> QED
      BY <1>2, <3>1
  <2> QED
    BY <2>1, <2>2
<1> QED
  BY <1>2, <1>3 DEF StackInOrder

\* The stack stays in order when the call returns.
LEMMA StackReturned ==
  ASSUME NEW t \in Seq(CallType), calls' = t, Quiet(t), \A i \in 1 .. Len(t) : Live(t[i].g)'
  PROVE  StackInOrder'
<1>1. Len(t) \in Nat
  OBVIOUS
<1>2. \A i \in 2 .. Len(t) : i \in 1 .. Len(t)
  BY <1>1
<1> QED
  BY <1>2 DEF StackInOrder, Quiet
-----------------------------------------------------------------------------
(* The sets that are counted.                                               *)

\* Streams, and flows of a traffic generator or of the driver.
StreamsOf(st) == UNION {{g} \X (1 .. st[g]) : g \in Gens}
OwnFlows == {g \in Gens : Own(g) /\ gen[g].kind # "traffic"}

\* Sets of generators are finite.
LEMMA FiniteGens == \A T : T \subseteq Gens => IsFiniteSet(T) /\ Cardinality(T) \in Nat
BY GensAssumption, FS_Subset, FS_CardinalityType

\* There are finitely many streams.
LEMMA FiniteStreams ==
  ASSUME NEW st \in [Gens -> Nat]
  PROVE  IsFiniteSet(StreamsOf(st)) /\ Cardinality(StreamsOf(st)) \in Nat
<1> DEFINE S == {{g} \X (1 .. st[g]) : g \in Gens}
           f == [g \in Gens |-> {g} \X (1 .. st[g])]
<1>1. f \in Surjection(Gens, S)
  BY DEF Surjection
<1>2. \A T \in S : IsFiniteSet(T)
  <2> SUFFICES ASSUME NEW g \in Gens PROVE IsFiniteSet({g} \X (1 .. st[g]))
    OBVIOUS
  <2>1. IsFiniteSet({g}) /\ IsFiniteSet(1 .. st[g])
    <3>1. st[g] \in Int /\ 1 \in Int
      OBVIOUS
    <3>2. IsFiniteSet({g})
      BY FS_Singleton
    <3>3. IsFiniteSet(1 .. st[g])
      BY <3>1, FS_Interval
    <3> QED
      BY <3>2, <3>3
  <2> QED
    BY <2>1, FS_Product
<1> HIDE DEF f, S
<1>3. IsFiniteSet(S)
  BY <1>1, GensAssumption, FS_Surjection
<1>4. IsFiniteSet(UNION S)
  BY <1>2, <1>3, FS_UNION
<1> QED
  BY <1>4, FS_CardinalityType DEF S, StreamsOf

\* A stream more.
LEMMA StreamMore ==
  ASSUME NEW st \in [Gens -> Nat], NEW g \in Gens
  PROVE  Cardinality(StreamsOf([st EXCEPT ![g] = @ + 1])) = Cardinality(StreamsOf(st)) + 1
<1> DEFINE new == [st EXCEPT ![g] = @ + 1]
           x == <<g, st[g] + 1>>
<1>1. StreamsOf(new) = StreamsOf(st) \cup {x}
  BY DEF StreamsOf
<1>2. x \notin StreamsOf(st)
  BY DEF StreamsOf
<1> HIDE DEF new, x
<1>3. Cardinality(StreamsOf(new)) = Cardinality(StreamsOf(st)) + 1
  BY <1>1, <1>2, FiniteStreams, FS_AddElement
<1> QED
  BY <1>3 DEF new

\* A stream less.
LEMMA StreamLess ==
  ASSUME NEW st \in [Gens -> Nat], NEW g \in Gens, st[g] > 0
  PROVE  /\ [st EXCEPT ![g] = @ - 1] \in [Gens -> Nat]
         /\ Cardinality(StreamsOf([st EXCEPT ![g] = @ - 1])) = Cardinality(StreamsOf(st)) - 1
<1> DEFINE new == [st EXCEPT ![g] = @ - 1]
<1>1. new \in [Gens -> Nat]
  OBVIOUS
<1>2. st = [new EXCEPT ![g] = @ + 1]
  <2> DEFINE k == [new EXCEPT ![g] = @ + 1]
  <2>1. k = [h \in Gens |-> IF h = g THEN new[g] + 1 ELSE new[h]]
    BY <1>1
  <2>2. ASSUME NEW h \in Gens PROVE k[h] = st[h]
    BY <2>1
  <2>3. k \in [Gens -> Nat]
    BY <1>1
  <2> HIDE DEF k
  <2> QED
    BY <2>2, <2>3 DEF k
<1> HIDE DEF new
<1>3. Cardinality(StreamsOf(new)) \in Nat
  BY <1>1, FiniteStreams
<1>4. Cardinality(StreamsOf([new EXCEPT ![g] = @ + 1])) = Cardinality(StreamsOf(new)) + 1
  BY <1>1, StreamMore
<1>5. Cardinality(StreamsOf(st)) = Cardinality(StreamsOf(new)) + 1
  BY <1>2, <1>4
<1> QED
  BY <1>1, <1>3, <1>5 DEF new

\* What is counted is finite.
Counted ==
  /\ \A g \in Gens : /\ Cardinality(Children(g)) \in Nat /\ IsFiniteSet(Children(g))
                     /\ \A op : Num(op, g) \in Nat
  /\ Cardinality(OpenFlows) \in Nat /\ IsFiniteSet(OpenFlows)
  /\ Cardinality(OwnFlows) \in Nat /\ IsFiniteSet(OwnFlows)
  /\ Cardinality(OpenStreams) \in Nat

\* What the invariant counts, it counts in numbers.
LEMMA Numbers == TypeOK => Counted
<1> SUFFICES ASSUME TypeOK PROVE Counted
  OBVIOUS
<1>1. \A g : Children(g) \subseteq Gens
  BY DEF Children
<1>2. OpenFlows \subseteq Gens /\ OwnFlows \subseteq Gens
  BY DEF OpenFlows, OwnFlows
<1>3. calls \in Seq(CallType) /\ streams \in [Gens -> Nat]
  BY DEF TypeOK
<1>4. \A op, g : Num(op, g) \in Nat
  BY <1>3, NumIsCount, CountType
<1>5. OpenStreams = StreamsOf(streams)
  BY DEF OpenStreams, StreamsOf
<1> QED
  BY <1>1, <1>2, <1>3, <1>4, <1>5, FiniteGens, FiniteStreams DEF Counted

\* And in the next state.
LEMMA NumbersNext == TypeOK' => Counted'
BY Numbers, PTL

\* The sets stay as they are when the same generators live and own themselves.
LEMMA SameSets ==
  ASSUME \A h \in Gens : (Own(h)' <=> Own(h)) /\ gen'[h].kind = gen[h].kind
  PROVE  /\ \A h \in Gens : Children(h)' = Children(h) /\ (Live(h)' <=> Live(h))
         /\ OpenFlows' = OpenFlows
         /\ OwnFlows' = OwnFlows
<1>1. \A h \in Gens : Live(h)' <=> Live(h)
  BY DEF Live
<1>2. \A h \in Gens : Children(h)' = Children(h)
  BY <1>1, GensAssumption DEF Children
<1>3. OpenFlows' = OpenFlows
  BY DEF OpenFlows
<1>4. OwnFlows' = OwnFlows
  BY DEF OwnFlows
<1> QED
  BY <1>1, <1>2, <1>3, <1>4
-----------------------------------------------------------------------------
(* What the invariant says of the generator that is called.                 *)

\* A generator that is to start, to generate or to set its timer has not ended.
LEMMA StillGoing ==
  ASSUME GeneratorInv, NEW g \in Gens,
         On("start", g) \/ On("generateNext", g) \/ On("setTimer", g)
  PROVE  Live(g) /\ ~Ended(g) /\ ~gen[g].timer /\ Own(g) /\ gen[g].refcount > 0
<1>1. TypeOK /\ StackInOrder /\ GensInOrder
  BY DEF GeneratorInv
<1>2. Live(g)
  BY <1>1, TopCall DEF StackInOrder
<1>3. CountedRight(g)
  BY <1>1, <1>2 DEF GensInOrder
<1>4. On("setTimer", g) => Num("setTimer", g) >= 1
  <2> SUFFICES ASSUME On("setTimer", g) PROVE Num("setTimer", g) >= 1
    OBVIOUS
  <2>1. /\ Num("setTimer", g)
             = Count(Tail(calls), "setTimer", g) + One("setTimer" = "setTimer" /\ g = g)
        /\ Tail(calls) \in Seq(CallType)
    BY <1>1, TopCall
  <2>2. Count(Tail(calls), "setTimer", g) \in Nat
    BY <2>1, CountType
  <2> QED
    BY <2>1, <2>2 DEF One
<1>5. Num("setTimer", g) \in Nat
  BY <1>1, Numbers DEF Counted
<1>6. ~Ended(g) /\ ~gen[g].timer
  BY <1>3, <1>4, <1>5 DEF CountedRight, One
<1>7. Own(g)
  BY <1>2, <1>6 DEF Own, AllDone, Ended
<1> QED
  BY <1>2, <1>3, <1>6, <1>7 DEF CountedRight

\* A flow that will still complete keeps the traffic generator from being done.
LEMMA RootWaits ==
  ASSUME GeneratorInv, NEW g \in Gens, Own(g), g # Root
  PROVE  gen[Root].kind = "traffic" /\ Live(Root) /\ ~AllDone(gen[Root]) /\ gen[g].kind = "flow"
<1>1. TypeOK /\ GensInOrder /\ Root \in Gens
  BY GensAssumption DEF GeneratorInv
<1>2. gen[Root].kind = "traffic" /\ Live(Root) /\ gen[g].kind = "flow"
  BY <1>1 DEF GensInOrder, Own, Live
<1>3. g \in OpenFlows
  BY DEF OpenFlows
<1>4. Cardinality(OpenFlows) > 0
  BY <1>1, <1>3, Numbers, FS_EmptySet DEF Counted
<1>5. CountedRight(Root)
  BY <1>1, <1>2 DEF GensInOrder
<1>6. gen[Root].numGenerated \in Nat /\ gen[Root].numCompleted \in Nat
  BY <1>1 DEF TypeOK, GenType
<1>7. Cardinality(OpenFlows) \in Nat
  BY <1>1, Numbers DEF Counted
<1> QED
  BY <1>2, <1>4, <1>5, <1>6, <1>7 DEF AllDone, CountedRight, One

\* As long as a generator is not done, the generator that the driver started is not.
LEMMA RootOwns ==
  ASSUME GeneratorInv, NEW g \in Gens, Own(g)
  PROVE  Own(Root) /\ continued = 0
<1>1. Own(Root)
  BY RootWaits DEF Own
<1>2. continued \in Nat
  BY DEF GeneratorInv, TypeOK
<1> QED
  BY <1>1, <1>2 DEF GeneratorInv, DriverInformed, One
-----------------------------------------------------------------------------
(* What all steps share.                                                    *)

\* The parts make up the invariant.
LEMMA Assemble ==
  ASSUME TypeOK', StackInOrder', GensInOrder', DriverInformed'
  PROVE  GeneratorInv'
<1>1. NoneAfterEnd'
  <2> SUFFICES ASSUME calls' # <<>>, Head(calls').op = "generateNext"
               PROVE  ~gen'[Head(calls').g].reachedEndState /\ ~gen'[Head(calls').g].hasError
    BY DEF NoneAfterEnd
  <2> DEFINE g == Head(calls').g
  <2>1. calls' \in Seq(CallType)
    BY DEF TypeOK
  <2>2. 1 \in 1 .. Len(calls') /\ Head(calls') = calls'[1] /\ Head(calls') \in CallType
    BY <2>1
  <2>3. g \in Gens
    BY <2>2 DEF CallType
  <2>4. Live(Head(calls).g)'
    BY <2>2 DEF StackInOrder
  <2>5. CountedRight(Head(calls).g)'
    BY <2>3, <2>4 DEF GensInOrder
  <2>6. On("generateNext", Head(calls).g)'
    BY DEF On
  <2>7. Num("setTimer", Head(calls).g)' \in Nat
    BY <2>3, NumbersNext DEF Counted
  <2>8. ~Ended(Head(calls).g)'
    BY <2>5, <2>6, <2>7 DEF CountedRight, One
  <2> QED
    BY <2>8 DEF Ended
<1> QED
  BY <1>1 DEF GeneratorInv

\* The same generators live and own themselves, of the same kind.
SameOwners == \A h \in Gens : (Own(h)' <=> Own(h)) /\ gen'[h].kind = gen[h].kind

\* Nothing happens to h.
SameCounts(h) ==
  /\ gen'[h] = gen[h] /\ streams'[h] = streams[h]
  /\ Num("unref", h)' = Num("unref", h) /\ Num("setTimer", h)' = Num("setTimer", h)
  /\ ~On("start", h) /\ ~On("start", h)'
  /\ ~On("generateNext", h) /\ ~On("generateNext", h)'
  /\ ~On("onNotify", h) /\ (On("onNotify", h)' => gen[h].kind = "traffic" /\ ~Carries("flow")')

\* A generator to which nothing happens stays as it is.
LEMMA SameRight ==
  ASSUME SameOwners, NEW h \in Gens, SameCounts(h), Live(h), CountedRight(h)
  PROVE  CountedRight(h)'
<1>1. Children(h)' = Children(h) /\ OpenFlows' = OpenFlows
  BY SameSets DEF SameOwners
<1>2. Own(h)' <=> Own(h)
  BY DEF SameOwners
<1>3. Ended(h)' <=> Ended(h)
  BY DEF Ended, SameCounts
<1> QED
  BY <1>1, <1>2, <1>3 DEF CountedRight, SameCounts, One

\* The generators stay in order if the one that changes does.
LEMMA OthersRight ==
  ASSUME GeneratorInv, SameOwners, NEW g \in Gens, Live(g), CountedRight(g)',
         \A h \in Gens : h # g => SameCounts(h)
  PROVE  GensInOrder'
<1>1. GensInOrder /\ Root \in Gens
  BY GensAssumption DEF GeneratorInv
<1>2. ASSUME NEW h \in Gens PROVE Live(h)' => CountedRight(h)'
  <2>1. CASE h = g
    BY <2>1
  <2>2. CASE h # g
    BY <1>1, <2>2, SameRight DEF GensInOrder, SameOwners, Live
  <2> QED
    BY <2>1, <2>2
<1>3. ASSUME NEW h \in Gens, Live(h)', h # Root
      PROVE  gen'[h].kind = "flow" /\ gen'[Root].kind = "traffic"
  BY <1>1, <1>3 DEF GensInOrder, SameOwners, Live
<1>4. ASSUME NEW h \in Gens, ~Live(h)' PROVE gen'[h] = Free /\ streams'[h] = 0
  <2>1. ~Live(h) /\ h # g
    BY <1>4 DEF SameOwners, Live
  <2> QED
    BY <1>1, <2>1 DEF GensInOrder, SameCounts
<1> QED
  BY <1>2, <1>3, <1>4 DEF GensInOrder

\* What the driver counts stays as it is.
LEMMA DriverSame ==
  ASSUME GeneratorInv, SameOwners, UNCHANGED <<streams, totals, continued>>,
         WithId' <=> WithId, \A w : Carries(w)' <=> Carries(w)
  PROVE  DriverInformed'
<1>1. DriverInformed /\ Root \in Gens
  BY GensAssumption DEF GeneratorInv
<1>2. OwnFlows' = OwnFlows
  BY SameSets DEF SameOwners
<1>3. OpenStreams' = OpenStreams
  BY DEF OpenStreams
<1>4. Own(Root)' <=> Own(Root)
  BY <1>1 DEF SameOwners
<1>5. gen'[Root].kind = gen[Root].kind
  BY <1>1 DEF SameOwners
<1>6. \A w : Pending(w)' = Pending(w)
  BY DEF Pending
<1>7. (Pending("flow") = Cardinality(OwnFlows) + One(Carries("flow")))'
  BY <1>1, <1>2, <1>6 DEF DriverInformed, OwnFlows, One
<1> QED
  BY <1>1, <1>3, <1>4, <1>5, <1>6, <1>7 DEF DriverInformed, OwnFlows, WithId, One

\* Nothing is left to do for h later.
NothingLeft(h) == Num("unref", h) = 0 /\ Num("setTimer", h) = 0

\* What is left to do is left for generators that live.
StillLive == \A h \in Gens : Live(h) => Live(h)' \/ NothingLeft(h)'

\* A call in order, for the stack of the next state.
InOrder(x) ==
  /\ x \in CallType
  /\ x.op \in {"start", "generateNext", "setTimer", "unref"} => x.flags = {}
  /\ x.op \in {"onComplete", "onNotify"} =>
       \A flag \in x.flags :
         flag[1] = "stream" \/ (flag[1] = "flow" /\ gen[x.g].kind = "traffic")
  /\ x.op = "onNotify" => ~AllDone(gen[x.g])
  /\ x.op # "driver" => Live(x.g) /\ ~x.id
  /\ x.op = "driver" /\ ~x.id => Own(Root)

\* The call of op on g makes the call x.
Pushes(op, g, x) ==
  /\ calls' \in Seq(CallType)
  /\ WithId' <=> x.id
  /\ \A o, h : On(o, h) <=> (op = o /\ g = h)
  /\ \A o, h : On(o, h)' <=> (x.op = o /\ x.g = h)
  /\ \A w : Carries(w)' <=> <<w, "complete">> \in x.flags
  /\ \A o, h : Num(o, h)' = Num(o, h) + (IF x.op = o /\ x.g = h THEN 1 ELSE 0)
                                      - (IF op = o /\ g = h THEN 1 ELSE 0)
  /\ StillLive /\ InOrder(x)' => StackInOrder'

\* A call on g that makes one call.
LEMMA StepPushes ==
  ASSUME TypeOK, StackInOrder, NEW op, NEW g, On(op, g), NEW x \in CallType, Do(<<x>>)
  PROVE  Pushes(op, g, x)
<1>0. PICK t : t = Tail(calls)
  OBVIOUS
<1>1. calls' = <<x>> \o t
  BY <1>0 DEF Do
<1>2. /\ t \in Seq(CallType) /\ Quiet(t) /\ \A i \in 1 .. Len(t) : Live(t[i].g)
      /\ \A o, h : On(o, h) <=> (op = o /\ g = h)
      /\ \A o, h : Num(o, h) = Count(t, o, h) + One(op = o /\ g = h)
  BY <1>0, TopCall
<1>3. /\ calls' \in Seq(CallType)
      /\ WithId' <=> x.id
      /\ \A o, h : On(o, h)' <=> (x.op = o /\ x.g = h)
      /\ \A w : Carries(w)' <=> <<w, "complete">> \in x.flags
      /\ \A o, h : Num(o, h)' = Count(t, o, h) + One(x.op = o /\ x.g = h)
  BY <1>1, <1>2, Pushed
<1>4. \A o, h : Num(o, h)' = Num(o, h) + (IF x.op = o /\ x.g = h THEN 1 ELSE 0)
                                       - (IF op = o /\ g = h THEN 1 ELSE 0)
  <2> SUFFICES ASSUME NEW o, NEW h
               PROVE  Num(o, h)' = Num(o, h) + (IF x.op = o /\ x.g = h THEN 1 ELSE 0)
                                             - (IF op = o /\ g = h THEN 1 ELSE 0)
    OBVIOUS
  <2>1. Count(t, o, h) \in Nat
    BY <1>2, CountType
  <2>2. Num(o, h) = Count(t, o, h) + One(op = o /\ g = h)
    BY <1>2
  <2>3. Num(o, h)' = Count(t, o, h) + One(x.op = o /\ x.g = h)
    BY <1>3
  <2> QED
    BY <2>1, <2>2, <2>3 DEF One
<1>5. ASSUME StillLive, InOrder(x)' PROVE StackInOrder'
  <2>1. \A i \in 1 .. Len(t) : t[i].g \in Gens
    <3>1. \A i \in 1 .. Len(t) : t[i] \in CallType
      BY <1>2, ElementOfSeq
    <3> QED
      BY <3>1 DEF CallType
  <2>2. ASSUME NEW i \in 1 .. Len(t) PROVE Live(t[i].g)'
    <3>1. PICK o, h : o = t[i].op /\ h = t[i].g
      OBVIOUS
    <3>2. Live(h) /\ h \in Gens /\ o \in {"setTimer", "unref"}
      BY <1>2, <2>1, <3>1 DEF Quiet
    <3>3. Count(t, o, h) # 0 /\ Count(t, o, h) \in Nat
      BY <1>2, <3>1, CountZero, CountType
    <3>4. Num(o, h)' # 0
      BY <1>3, <3>3 DEF One
    <3>5. ~NothingLeft(h)'
      BY <3>2, <3>4 DEF NothingLeft
    <3> QED
      BY <1>5, <3>1, <3>2, <3>5 DEF StillLive
  <2> QED
    BY <1>1, <1>2, <1>5, <2>2, StackPushed DEF InOrder
<1> QED
  BY <1>2, <1>3, <1>4, <1>5 DEF Pushes

\* The call of op on g returns.
Returns(op, g) ==
  /\ calls' \in Seq(CallType)
  /\ ~WithId'
  /\ \A o, h : On(o, h) <=> (op = o /\ g = h)
  /\ \A o \in Ops \ {"setTimer", "unref"} : \A h : ~On(o, h)'
  /\ \A w : ~Carries(w)'
  /\ \A o, h : Num(o, h)' = Num(o, h) - (IF op = o /\ g = h THEN 1 ELSE 0)
  /\ StillLive => StackInOrder'

\* A call on g that makes no call.
LEMMA StepReturns ==
  ASSUME TypeOK, StackInOrder, NEW op, NEW g, On(op, g), Do(<<>>)
  PROVE  Returns(op, g)
<1>0. PICK t : t = Tail(calls)
  OBVIOUS
<1>1. /\ t \in Seq(CallType) /\ Quiet(t) /\ \A i \in 1 .. Len(t) : Live(t[i].g)
      /\ \A o, h : On(o, h) <=> (op = o /\ g = h)
      /\ \A o, h : Num(o, h) = Count(t, o, h) + One(op = o /\ g = h)
  BY <1>0, TopCall
<1>2. calls' = t
  BY <1>0, <1>1, ConcatEmptySeq DEF Do
<1>3. /\ calls' \in Seq(CallType) /\ ~WithId'
      /\ \A o \in Ops \ {"setTimer", "unref"} : \A h : ~On(o, h)'
      /\ \A w : ~Carries(w)'
      /\ \A o, h : Num(o, h)' = Count(t, o, h)
  BY <1>1, <1>2, Returned
<1>4. \A o, h : Num(o, h)' = Num(o, h) - (IF op = o /\ g = h THEN 1 ELSE 0)
  <2> SUFFICES ASSUME NEW o, NEW h
               PROVE  Num(o, h)' = Num(o, h) - (IF op = o /\ g = h THEN 1 ELSE 0)
    OBVIOUS
  <2>1. Count(t, o, h) \in Nat
    BY <1>1, CountType
  <2>2. Num(o, h) = Count(t, o, h) + One(op = o /\ g = h)
    BY <1>1
  <2>3. Num(o, h)' = Count(t, o, h)
    BY <1>3
  <2> QED
    BY <2>1, <2>2, <2>3 DEF One
<1>5. ASSUME StillLive PROVE StackInOrder'
  <2>1. \A i \in 1 .. Len(t) : t[i].g \in Gens
    <3>1. \A i \in 1 .. Len(t) : t[i] \in CallType
      BY <1>1, ElementOfSeq
    <3> QED
      BY <3>1 DEF CallType
  <2>2. ASSUME NEW i \in 1 .. Len(t) PROVE Live(t[i].g)'
    <3>1. PICK o, h : o = t[i].op /\ h = t[i].g
      OBVIOUS
    <3>2. Live(h) /\ h \in Gens /\ o \in {"setTimer", "unref"}
      BY <1>1, <2>1, <3>1 DEF Quiet
    <3>3. Count(t, o, h) # 0
      BY <1>1, <3>1, CountZero
    <3>4. Num(o, h)' # 0
      BY <1>3, <3>3
    <3>5. ~NothingLeft(h)'
      BY <3>2, <3>4 DEF NothingLeft
    <3> QED
      BY <1>5, <3>1, <3>2, <3>5 DEF StillLive
  <2> QED
    BY <1>1, <1>2, <2>2, StackReturned
<1> QED
  BY <1>1, <1>3, <1>4, <1>5 DEF Returns

\* A timer to set or a reference to drop, for after a call.
Later(y) == y \in CallType /\ y.op \in {"setTimer", "unref"} /\ y.flags = {} /\ ~y.id

\* The stack r is t with y on top, and x comes above.
Beneath(r, x, y, t) ==
  /\ r \in Seq(CallType) /\ Quiet(r) /\ <<x, y>> \o t = <<x>> \o r
  /\ \A i \in 1 .. Len(r) : r[i] = y \/ \E j \in 1 .. Len(t) : r[i] = t[j]
  /\ \A o, h : Count(r, o, h) = Count(t, o, h) + One(y.op = o /\ y.g = h)

\* What is done later comes on top of what was left to do.
LEMMA LaterPushed ==
  ASSUME NEW y, Later(y), NEW t \in Seq(CallType), Quiet(t), NEW x \in CallType,
         NEW r, r = <<y>> \o t
  PROVE  Beneath(r, x, y, t)
<1>1. y \in CallType
  BY DEF Later
<1>2. /\ r \in Seq(CallType) /\ Len(r) = Len(t) + 1 /\ r[1] = y
      /\ \A i \in 1 .. Len(t) : r[i + 1] = t[i]
  BY <1>1, Pushing
<1>3. <<x, y>> = <<x>> \o <<y>> /\ <<x>> \in Seq(CallType) /\ <<y>> \in Seq(CallType)
  BY <1>1
<1>4. <<x, y>> \o t = <<x>> \o r
  BY <1>3, ConcatAssociative
<1>5. \A o, h : Count(r, o, h) = Count(t, o, h) + One(y.op = o /\ y.g = h)
  <2>1. \A o, h : Count(<<y>> \o t, o, h) = Count(t, o, h) + One(y.op = o /\ y.g = h)
    BY <1>1, CountPush
  <2> QED
    BY <2>1, Zenon
<1>6. ASSUME NEW i \in 1 .. Len(r) PROVE r[i] = y \/ \E j \in 1 .. Len(t) : r[i] = t[j]
  <2>1. CASE i = 1
    BY <1>2, <2>1
  <2>2. CASE i # 1
    <3>1. i - 1 \in 1 .. Len(t) /\ (i - 1) + 1 = i
      BY <1>2, <2>2
    <3> QED
      BY <1>2, <3>1
  <2> QED
    BY <2>1, <2>2
<1>7. Quiet(r)
  BY <1>6 DEF Quiet, Later
<1> QED
  BY <1>2, <1>4, <1>5, <1>6, <1>7 DEF Beneath

\* The call of op on g makes the call x, and y comes after it.
PushesTwo(op, g, x, y) ==
  /\ calls' \in Seq(CallType)
  /\ WithId' <=> x.id
  /\ \A o, h : On(o, h) <=> (op = o /\ g = h)
  /\ \A o, h : On(o, h)' <=> (x.op = o /\ x.g = h)
  /\ \A w : Carries(w)' <=> <<w, "complete">> \in x.flags
  /\ \A o, h : Num(o, h)' = Num(o, h) + (IF x.op = o /\ x.g = h THEN 1 ELSE 0)
                                      + (IF y.op = o /\ y.g = h THEN 1 ELSE 0)
                                      - (IF op = o /\ g = h THEN 1 ELSE 0)
  /\ (\A h \in Gens : Live(h) => Live(h)') /\ InOrder(x)' /\ Live(y.g)' => StackInOrder'

\* A call on g that makes a call, with something to do after it.
LEMMA StepPushesTwo ==
  ASSUME TypeOK, StackInOrder, NEW op, NEW g, On(op, g), NEW x \in CallType, NEW y, Later(y),
         Do(<<x, y>>)
  PROVE  PushesTwo(op, g, x, y)
<1>0. PICK t : t = Tail(calls)
  OBVIOUS
<1>1. /\ t \in Seq(CallType) /\ Quiet(t) /\ \A i \in 1 .. Len(t) : Live(t[i].g)
      /\ \A o, h : On(o, h) <=> (op = o /\ g = h)
      /\ \A o, h : Num(o, h) = Count(t, o, h) + One(op = o /\ g = h)
  BY <1>0, TopCall
<1>2. PICK r : r = <<y>> \o t
  OBVIOUS
<1>3. /\ r \in Seq(CallType) /\ Quiet(r) /\ <<x, y>> \o t = <<x>> \o r
      /\ \A i \in 1 .. Len(r) : r[i] = y \/ \E j \in 1 .. Len(t) : r[i] = t[j]
      /\ \A o, h : Count(r, o, h) = Count(t, o, h) + One(y.op = o /\ y.g = h)
  <2>1. Beneath(r, x, y, t)
    BY <1>1, <1>2, LaterPushed
  <2> QED
    BY <2>1 DEF Beneath
<1>4. calls' = <<x>> \o r
  BY <1>0, <1>3 DEF Do
<1>5. /\ calls' \in Seq(CallType)
      /\ WithId' <=> x.id
      /\ \A o, h : On(o, h)' <=> (x.op = o /\ x.g = h)
      /\ \A w : Carries(w)' <=> <<w, "complete">> \in x.flags
      /\ \A o, h : Num(o, h)' = Count(r, o, h) + One(x.op = o /\ x.g = h)
  BY <1>3, <1>4, Pushed
<1>6. \A o, h : Num(o, h)' = Num(o, h) + (IF x.op = o /\ x.g = h THEN 1 ELSE 0)
                                       + (IF y.op = o /\ y.g = h THEN 1 ELSE 0)
                                       - (IF op = o /\ g = h THEN 1 ELSE 0)
  <2> SUFFICES ASSUME NEW o, NEW h
               PROVE  Num(o, h)' = Num(o, h) + (IF x.op = o /\ x.g = h THEN 1 ELSE 0)
                                             + (IF y.op = o /\ y.g = h THEN 1 ELSE 0)
                                             - (IF op = o /\ g = h THEN 1 ELSE 0)
    OBVIOUS
  <2>1. Count(t, o, h) \in Nat
    BY <1>1, CountType
  <2>2. Num(o, h) = Count(t, o, h) + One(op = o /\ g = h)
    BY <1>1
  <2>3. Count(r, o, h) = Count(t, o, h) + One(y.op = o /\ y.g = h)
    BY <1>3
  <2>4. Num(o, h)' = Count(r, o, h) + One(x.op = o /\ x.g = h)
    BY <1>5
  <2> QED
    BY <2>1, <2>2, <2>3, <2>4 DEF One
<1>7. ASSUME \A h \in Gens : Live(h) => Live(h)', InOrder(x)', Live(y.g)' PROVE StackInOrder'
  <2>1. \A i \in 1 .. Len(t) : t[i].g \in Gens
    <3>1. \A i \in 1 .. Len(t) : t[i] \in CallType
      BY <1>1, ElementOfSeq
    <3> QED
      BY <3>1 DEF CallType
  <2>2. \A i \in 1 .. Len(r) : Live(r[i].g)'
    BY <1>1, <1>3, <1>7, <2>1
  <2> QED
    BY <1>3, <1>4, <1>7, <2>2, StackPushed DEF InOrder
<1> QED
  BY <1>1, <1>5, <1>6, <1>7 DEF PushesTwo

\* An event makes the call x, and y comes after it.
Handles(x, y) ==
  /\ calls' \in Seq(CallType)
  /\ ~WithId
  /\ WithId' <=> x.id
  /\ \A o, h : ~On(o, h)
  /\ \A o, h : On(o, h)' <=> (x.op = o /\ x.g = h)
  /\ \A w : ~Carries(w)
  /\ \A w : Carries(w)' <=> <<w, "complete">> \in x.flags
  /\ \A o, h : Num(o, h) = 0
  /\ \A o, h : Num(o, h)' = (IF x.op = o /\ x.g = h THEN 1 ELSE 0)
                              + (IF y.op = o /\ y.g = h THEN 1 ELSE 0)
  /\ (\A h \in Gens : Live(h) => Live(h)') /\ InOrder(x)' /\ Live(y.g)' => StackInOrder'

\* An event makes a call, and drops a reference after it.
LEMMA EventPushes ==
  ASSUME TypeOK, calls = <<>>, NEW x \in CallType, NEW y, Later(y), calls' = <<x, y>>
  PROVE  Handles(x, y)
<1>1. PICK t : t = <<>>
  OBVIOUS
<1>2. t \in Seq(CallType) /\ Len(t) = 0 /\ Quiet(t)
  BY <1>1 DEF Quiet
<1>3. PICK r : r = <<y>> \o t
  OBVIOUS
<1>4. /\ r \in Seq(CallType) /\ Quiet(r) /\ <<x, y>> \o t = <<x>> \o r
      /\ \A i \in 1 .. Len(r) : r[i] = y \/ \E j \in 1 .. Len(t) : r[i] = t[j]
      /\ \A o, h : Count(r, o, h) = Count(t, o, h) + One(y.op = o /\ y.g = h)
  <2>1. Beneath(r, x, y, t)
    BY <1>2, <1>3, LaterPushed
  <2> QED
    BY <2>1 DEF Beneath
<1>5. <<x, y>> \in Seq(CallType)
  BY DEF Later
<1>6. calls' = <<x>> \o r
  BY <1>1, <1>4, <1>5, ConcatEmptySeq
<1>7. /\ calls' \in Seq(CallType)
      /\ WithId' <=> x.id
      /\ \A o, h : On(o, h)' <=> (x.op = o /\ x.g = h)
      /\ \A w : Carries(w)' <=> <<w, "complete">> \in x.flags
      /\ \A o, h : Num(o, h)' = Count(r, o, h) + One(x.op = o /\ x.g = h)
  BY <1>4, <1>6, Pushed
<1>8. ASSUME NEW o, NEW h PROVE Count(t, o, h) = 0
  <2>1. \A i \in 1 .. Len(t) : ~(t[i].op = o /\ t[i].g = h)
    BY <1>2
  <2> QED
    BY <1>2, <2>1, CountZero
<1>9. \A o, h : Num(o, h) = 0
  BY <1>1, <1>8, NumIsCount
<1>10. \A o, h : Num(o, h)' = (IF x.op = o /\ x.g = h THEN 1 ELSE 0)
                                + (IF y.op = o /\ y.g = h THEN 1 ELSE 0)
  <2> SUFFICES ASSUME NEW o, NEW h
               PROVE  Num(o, h)' = (IF x.op = o /\ x.g = h THEN 1 ELSE 0)
                                     + (IF y.op = o /\ y.g = h THEN 1 ELSE 0)
    OBVIOUS
  <2>1. Count(r, o, h) = Count(t, o, h) + One(y.op = o /\ y.g = h)
    BY <1>4
  <2>2. Num(o, h)' = Count(r, o, h) + One(x.op = o /\ x.g = h)
    BY <1>7
  <2> QED
    BY <1>8, <2>1, <2>2 DEF One
<1>11. ~WithId /\ (\A o, h : ~On(o, h)) /\ (\A w : ~Carries(w))
  BY DEF WithId, On, Carries
<1>12. ASSUME \A h \in Gens : Live(h) => Live(h)', InOrder(x)', Live(y.g)' PROVE StackInOrder'
  <2>1. \A i \in 1 .. Len(r) : Live(r[i].g)'
    BY <1>2, <1>4, <1>12
  <2> QED
    BY <1>4, <1>6, <1>12, <2>1, StackPushed DEF InOrder
<1> QED
  BY <1>7, <1>9, <1>10, <1>11, <1>12 DEF Handles
-----------------------------------------------------------------------------
(* The steps.                                                               *)

\* Calls of a generator on itself.
LEMMA CallFields ==
  ASSUME NEW op \in Ops, NEW g \in Gens
  PROVE  /\ Call(op, g) \in CallType
         /\ Call(op, g).op = op /\ Call(op, g).g = g
         /\ Call(op, g).flags = {} /\ ~Call(op, g).id
BY DEF Call, CallWith, CallType, Ops

\* Only g changes, and its kind does not.
OnlyG(g) ==
  /\ gen' \in [Gens -> GenType]
  /\ \A h \in Gens : h # g => gen'[h] = gen[h]
  /\ gen'[g].kind = gen[g].kind

\* The rest of g stays as it is when only its end and its observations change.
SameFields(g) ==
  /\ gen'[g].numGenerated = gen[g].numGenerated
  /\ gen'[g].numCompleted = gen[g].numCompleted
  /\ gen'[g].refcount = gen[g].refcount
  /\ gen'[g].timer = gen[g].timer

\* News come only to onComplete, onNotify and the driver.
LEMMA NoNews ==
  ASSUME TypeOK, StackInOrder, NEW op \in {"start", "generateNext", "setTimer", "unref"},
         NEW g, On(op, g)
  PROVE  ~WithId /\ \A w : ~Carries(w)
<1>1. /\ calls # <<>> /\ Head(calls) = calls[1] /\ 1 \in 1 .. Len(calls) /\ Head(calls).op = op
  BY TopCall
<1>2. Head(calls).flags = {} /\ ~Head(calls).id
  BY <1>1 DEF StackInOrder
<1> QED
  BY <1>2 DEF WithId, Carries

\* A generator on which a call to start, generate or set the timer ends, and completes.
LEMMA EndKeeps ==
  ASSUME GeneratorInv, NEW g \in Gens, NEW op \in {"start", "generateNext", "setTimer"},
         On(op, g), Do(<<Call("onComplete", g)>>), OnlyG(g), SameFields(g), Ended(g)',
         UNCHANGED <<streams, totals, continued>>
  PROVE  GeneratorInv'
<1>1. TypeOK /\ StackInOrder /\ GensInOrder
  BY DEF GeneratorInv
<1>2. Live(g) /\ ~Ended(g) /\ ~gen[g].timer /\ Own(g)
  BY <1>1, StillGoing
<1>3. PICK x : x = Call("onComplete", g)
  OBVIOUS
<1>4. x \in CallType /\ x.op = "onComplete" /\ x.g = g /\ x.flags = {} /\ ~x.id
  BY <1>3, CallFields DEF Ops
<1>5. Pushes(op, g, x)
  BY <1>1, <1>3, <1>4, StepPushes
<1>6. TypeOK'
  BY <1>1, <1>5 DEF TypeOK, OnlyG, Pushes
<1>7. SameOwners
  <2>1. Own(g)'
    BY <1>2, <1>4, <1>5 DEF Own, Live, Pushes, OnlyG
  <2>2. ASSUME NEW h \in Gens, h # g PROVE Own(h)' <=> Own(h)
    BY <1>4, <1>5, <2>2 DEF Own, Live, Pushes, OnlyG
  <2> QED
    BY <1>2, <2>1, <2>2 DEF SameOwners, OnlyG
<1>8. Children(g)' = Children(g) /\ OpenFlows' = OpenFlows /\ \A h \in Gens : Live(h) => Live(h)'
  BY <1>7, SameSets DEF SameOwners
<1>9. CountedRight(g)'
  <2>1. CountedRight(g) /\ Num("unref", g) \in Nat /\ Num("setTimer", g) \in Nat
    BY <1>1, <1>2, Numbers DEF GensInOrder, Counted
  <2>2. Own(g)' /\ ~On("onNotify", g) /\ ~On("onNotify", g)'
    BY <1>2, <1>4, <1>5, <1>7 DEF SameOwners, Pushes
  <2>3. ~On("start", g)' /\ ~On("generateNext", g)'
    BY <1>4, <1>5 DEF Pushes
  <2>4. Num("unref", g)' = Num("unref", g)
    BY <1>4, <1>5, <2>1 DEF Pushes
  <2>5. One(On("start", g)) + One(On("generateNext", g)) + Num("setTimer", g)
          = Num("setTimer", g)' + 1
    BY <1>4, <1>5, <2>1 DEF Pushes, One
  <2>6. Num("setTimer", g)' = 0
    BY <1>2, <1>4, <1>5, <2>1, <2>5 DEF Pushes, CountedRight, One
  <2> QED
    BY <1>2, <1>8, <2>1, <2>2, <2>3, <2>4, <2>6 DEF CountedRight, One, SameFields, OnlyG
<1>10. \A h \in Gens : h # g => SameCounts(h)
  BY <1>1, <1>4, <1>5, Numbers DEF SameCounts, Counted, Pushes, OnlyG
<1>11. GensInOrder'
  BY <1>2, <1>7, <1>9, <1>10, OthersRight
<1>12. StackInOrder'
  <2>1. InOrder(x)'
    BY <1>2, <1>4, <1>8 DEF InOrder
  <2> QED
    BY <1>5, <1>8, <2>1 DEF Pushes, StillLive
<1>13. DriverInformed'
  BY <1>1, <1>4, <1>5, <1>7, NoNews, DriverSame DEF Pushes
<1> QED
  BY <1>6, <1>11, <1>12, <1>13, Assemble

\* A generator goes on: from start to the first observation, or to its timer.
LEMMA GoOnKeeps ==
  ASSUME GeneratorInv, NEW g \in Gens, NEW op \in {"start", "generateNext"},
         NEW new \in {"generateNext", "setTimer"}, op # new,
         On(op, g), Do(<<Call(new, g)>>), OnlyG(g), SameFields(g), ~Ended(g)',
         UNCHANGED <<streams, totals, continued>>
  PROVE  GeneratorInv'
<1>1. TypeOK /\ StackInOrder /\ GensInOrder
  BY DEF GeneratorInv
<1>2. Live(g) /\ ~Ended(g) /\ ~gen[g].timer /\ Own(g)
  BY <1>1, StillGoing
<1>3. PICK x : x = Call(new, g)
  OBVIOUS
<1>4. x \in CallType /\ x.op = new /\ x.g = g /\ x.flags = {} /\ ~x.id
  BY <1>3, CallFields DEF Ops
<1>5. Pushes(op, g, x)
  BY <1>1, <1>3, <1>4, StepPushes
<1>6. TypeOK'
  BY <1>1, <1>5 DEF TypeOK, OnlyG, Pushes
<1>7. SameOwners
  <2>1. Own(g)'
    BY <1>2 DEF Own, Live, OnlyG, AllDone, Ended
  <2>2. ASSUME NEW h \in Gens, h # g PROVE Own(h)' <=> Own(h)
    BY <1>4, <1>5, <2>2 DEF Own, Live, Pushes, OnlyG
  <2> QED
    BY <1>2, <2>1, <2>2 DEF SameOwners, OnlyG
<1>8. Children(g)' = Children(g) /\ OpenFlows' = OpenFlows /\ \A h \in Gens : Live(h) => Live(h)'
  BY <1>7, SameSets DEF SameOwners
<1>9. CountedRight(g)'
  <2>1. CountedRight(g) /\ Num("unref", g) \in Nat /\ Num("setTimer", g) \in Nat
    BY <1>1, <1>2, Numbers DEF GensInOrder, Counted
  <2>2. Own(g)' /\ ~On("onNotify", g) /\ ~On("onNotify", g)'
    BY <1>2, <1>4, <1>5, <1>7 DEF SameOwners, Pushes
  <2>3. Num("unref", g)' = Num("unref", g)
    BY <1>4, <1>5, <2>1 DEF Pushes
  <2>4. One(On("start", g)) + One(On("generateNext", g)) + Num("setTimer", g)
          = One(On("start", g)') + One(On("generateNext", g)') + Num("setTimer", g)'
    BY <1>4, <1>5, <2>1 DEF Pushes, One
  <2>5. /\ Num("setTimer", g)' \in Nat
        /\ One(On("start", g)') + One(On("generateNext", g)') + Num("setTimer", g)' = 1
    BY <1>2, <1>4, <1>5, <2>1, <2>4 DEF Pushes, CountedRight, One
  <2>6. One(Ended(g)') = 0 /\ One(gen'[g].timer) = 0
    BY <1>2 DEF One, SameFields
  <2>7. One(Ended(g)') + One(gen'[g].timer) + One(On("start", g)') + One(On("generateNext", g)')
          + Num("setTimer", g)' = 1
    BY <2>5, <2>6 DEF One
  <2> QED
    BY <1>2, <1>8, <2>1, <2>2, <2>3, <2>7 DEF CountedRight, One, SameFields, OnlyG
<1>10. \A h \in Gens : h # g => SameCounts(h)
  BY <1>1, <1>4, <1>5, Numbers DEF SameCounts, Counted, Pushes, OnlyG
<1>11. GensInOrder'
  BY <1>2, <1>7, <1>9, <1>10, OthersRight
<1>12. StackInOrder'
  <2>1. InOrder(x)'
    BY <1>2, <1>4, <1>8 DEF InOrder
  <2> QED
    BY <1>5, <1>8, <2>1 DEF Pushes, StillLive
<1>13. DriverInformed'
  BY <1>1, <1>4, <1>5, <1>7, NoNews, DriverSame DEF Pushes
<1> QED
  BY <1>6, <1>11, <1>12, <1>13, Assemble

\* The end of the model.
LEMMA endObservedKeeps ==
  ASSUME GeneratorInv, NEW g \in Gens, endObserved(g)
  PROVE  GeneratorInv'
<1>1. OnlyG(g) /\ SameFields(g) /\ Ended(g)'
  BY DEF GeneratorInv, TypeOK, GenType, endObserved, OnlyG, SameFields, Ended
<1> QED
  BY <1>1, EndKeeps DEF endObserved

\* The driver's counters are numbers, also when one is created more.
LEMMA CreatedType ==
  ASSUME NEW tot \in [Things -> [created : Nat, success : Nat, error : Nat]], NEW w \in Things
  PROVE  Created(tot, w) \in [Things -> [created : Nat, success : Nat, error : Nat]]
<1>1. [tot[w] EXCEPT !.created = @ + 1] \in [created : Nat, success : Nat, error : Nat]
  OBVIOUS
<1>2. Created(tot, w) = [tot EXCEPT ![w] = [tot[w] EXCEPT !.created = @ + 1]]
  BY DEF Created
<1> QED
  BY <1>1, <1>2

\* The driver hears of a stream that starts.
LEMMA DriverHears ==
  ASSUME GeneratorInv, SameOwners, NEW g \in Gens,
         streams' = [streams EXCEPT ![g] = @ + 1], totals' = Created(totals, "stream"),
         continued' = continued, ~WithId, ~WithId', \A w : ~Carries(w) /\ ~Carries(w)'
  PROVE  DriverInformed'
<1>1. DriverInformed /\ TypeOK /\ Root \in Gens
  BY GensAssumption DEF GeneratorInv
<1>2. OwnFlows' = OwnFlows
  BY SameSets DEF SameOwners
<1>3. (Own(Root)' <=> Own(Root)) /\ gen'[Root].kind = gen[Root].kind
  BY <1>1 DEF SameOwners
<1>4. /\ totals["stream"].created \in Nat /\ totals["stream"].success \in Nat
      /\ totals["stream"].error \in Nat
  BY <1>1 DEF TypeOK, Things
<1>5. /\ totals'["traffic"] = totals["traffic"] /\ totals'["flow"] = totals["flow"]
      /\ totals'["stream"].created = totals["stream"].created + 1
      /\ totals'["stream"].success = totals["stream"].success
      /\ totals'["stream"].error = totals["stream"].error
  BY <1>1 DEF TypeOK, Things, Created
<1>6. /\ Pending("traffic")' = Pending("traffic") /\ Pending("flow")' = Pending("flow")
      /\ Pending("stream")' = Pending("stream") + 1
  BY <1>4, <1>5 DEF Pending
<1>7. Cardinality(OpenStreams)' = Cardinality(OpenStreams) + 1
  <2>1. OpenStreams = StreamsOf(streams) /\ OpenStreams' = StreamsOf(streams')
    BY DEF OpenStreams, StreamsOf
  <2>2. streams \in [Gens -> Nat]
    BY <1>1 DEF TypeOK
  <2> QED
    BY <2>1, <2>2, StreamMore
<1>8. Cardinality(OpenStreams) \in Nat
  BY <1>1, Numbers DEF Counted
<1>9. (Pending("flow") = Cardinality(OwnFlows) + One(Carries("flow")))'
  BY <1>1, <1>2, <1>6 DEF DriverInformed, OwnFlows, One
<1>10. (Pending("stream") = Cardinality(OpenStreams) + One(Carries("stream")))'
  BY <1>1, <1>6, <1>7, <1>8 DEF DriverInformed, One
<1> QED
  BY <1>1, <1>3, <1>6, <1>9, <1>10 DEF DriverInformed, OwnFlows, WithId, One

\* A stream starts, after which the generator sets its timer or has ended.
LEMMA StreamKeeps ==
  ASSUME GeneratorInv, NEW g \in Gens, NEW op \in {"start", "generateNext"}, On(op, g),
         gen[g].kind # "traffic", OnlyG(g),
         gen'[g].numGenerated = gen[g].numGenerated + 1,
         gen'[g].numCompleted = gen[g].numCompleted,
         gen'[g].refcount = gen[g].refcount + 1,
         gen'[g].timer = gen[g].timer,
         streams' = [streams EXCEPT ![g] = @ + 1], totals' = Created(totals, "stream"),
         continued' = continued,
         \/ Do(<<>>) /\ Ended(g)'
         \/ op = "generateNext" /\ Do(<<Call("setTimer", g)>>) /\ ~Ended(g)'
  PROVE  GeneratorInv'
<1>1. TypeOK /\ StackInOrder /\ GensInOrder
  BY DEF GeneratorInv
<1>2. Live(g) /\ ~Ended(g) /\ ~gen[g].timer /\ Own(g)
  BY <1>1, StillGoing
<1>3. CountedRight(g) /\ Num("unref", g) \in Nat /\ Num("setTimer", g) \in Nat
  BY <1>1, <1>2, Numbers DEF GensInOrder, Counted
<1>4. /\ calls' \in Seq(CallType) /\ ~WithId'
      /\ \A o, h : On(o, h) <=> (op = o /\ g = h)
      /\ \A h : ~On("start", h)' /\ ~On("generateNext", h)' /\ ~On("onNotify", h)'
                  /\ ~On("onComplete", h)'
      /\ \A w : ~Carries(w)'
      /\ \A h \in Gens : Num("unref", h)' = Num("unref", h)
      /\ \A h \in Gens : h # g => Num("setTimer", h)' = Num("setTimer", h)
      /\ One(Ended(g)') + Num("setTimer", g)' = 1 + Num("setTimer", g)
      /\ (\A h \in Gens : Live(h) => Live(h)') => StackInOrder'
  <2>1. CASE Do(<<>>) /\ Ended(g)'
    <3>1. Returns(op, g)
      BY <1>1, <2>1, StepReturns
    <3> QED
      BY <1>1, <1>3, <2>1, <3>1, Numbers DEF Returns, Counted, Ops, One, StillLive
  <2>2. CASE op = "generateNext" /\ Do(<<Call("setTimer", g)>>) /\ ~Ended(g)'
    <3>1. PICK x : x = Call("setTimer", g)
      OBVIOUS
    <3>2. x \in CallType /\ x.op = "setTimer" /\ x.g = g /\ x.flags = {} /\ ~x.id
      BY <3>1, CallFields DEF Ops
    <3>3. Pushes(op, g, x)
      BY <1>1, <2>2, <3>1, <3>2, StepPushes
    <3>4. (\A h \in Gens : Live(h) => Live(h)') => InOrder(x)'
      BY <1>2, <3>2 DEF InOrder
    <3>5. (\A h \in Gens : Live(h) => Live(h)') => StackInOrder'
      BY <3>3, <3>4 DEF Pushes, StillLive
    <3>6. \A o, h : Num(o, h)' = Num(o, h) + (IF "setTimer" = o /\ g = h THEN 1 ELSE 0)
                                            - (IF "generateNext" = o /\ g = h THEN 1 ELSE 0)
      BY <2>2, <3>2, <3>3 DEF Pushes
    <3>7. \A h \in Gens : Num("unref", h) \in Nat /\ Num("setTimer", h) \in Nat
      BY <1>1, Numbers DEF Counted
    <3>8. \A h \in Gens : Num("unref", h)' = Num("unref", h)
      BY <3>6, <3>7
    <3>9. \A h \in Gens : h # g => Num("setTimer", h)' = Num("setTimer", h)
      BY <3>6, <3>7
    <3>10. Num("setTimer", g)' = Num("setTimer", g) + 1
      BY <3>6, <3>7
    <3>11. One(Ended(g)') + Num("setTimer", g)' = 1 + Num("setTimer", g)
      BY <1>3, <2>2, <3>10 DEF One
    <3> QED
      BY <2>2, <3>2, <3>3, <3>5, <3>8, <3>9, <3>11 DEF Pushes
  <2> QED
    BY <2>1, <2>2
<1>5. TypeOK'
  <2>1. streams' \in [Gens -> Nat]
    BY <1>1 DEF TypeOK
  <2>2. totals' \in [Things -> [created : Nat, success : Nat, error : Nat]]
    BY <1>1, CreatedType DEF TypeOK, Things
  <2> QED
    BY <1>1, <1>4, <2>1, <2>2 DEF TypeOK, OnlyG
<1>6. /\ streams'[g] = streams[g] + 1 /\ streams[g] \in Nat
      /\ \A h \in Gens : h # g => streams'[h] = streams[h]
  BY <1>1 DEF TypeOK
<1>7. /\ gen[g].numGenerated \in Nat /\ gen[g].numCompleted \in Nat /\ gen[g].refcount \in Nat
  <2>1. gen[g] \in GenType
    BY <1>1 DEF TypeOK
  <2> QED
    BY <2>1 DEF GenType
<1>8. SameOwners
  <2>1. gen[g].numGenerated >= gen[g].numCompleted
    <3>1. One(On("onNotify", g) /\ Carries("stream")) \in Nat
      BY DEF One
    <3>2. gen[g].numGenerated = gen[g].numCompleted + streams[g]
                                  + One(On("onNotify", g) /\ Carries("stream"))
      BY <1>3 DEF CountedRight
    <3> QED
      BY <1>6, <1>7, <3>1, <3>2
  <2>2. ~AllDone(gen'[g])
    BY <1>7, <2>1 DEF AllDone
  <2>3. Own(g)'
    BY <1>2, <2>2 DEF Own, Live, OnlyG
  <2>4. ASSUME NEW h \in Gens, h # g PROVE Own(h)' <=> Own(h)
    BY <1>4, <2>4 DEF Own, Live, OnlyG
  <2> QED
    BY <1>2, <2>3, <2>4 DEF SameOwners, OnlyG
<1>9. Children(g)' = Children(g) /\ OpenFlows' = OpenFlows /\ \A h \in Gens : Live(h) => Live(h)'
  BY <1>8, SameSets DEF SameOwners
<1>10. CountedRight(g)'
  <2>1. Own(g)' /\ ~On("onNotify", g) /\ ~On("onNotify", g)'
    BY <1>2, <1>4, <1>8 DEF SameOwners
  <2>2. Num("unref", g)' = Num("unref", g) /\ Cardinality(Children(g)) \in Nat
    BY <1>1, <1>4, Numbers DEF Counted
  <2>3. One(On("start", g)) + One(On("generateNext", g)) = 1
    BY <1>4 DEF One
  <2>4. Num("setTimer", g) = 0
    BY <1>2, <1>3, <2>3 DEF CountedRight, One
  <2>5. One(Ended(g)') + One(gen'[g].timer) + One(On("start", g)') + One(On("generateNext", g)')
          + Num("setTimer", g)' = 1
    BY <1>2, <1>4, <2>4 DEF One
  <2>6. gen'[g].refcount = One(Own(g)') + One(gen'[g].timer) + streams'[g]
                             + Cardinality(Children(g)') + Num("unref", g)'
    BY <1>2, <1>3, <1>6, <1>7, <1>9, <2>1, <2>2 DEF CountedRight, One
  <2>7. gen'[g].kind # "traffic" /\ gen'[g].refcount > 0
    BY <1>7 DEF OnlyG
  <2>8. gen'[g].numGenerated = gen'[g].numCompleted + streams'[g]
    <3>1. One(On("onNotify", g) /\ Carries("stream")) = 0
      BY <2>1 DEF One
    <3>2. gen[g].numGenerated = gen[g].numCompleted + streams[g]
                                  + One(On("onNotify", g) /\ Carries("stream"))
      BY <1>3 DEF CountedRight
    <3>3. gen[g].numGenerated = gen[g].numCompleted + streams[g]
      BY <1>6, <1>7, <3>1, <3>2
    <3> QED
      BY <1>6, <1>7, <3>3
  <2>9. streams'[g] \in Nat /\ gen'[g].numCompleted \in Nat
    BY <1>6, <1>7
  <2>10. gen'[g].numGenerated = gen'[g].numCompleted + streams'[g]
                                  + One(On("onNotify", g)' /\ Carries("stream")')
    BY <2>1, <2>8, <2>9 DEF One
  <2> QED
    BY <2>5, <2>6, <2>7, <2>10 DEF CountedRight
<1>11. \A h \in Gens : h # g => SameCounts(h)
  BY <1>4, <1>6 DEF SameCounts, OnlyG
<1>12. GensInOrder'
  BY <1>2, <1>8, <1>10, <1>11, OthersRight
<1>13. StackInOrder'
  BY <1>4, <1>9
<1>14. DriverInformed'
  BY <1>1, <1>4, <1>8, NoNews, DriverHears
<1> QED
  BY <1>5, <1>12, <1>13, <1>14, Assemble

\* A generator with a new record.
LEMMA NewRecord ==
  ASSUME gen \in [Gens -> GenType], NEW g \in Gens, NEW n \in GenType, n.kind = gen[g].kind,
         gen' = [gen EXCEPT ![g] = n]
  PROVE  OnlyG(g) /\ gen'[g] = n
BY DEF OnlyG

\* tgengenerator_start
LEMMA startKeeps ==
  ASSUME GeneratorInv, NEW g \in Gens, start(g)
  PROVE  GeneratorInv'
<1>1. TypeOK /\ On("start", g) /\ continued' = continued
  BY DEF GeneratorInv, start
<1>2. ~Ended(g)
  BY <1>1, StillGoing
<1>3. gen \in [Gens -> GenType]
  BY <1>1 DEF TypeOK
<1>4. CASE gen[g].kind # "stream"
  <2>1. Do(<<Call("generateNext", g)>>) /\ UNCHANGED <<gen, streams, totals>>
    BY <1>4 DEF start
  <2>2. OnlyG(g) /\ SameFields(g) /\ ~Ended(g)'
    BY <1>2, <1>3, <2>1 DEF OnlyG, SameFields, Ended
  <2> QED
    BY <1>1, <2>1, <2>2, GoOnKeeps
<1>5. CASE gen[g].kind = "stream"
  <2>1. PICK ok \in Succeeds :
          IF ok
          THEN StreamStarts(g, [gen[g] EXCEPT !.reachedEndState = TRUE]) /\ Do(<<>>)
          ELSE /\ StreamFailsToStart(g, [gen[g] EXCEPT !.hasError = TRUE])
               /\ Do(<<Call("onComplete", g)>>)
    BY <1>5 DEF start
  <2>2. CASE ok
    <3>1. /\ Do(<<>>)
          /\ gen' = [gen EXCEPT ![g] =
               [[gen[g] EXCEPT !.reachedEndState = TRUE]
                  EXCEPT !.numGenerated = @ + 1, !.refcount = @ + 1]]
          /\ streams' = [streams EXCEPT ![g] = @ + 1]
          /\ totals' = Created(totals, "stream")
      BY <2>1, <2>2 DEF StreamStarts
    <3>2. /\ OnlyG(g) /\ Ended(g)'
          /\ gen'[g].numGenerated = gen[g].numGenerated + 1
          /\ gen'[g].numCompleted = gen[g].numCompleted
          /\ gen'[g].refcount = gen[g].refcount + 1
          /\ gen'[g].timer = gen[g].timer
      <4> DEFINE n == [[gen[g] EXCEPT !.reachedEndState = TRUE]
                          EXCEPT !.numGenerated = @ + 1, !.refcount = @ + 1]
      <4>1. /\ n \in GenType /\ n.kind = gen[g].kind /\ n.reachedEndState
            /\ n.numGenerated = gen[g].numGenerated + 1
            /\ n.numCompleted = gen[g].numCompleted
            /\ n.refcount = gen[g].refcount + 1
            /\ n.timer = gen[g].timer
        <5>1. gen[g] \in GenType
          BY <1>3
        <5>2. gen[g].numGenerated + 1 \in Nat /\ gen[g].refcount + 1 \in Nat
          BY <5>1 DEF GenType
        <5>3. n \in GenType
          BY <5>1, <5>2 DEF GenType
        <5> QED
          BY <5>1, <5>3 DEF GenType
      <4>2. gen' = [gen EXCEPT ![g] = n]
        BY <3>1
      <4> HIDE DEF n
      <4>3. OnlyG(g) /\ gen'[g] = n
        BY <1>3, <4>1, <4>2, NewRecord
      <4> QED
        BY <4>1, <4>3 DEF Ended
    <3> QED
      BY <1>1, <1>5, <3>1, <3>2, StreamKeeps
  <2>3. CASE ~ok
    <3>1. /\ Do(<<Call("onComplete", g)>>)
          /\ gen' = [gen EXCEPT ![g] = [gen[g] EXCEPT !.hasError = TRUE]]
          /\ UNCHANGED <<streams, totals>>
      BY <2>1, <2>3 DEF StreamFailsToStart
    <3>2. OnlyG(g) /\ SameFields(g) /\ Ended(g)'
      BY <1>3, <3>1 DEF OnlyG, SameFields, Ended, GenType
    <3> QED
      BY <1>1, <3>1, <3>2, EndKeeps
  <2> QED
    BY <2>2, <2>3
<1> QED
  BY <1>4, <1>5

\* generateNext, for a stream
LEMMA createStreamKeeps ==
  ASSUME GeneratorInv, NEW g \in Gens, createStream(g)
  PROVE  GeneratorInv'
<1> DEFINE r == [gen[g] EXCEPT !.obs = @ - 1]
<1>1. /\ TypeOK /\ On("generateNext", g) /\ continued' = continued /\ gen[g].obs > 0
      /\ gen[g].kind = "flow" /\ Do(<<Call("setTimer", g)>>)
  BY DEF GeneratorInv, createStream
<1>2. PICK ok \in Succeeds : IF ok THEN StreamStarts(g, r) ELSE StreamFailsToStart(g, r)
  BY DEF createStream
<1>3. ~Ended(g)
  BY <1>1, StillGoing
<1>4. gen \in [Gens -> GenType]
  BY <1>1 DEF TypeOK
<1>5. CASE ok
  <2>1. /\ gen' = [gen EXCEPT ![g] = [r EXCEPT !.numGenerated = @ + 1, !.refcount = @ + 1]]
        /\ streams' = [streams EXCEPT ![g] = @ + 1]
        /\ totals' = Created(totals, "stream")
    BY <1>2, <1>5 DEF StreamStarts
  <2>2. /\ OnlyG(g) /\ ~Ended(g)'
        /\ gen'[g].numGenerated = gen[g].numGenerated + 1
        /\ gen'[g].numCompleted = gen[g].numCompleted
        /\ gen'[g].refcount = gen[g].refcount + 1
        /\ gen'[g].timer = gen[g].timer
    <3> DEFINE n == [r EXCEPT !.numGenerated = @ + 1, !.refcount = @ + 1]
    <3>1. /\ n \in GenType /\ n.kind = gen[g].kind
          /\ n.reachedEndState = gen[g].reachedEndState /\ n.hasError = gen[g].hasError
          /\ n.numGenerated = gen[g].numGenerated + 1
          /\ n.numCompleted = gen[g].numCompleted
          /\ n.refcount = gen[g].refcount + 1
          /\ n.timer = gen[g].timer
      <4>1. gen[g] \in GenType
        BY <1>4
      <4>2. /\ gen[g].numGenerated + 1 \in Nat /\ gen[g].refcount + 1 \in Nat
            /\ gen[g].obs - 1 \in Nat
        BY <1>1, <4>1 DEF GenType
      <4>3. n \in GenType
        BY <4>1, <4>2 DEF GenType
      <4> QED
        BY <4>1, <4>3 DEF GenType
    <3>2. gen' = [gen EXCEPT ![g] = n]
      BY <2>1
    <3> HIDE DEF n
    <3>3. OnlyG(g) /\ gen'[g] = n
      BY <1>4, <3>1, <3>2, NewRecord
    <3> QED
      BY <1>3, <3>1, <3>3 DEF Ended
  <2> QED
    BY <1>1, <2>1, <2>2, StreamKeeps
<1>6. CASE ~ok
  <2>1. gen' = [gen EXCEPT ![g] = r] /\ UNCHANGED <<streams, totals>>
    BY <1>2, <1>6 DEF StreamFailsToStart
  <2>2. OnlyG(g) /\ SameFields(g) /\ ~Ended(g)'
    BY <1>1, <1>3, <1>4, <2>1 DEF OnlyG, SameFields, Ended, GenType
  <2> QED
    BY <1>1, <2>1, <2>2, GoOnKeeps
<1> QED
  BY <1>5, <1>6

\* The end of generateNext: the delay timer
LEMMA setTimerKeeps ==
  ASSUME GeneratorInv, NEW g \in Gens, setTimer(g)
  PROVE  GeneratorInv'
<1>1. /\ TypeOK /\ StackInOrder /\ GensInOrder /\ On("setTimer", g)
      /\ UNCHANGED <<streams, totals, continued>>
  BY DEF GeneratorInv, setTimer
<1>2. gen \in [Gens -> GenType]
  BY <1>1 DEF TypeOK
<1>3. PICK ok \in Succeeds :
        IF ok
        THEN /\ gen' = [gen EXCEPT ![g].timer = TRUE, ![g].refcount = @ + 1]
             /\ Do(<<>>)
        ELSE /\ gen' = [gen EXCEPT ![g].hasError = TRUE]
             /\ Do(<<Call("onComplete", g)>>)
  BY DEF setTimer
<1>4. CASE ~ok
  <2>1. gen' = [gen EXCEPT ![g].hasError = TRUE] /\ Do(<<Call("onComplete", g)>>)
    BY <1>3, <1>4
  <2>2. OnlyG(g) /\ SameFields(g) /\ Ended(g)'
    BY <1>2, <2>1 DEF OnlyG, SameFields, Ended, GenType
  <2> QED
    BY <1>1, <2>1, <2>2, EndKeeps
<1>5. CASE ok
  <2>1. gen' = [gen EXCEPT ![g].timer = TRUE, ![g].refcount = @ + 1] /\ Do(<<>>)
    BY <1>3, <1>5
  <2>2. /\ OnlyG(g) /\ (Ended(g)' <=> Ended(g))
        /\ gen'[g].numGenerated = gen[g].numGenerated
        /\ gen'[g].numCompleted = gen[g].numCompleted
        /\ gen'[g].refcount = gen[g].refcount + 1
        /\ gen'[g].timer = TRUE
    <3> DEFINE n == [gen[g] EXCEPT !.timer = TRUE, !.refcount = @ + 1]
    <3>1. /\ n \in GenType /\ n.kind = gen[g].kind
          /\ n.reachedEndState = gen[g].reachedEndState /\ n.hasError = gen[g].hasError
          /\ n.numGenerated = gen[g].numGenerated
          /\ n.numCompleted = gen[g].numCompleted
          /\ n.refcount = gen[g].refcount + 1
          /\ n.timer = TRUE
      <4>1. gen[g] \in GenType
        BY <1>2
      <4>2. gen[g].refcount + 1 \in Nat
        BY <4>1 DEF GenType
      <4>3. n \in GenType
        BY <4>1, <4>2 DEF GenType
      <4> QED
        BY <4>1, <4>3 DEF GenType
    <3>2. gen' = [gen EXCEPT ![g] = n]
      BY <1>2, <2>1
    <3> HIDE DEF n
    <3>3. OnlyG(g) /\ gen'[g] = n
      BY <1>2, <3>1, <3>2, NewRecord
    <3> QED
      BY <3>1, <3>3 DEF Ended
  <2>3. Live(g) /\ ~Ended(g) /\ ~gen[g].timer /\ Own(g)
    BY <1>1, StillGoing
  <2>4. Returns("setTimer", g)
    BY <1>1, <2>1, StepReturns
  <2>5. TypeOK'
    BY <1>1, <2>2, <2>4 DEF TypeOK, OnlyG, Returns
  <2>6. SameOwners
    <3>1. Own(g)'
      BY <2>2, <2>3 DEF Own, Live, OnlyG, AllDone, Ended
    <3>2. ASSUME NEW h \in Gens, h # g PROVE Own(h)' <=> Own(h)
      BY <2>2, <2>4, <3>2 DEF Own, Live, Returns, OnlyG, Ops
    <3> QED
      BY <2>2, <2>3, <3>1, <3>2 DEF SameOwners, OnlyG
  <2>7. Children(g)' = Children(g) /\ OpenFlows' = OpenFlows /\ \A h \in Gens : Live(h) => Live(h)'
    BY <2>6, SameSets DEF SameOwners
  <2>8. CountedRight(g)'
    <3>1. /\ CountedRight(g) /\ Num("unref", g) \in Nat /\ Num("setTimer", g) \in Nat
          /\ Cardinality(Children(g)) \in Nat
      BY <1>1, <2>3, Numbers DEF GensInOrder, Counted
    <3>2. Own(g)' /\ ~On("onNotify", g) /\ ~On("onNotify", g)'
      BY <2>3, <2>4, <2>6 DEF SameOwners, Returns, Ops
    <3>3. /\ Num("unref", g)' = Num("unref", g) /\ Num("setTimer", g)' = Num("setTimer", g) - 1
          /\ ~On("start", g) /\ ~On("start", g)'
          /\ ~On("generateNext", g) /\ ~On("generateNext", g)'
      BY <2>4, <3>1 DEF Returns, Ops
    <3>4. gen[g].refcount \in Nat /\ streams[g] \in Nat
      BY <1>1 DEF TypeOK, GenType
    <3>5. gen'[g].refcount > 0
      BY <2>2, <3>4
    <3>6. gen'[g].refcount = One(Own(g)') + One(gen'[g].timer) + streams'[g]
                               + Cardinality(Children(g)') + Num("unref", g)'
      BY <1>1, <2>2, <2>3, <2>7, <3>1, <3>2, <3>3, <3>4 DEF CountedRight, One
    <3>7. One(Ended(g)') + One(gen'[g].timer) + One(On("start", g)') + One(On("generateNext", g)')
            + Num("setTimer", g)' = 1
      BY <2>2, <2>3, <3>1, <3>3 DEF CountedRight, One
    <3> QED
      BY <1>1, <2>2, <2>7, <3>1, <3>2, <3>5, <3>6, <3>7 DEF CountedRight, One, OnlyG
  <2>9. \A h \in Gens : h # g => SameCounts(h)
    BY <1>1, <2>2, <2>4, Numbers DEF SameCounts, Counted, Returns, OnlyG, Ops
  <2>10. GensInOrder'
    BY <2>3, <2>6, <2>8, <2>9, OthersRight
  <2>11. StackInOrder'
    BY <2>4, <2>7 DEF Returns, StillLive
  <2>12. DriverInformed'
    BY <1>1, <2>4, <2>6, NoNews, DriverSame DEF Returns
  <2> QED
    BY <2>5, <2>10, <2>11, <2>12, Assemble
<1> QED
  BY <1>4, <1>5

\* _tgengenerator_onNotify
LEMMA onNotifyKeeps ==
  ASSUME GeneratorInv, NEW g \in Gens, onNotify(g)
  PROVE  GeneratorInv'
<1>1. /\ TypeOK /\ StackInOrder /\ GensInOrder /\ On("onNotify", g)
      /\ UNCHANGED <<streams, totals, continued>>
  BY DEF GeneratorInv, onNotify
<1>2. PICK flags : flags = Head(calls).flags
  OBVIOUS
<1>3. /\ gen' = [gen EXCEPT ![g].numCompleted = IF Counts(gen[g].kind, flags) THEN @ + 1 ELSE @]
      /\ Do(<<CallWith("onComplete", g, flags, FALSE)>>)
  BY <1>2 DEF onNotify
<1>4. /\ Head(calls) \in CallType /\ Head(calls) = calls[1] /\ 1 \in 1 .. Len(calls)
      /\ calls # <<>> /\ Head(calls).op = "onNotify" /\ Head(calls).g = g
  BY <1>1, TopCall
<1>5. /\ flags \in SUBSET Flags /\ Live(g) /\ ~AllDone(gen[g]) /\ ~Head(calls).id
      /\ \A flag \in flags : flag[1] = "stream" \/ (flag[1] = "flow" /\ gen[g].kind = "traffic")
  BY <1>1, <1>2, <1>4 DEF StackInOrder, CallType
<1>6. ~WithId /\ \A w : Carries(w) <=> <<w, "complete">> \in flags
  BY <1>2, <1>4, <1>5 DEF WithId, Carries
<1>7. PICK x : x = CallWith("onComplete", g, flags, FALSE)
  OBVIOUS
<1>8. x \in CallType /\ x.op = "onComplete" /\ x.g = g /\ x.flags = flags /\ ~x.id
  BY <1>5, <1>7 DEF CallWith, CallType, Ops
<1>9. Pushes("onNotify", g, x)
  BY <1>1, <1>3, <1>7, <1>8, StepPushes
<1>10. gen[g] \in GenType /\ gen \in [Gens -> GenType]
  BY <1>1 DEF TypeOK
<1>11. /\ OnlyG(g) /\ (Ended(g)' <=> Ended(g))
       /\ gen'[g].numGenerated = gen[g].numGenerated
       /\ gen'[g].numCompleted = gen[g].numCompleted + One(Counts(gen[g].kind, flags))
       /\ gen'[g].refcount = gen[g].refcount
       /\ gen'[g].timer = gen[g].timer
  <2> DEFINE m == IF Counts(gen[g].kind, flags) THEN gen[g].numCompleted + 1
                  ELSE gen[g].numCompleted
             n == [gen[g] EXCEPT !.numCompleted = m]
  <2>1. m \in Nat /\ m = gen[g].numCompleted + One(Counts(gen[g].kind, flags))
    BY <1>10 DEF GenType, One
  <2>2. gen' = [gen EXCEPT ![g] = n]
    BY <1>3, <1>10
  <2> HIDE DEF m
  <2>3. /\ n \in GenType /\ n.kind = gen[g].kind /\ n.hasError = gen[g].hasError
        /\ n.reachedEndState = gen[g].reachedEndState
        /\ n.numGenerated = gen[g].numGenerated /\ n.numCompleted = m
        /\ n.refcount = gen[g].refcount /\ n.timer = gen[g].timer
    BY <1>10, <2>1 DEF GenType
  <2> HIDE DEF n
  <2>4. OnlyG(g) /\ gen'[g] = n
    BY <1>10, <2>2, <2>3, NewRecord
  <2> QED
    BY <2>1, <2>3, <2>4 DEF Ended
<1>12. TypeOK'
  BY <1>1, <1>9, <1>11 DEF TypeOK, OnlyG, Pushes
<1>13. SameOwners
  <2>1. Own(g) /\ Own(g)'
    BY <1>5, <1>8, <1>9, <1>11 DEF Own, Live, Pushes, OnlyG
  <2>2. ASSUME NEW h \in Gens, h # g PROVE Own(h)' <=> Own(h)
    BY <1>8, <1>9, <1>11, <2>2 DEF Own, Live, Pushes, OnlyG
  <2> QED
    BY <1>11, <2>1, <2>2 DEF SameOwners, OnlyG
<1>14. Children(g)' = Children(g) /\ OpenFlows' = OpenFlows /\ \A h \in Gens : Live(h) => Live(h)'
  BY <1>13, SameSets DEF SameOwners
<1>15. CountedRight(g)'
  <2>1. /\ CountedRight(g) /\ Num("unref", g) \in Nat /\ Num("setTimer", g) \in Nat
        /\ Cardinality(OpenFlows) \in Nat
    BY <1>1, <1>5, Numbers DEF GensInOrder, Counted
  <2>2. (Own(g)' <=> Own(g)) /\ On("onNotify", g) /\ ~On("onNotify", g)'
    BY <1>8, <1>9, <1>13 DEF SameOwners, Pushes
  <2>3. /\ Num("unref", g)' = Num("unref", g) /\ Num("setTimer", g)' = Num("setTimer", g)
        /\ ~On("start", g) /\ ~On("start", g)'
        /\ ~On("generateNext", g) /\ ~On("generateNext", g)'
    BY <1>8, <1>9, <2>1 DEF Pushes
  <2>4. gen[g].numGenerated \in Nat /\ gen[g].numCompleted \in Nat /\ streams[g] \in Nat
    BY <1>1, <1>10 DEF TypeOK, GenType
  <2>5. gen[g].kind = "traffic" =>
          gen'[g].numGenerated = gen'[g].numCompleted + Cardinality(OpenFlows')
                                   + One(On("onNotify", g)' /\ Carries("flow")')
    <3> SUFFICES ASSUME gen[g].kind = "traffic"
                 PROVE  gen'[g].numGenerated = gen'[g].numCompleted + Cardinality(OpenFlows')
                                                 + One(On("onNotify", g)' /\ Carries("flow")')
      OBVIOUS
    <3>1. One(On("onNotify", g) /\ Carries("flow")) = One(Counts(gen[g].kind, flags))
      BY <1>6, <2>2 DEF Counts, One
    <3>2. One(On("onNotify", g)' /\ Carries("flow")') = 0
      BY <2>2 DEF One
    <3>3. gen[g].numGenerated = gen[g].numCompleted + Cardinality(OpenFlows)
                                  + One(On("onNotify", g) /\ Carries("flow"))
      BY <2>1 DEF CountedRight
    <3>4. One(Counts(gen[g].kind, flags)) \in Nat
      BY DEF One
    <3> QED
      BY <1>11, <1>14, <2>1, <2>4, <3>1, <3>2, <3>3, <3>4
  <2>6. gen[g].kind # "traffic" =>
          gen'[g].numGenerated = gen'[g].numCompleted + streams'[g]
                                   + One(On("onNotify", g)' /\ Carries("stream")')
    <3> SUFFICES ASSUME gen[g].kind # "traffic"
                 PROVE  gen'[g].numGenerated = gen'[g].numCompleted + streams'[g]
                                                 + One(On("onNotify", g)' /\ Carries("stream")')
      OBVIOUS
    <3>1. One(On("onNotify", g) /\ Carries("stream")) = One(Counts(gen[g].kind, flags))
      BY <1>6, <2>2 DEF Counts, One
    <3>2. One(On("onNotify", g)' /\ Carries("stream")') = 0
      BY <2>2 DEF One
    <3>3. gen[g].numGenerated = gen[g].numCompleted + streams[g]
                                  + One(On("onNotify", g) /\ Carries("stream"))
      BY <2>1 DEF CountedRight
    <3>4. One(Counts(gen[g].kind, flags)) \in Nat
      BY DEF One
    <3> QED
      BY <1>1, <1>11, <2>4, <3>1, <3>2, <3>3, <3>4
  <2> QED
    BY <1>1, <1>11, <1>14, <2>1, <2>2, <2>3, <2>5, <2>6 DEF CountedRight, One, OnlyG
<1>16. \A h \in Gens : h # g => SameCounts(h)
  BY <1>1, <1>8, <1>9, <1>11, Numbers DEF SameCounts, Counted, Pushes, OnlyG
<1>17. GensInOrder'
  BY <1>5, <1>13, <1>15, <1>16, OthersRight
<1>18. StackInOrder'
  <2>1. InOrder(x)'
    BY <1>5, <1>8, <1>11, <1>14 DEF InOrder, OnlyG
  <2> QED
    BY <1>9, <1>14, <2>1 DEF Pushes, StillLive
<1>19. DriverInformed'
  BY <1>1, <1>6, <1>8, <1>9, <1>13, DriverSame DEF Pushes
<1> QED
  BY <1>12, <1>17, <1>18, <1>19, Assemble

\* _tgengenerator_onTimerExpired
LEMMA onTimerExpiredKeeps ==
  ASSUME GeneratorInv, NEW g \in Gens, onTimerExpired(g)
  PROVE  GeneratorInv'
<1>1. /\ TypeOK /\ StackInOrder /\ GensInOrder /\ calls = <<>> /\ gen[g].timer
      /\ gen' = [gen EXCEPT ![g].timer = FALSE]
      /\ UNCHANGED <<streams, totals, continued>>
  BY DEF GeneratorInv, onTimerExpired
<1>2. PICK x, y : x = Call("generateNext", g) /\ y = Call("unref", g)
  OBVIOUS
<1>3. /\ x \in CallType /\ x.op = "generateNext" /\ x.g = g /\ x.flags = {} /\ ~x.id
      /\ Later(y) /\ y.op = "unref" /\ y.g = g
  BY <1>2, CallFields DEF Ops, Later
<1>4. Handles(x, y)
  BY <1>1, <1>2, <1>3, EventPushes DEF onTimerExpired
<1>5. gen[g] \in GenType /\ gen \in [Gens -> GenType]
  BY <1>1 DEF TypeOK
<1>6. Live(g)
  BY <1>1 DEF GensInOrder, Free
<1>7. /\ OnlyG(g) /\ (Ended(g)' <=> Ended(g))
      /\ gen'[g].numGenerated = gen[g].numGenerated
      /\ gen'[g].numCompleted = gen[g].numCompleted
      /\ gen'[g].refcount = gen[g].refcount
      /\ gen'[g].timer = FALSE
  BY <1>1, <1>5 DEF OnlyG, Ended, GenType
<1>8. TypeOK'
  BY <1>1, <1>4, <1>7 DEF TypeOK, OnlyG, Handles
<1>9. CountedRight(g) /\ Cardinality(Children(g)) \in Nat
  BY <1>1, <1>6, Numbers DEF GensInOrder, Counted
<1>10. ~Ended(g)
  BY <1>1, <1>4, <1>9 DEF CountedRight, Handles, One
<1>11. SameOwners
  <2>1. Own(g) /\ Own(g)'
    BY <1>6, <1>7, <1>10 DEF Own, Live, OnlyG, AllDone, Ended
  <2>2. ASSUME NEW h \in Gens, h # g PROVE Own(h)' <=> Own(h)
    BY <1>3, <1>4, <1>7, <2>2 DEF Own, Live, Handles, OnlyG
  <2> QED
    BY <1>7, <2>1, <2>2 DEF SameOwners, OnlyG
<1>12. Children(g)' = Children(g) /\ OpenFlows' = OpenFlows /\ \A h \in Gens : Live(h) => Live(h)'
  BY <1>11, SameSets DEF SameOwners
<1>13. CountedRight(g)'
  <2>1. (Own(g)' <=> Own(g)) /\ ~On("onNotify", g) /\ ~On("onNotify", g)'
    BY <1>3, <1>4, <1>11 DEF SameOwners, Handles
  <2>2. /\ Num("unref", g) = 0 /\ Num("unref", g)' = 1
        /\ Num("setTimer", g) = 0 /\ Num("setTimer", g)' = 0
        /\ ~On("start", g) /\ ~On("start", g)' /\ On("generateNext", g)'
    BY <1>3, <1>4 DEF Handles
  <2>3. gen[g].refcount \in Nat /\ streams[g] \in Nat
    BY <1>1, <1>5 DEF TypeOK, GenType
  <2>4. gen'[g].refcount = One(Own(g)') + One(gen'[g].timer) + streams'[g]
                             + Cardinality(Children(g)') + Num("unref", g)'
    BY <1>1, <1>7, <1>9, <1>12, <2>1, <2>2, <2>3 DEF CountedRight, One
  <2>5. One(Ended(g)') + One(gen'[g].timer) + One(On("start", g)') + One(On("generateNext", g)')
          + Num("setTimer", g)' = 1
    BY <1>7, <1>10, <2>2 DEF One
  <2> QED
    BY <1>1, <1>7, <1>9, <1>12, <2>1, <2>4, <2>5 DEF CountedRight, One, OnlyG
<1>14. \A h \in Gens : h # g => SameCounts(h)
  BY <1>1, <1>3, <1>4, <1>7 DEF SameCounts, Handles, OnlyG
<1>15. GensInOrder'
  BY <1>6, <1>11, <1>13, <1>14, OthersRight
<1>16. StackInOrder'
  <2>1. InOrder(x)' /\ Live(y.g)'
    BY <1>3, <1>6, <1>12 DEF InOrder
  <2> QED
    BY <1>4, <1>12, <2>1 DEF Handles
<1>17. DriverInformed'
  BY <1>1, <1>3, <1>4, <1>11, DriverSame DEF Handles
<1> QED
  BY <1>8, <1>15, <1>16, <1>17, Assemble

\* The driver hears of a stream that completes: it is no longer open, but the news of it is
\* on top of the stack.
LEMMA streamCompletesKeeps ==
  ASSUME GeneratorInv, NEW g \in Gens, streamCompletes(g)
  PROVE  GeneratorInv'
<1>1. /\ TypeOK /\ StackInOrder /\ GensInOrder /\ DriverInformed /\ calls = <<>>
      /\ streams[g] > 0 /\ streams' = [streams EXCEPT ![g] = @ - 1]
      /\ UNCHANGED <<gen, totals, continued>>
  BY DEF GeneratorInv, streamCompletes
<1>2. PICK flags \in {{<<"stream", "complete">>},
                      {<<"stream", "complete">>, <<"stream", "success">>}} :
        calls' = <<CallWith("onNotify", g, flags, FALSE), Call("unref", g)>>
  BY DEF streamCompletes
<1>3. /\ flags \in SUBSET Flags /\ <<"stream", "complete">> \in flags
      /\ \A flag \in flags : flag[1] = "stream"
  BY DEF Flags, Things
<1>4. PICK x, y : x = CallWith("onNotify", g, flags, FALSE) /\ y = Call("unref", g)
  OBVIOUS
<1>5. /\ x \in CallType /\ x.op = "onNotify" /\ x.g = g /\ x.flags = flags /\ ~x.id
      /\ Later(y) /\ y.op = "unref" /\ y.g = g
  BY <1>3, <1>4, CallFields DEF Ops, Later, CallWith, CallType
<1>6. Handles(x, y)
  BY <1>1, <1>2, <1>4, <1>5, EventPushes
<1>7. /\ gen[g] \in GenType /\ streams \in [Gens -> Nat] /\ streams[g] \in Nat
      /\ gen[g].numGenerated \in Nat /\ gen[g].numCompleted \in Nat /\ gen[g].refcount \in Nat
  BY <1>1 DEF TypeOK, GenType
<1>8. Live(g) /\ CountedRight(g) /\ Cardinality(Children(g)) \in Nat
  BY <1>1, <1>7, Numbers DEF GensInOrder, Counted
<1>9. gen[g].kind # "traffic"
  BY <1>1, <1>7, <1>8 DEF CountedRight
<1>10. gen[g].numGenerated = gen[g].numCompleted + streams[g]
  <2>1. One(On("onNotify", g) /\ Carries("stream")) = 0
    BY <1>6 DEF Handles, One
  <2>2. gen[g].numGenerated = gen[g].numCompleted + streams[g]
                                + One(On("onNotify", g) /\ Carries("stream"))
    BY <1>8, <1>9 DEF CountedRight
  <2> QED
    BY <1>7, <2>1, <2>2
<1>11. ~AllDone(gen[g])
  BY <1>1, <1>7, <1>10 DEF AllDone
<1>12. /\ streams' \in [Gens -> Nat] /\ streams'[g] = streams[g] - 1
       /\ \A h \in Gens : h # g => streams'[h] = streams[h]
  BY <1>1, <1>7, StreamLess
<1>13. TypeOK'
  BY <1>1, <1>6, <1>12 DEF TypeOK, Handles
<1>14. SameOwners
  BY <1>1, <1>5, <1>6 DEF SameOwners, Own, Live, Handles
<1>15. /\ Children(g)' = Children(g) /\ OpenFlows' = OpenFlows /\ OwnFlows' = OwnFlows
       /\ \A h \in Gens : Live(h) => Live(h)'
  BY <1>14, SameSets DEF SameOwners
<1>16. CountedRight(g)'
  <2>1. (Own(g)' <=> Own(g)) /\ On("onNotify", g)' /\ Carries("stream")'
    BY <1>3, <1>5, <1>6, <1>14 DEF SameOwners, Handles
  <2>2. /\ Num("unref", g) = 0 /\ Num("unref", g)' = 1
        /\ Num("setTimer", g) = 0 /\ Num("setTimer", g)' = 0
        /\ ~On("start", g) /\ ~On("start", g)'
        /\ ~On("generateNext", g) /\ ~On("generateNext", g)'
    BY <1>5, <1>6 DEF Handles
  <2>3. gen'[g].refcount = One(Own(g)') + One(gen'[g].timer) + streams'[g]
                             + Cardinality(Children(g)') + Num("unref", g)'
    BY <1>1, <1>7, <1>8, <1>12, <1>15, <2>1, <2>2 DEF CountedRight, One
  <2>4. One(Ended(g)') + One(gen'[g].timer) + One(On("start", g)') + One(On("generateNext", g)')
          + Num("setTimer", g)' = 1
    <3>1. Ended(g)' <=> Ended(g)
      BY <1>1 DEF Ended
    <3> QED
      BY <1>1, <1>8, <2>2, <3>1 DEF CountedRight, One
  <2>5. gen'[g].numGenerated = gen'[g].numCompleted + streams'[g]
                                 + One(On("onNotify", g)' /\ Carries("stream")')
    BY <1>1, <1>7, <1>10, <1>12, <2>1 DEF One
  <2>6. gen'[g].refcount > 0 /\ gen'[g].kind # "traffic"
    BY <1>1, <1>8, <1>9 DEF CountedRight
  <2> QED
    BY <2>3, <2>4, <2>5, <2>6 DEF CountedRight
<1>17. \A h \in Gens : h # g => SameCounts(h)
  BY <1>1, <1>5, <1>6, <1>12 DEF SameCounts, Handles
<1>18. GensInOrder'
  BY <1>8, <1>14, <1>16, <1>17, OthersRight
<1>19. StackInOrder'
  <2>1. InOrder(x)' /\ Live(y.g)'
    BY <1>1, <1>3, <1>5, <1>8, <1>11, <1>15 DEF InOrder
  <2> QED
    BY <1>6, <1>15, <2>1 DEF Handles
<1>20. DriverInformed'
  <2>1. \A w : Pending(w)' = Pending(w)
    BY <1>1 DEF Pending
  <2>2. /\ Carries("stream")' /\ ~Carries("flow")' /\ ~Carries("traffic")' /\ ~WithId'
        /\ ~WithId /\ \A w : ~Carries(w)
    <3>1. <<"flow", "complete">>[1] = "flow" /\ <<"traffic", "complete">>[1] = "traffic"
      OBVIOUS
    <3>2. <<"flow", "complete">> \notin flags /\ <<"traffic", "complete">> \notin flags
      BY <1>3, <3>1
    <3> QED
      BY <1>3, <1>5, <1>6, <3>2 DEF Handles
  <2>3. (Own(Root)' <=> Own(Root)) /\ gen'[Root].kind = gen[Root].kind
    BY <1>14, GensAssumption DEF SameOwners
  <2>4. Cardinality(OpenStreams)' = Cardinality(OpenStreams) - 1
    <3>1. OpenStreams = StreamsOf(streams) /\ OpenStreams' = StreamsOf(streams')
      BY DEF OpenStreams, StreamsOf
    <3> QED
      BY <1>1, <1>7, <3>1, StreamLess
  <2>5. Cardinality(OpenStreams) \in Nat
    BY <1>1, Numbers DEF Counted
  <2>6. (Pending("stream") = Cardinality(OpenStreams) + One(Carries("stream")))'
    BY <1>1, <2>1, <2>2, <2>4, <2>5 DEF DriverInformed, One
  <2>7. (Pending("flow") = Cardinality(OwnFlows) + One(Carries("flow")))'
    BY <1>1, <1>15, <2>1, <2>2 DEF DriverInformed, OwnFlows, One
  <2> QED
    BY <1>1, <2>1, <2>2, <2>3, <2>6, <2>7 DEF DriverInformed, OwnFlows, WithId, One
<1> QED
  BY <1>13, <1>18, <1>19, <1>20, Assemble

\* The generators stay in order if nothing happens to them.
LEMMA AllSame ==
  ASSUME GeneratorInv, SameOwners, \A h \in Gens : SameCounts(h)
  PROVE  GensInOrder'
<1>1. GensInOrder /\ Root \in Gens
  BY GensAssumption DEF GeneratorInv
<1>2. ASSUME NEW h \in Gens, Live(h)' PROVE CountedRight(h)'
  BY <1>1, <1>2, SameRight DEF GensInOrder, SameOwners, Live
<1>3. ASSUME NEW h \in Gens, Live(h)', h # Root
      PROVE  gen'[h].kind = "flow" /\ gen'[Root].kind = "traffic"
  BY <1>1, <1>3 DEF GensInOrder, SameOwners, Live
<1>4. ASSUME NEW h \in Gens, ~Live(h)' PROVE gen'[h] = Free /\ streams'[h] = 0
  <2>1. ~Live(h)
    BY <1>4 DEF SameOwners, Live
  <2> QED
    BY <1>1, <2>1 DEF GensInOrder, SameCounts
<1> QED
  BY <1>2, <1>3, <1>4 DEF GensInOrder

\* _tgendriver_onNotify: what it has news of is no longer pending.
LEMMA DriverCounts ==
  ASSUME TypeOK, NEW g, driver(g), NEW w \in Things
  PROVE  /\ Pending(w)' = Pending(w) - One(Carries(w))
         /\ totals'[w] \in [created : Nat, success : Nat, error : Nat]
<1>1. PICK flags : flags = Head(calls).flags
  OBVIOUS
<1>2. Carries(w) <=> <<w, "complete">> \in flags
  BY <1>1 DEF driver, On, Carries
<1>3. totals'[w] = IF <<w, "complete">> \notin flags THEN totals[w]
                   ELSE IF <<w, "success">> \in flags
                   THEN [totals[w] EXCEPT !.success = @ + 1]
                   ELSE [totals[w] EXCEPT !.error = @ + 1]
  BY <1>1 DEF driver
<1>4. PICK r \in [created : Nat, success : Nat, error : Nat] : r = totals[w]
  BY DEF TypeOK
<1>5. r.created \in Nat /\ r.success \in Nat /\ r.error \in Nat
  BY <1>4
<1>6. CASE <<w, "complete">> \notin flags
  <2>1. totals'[w] = r /\ One(Carries(w)) = 0
    BY <1>2, <1>3, <1>4, <1>6 DEF One
  <2> QED
    BY <1>4, <1>5, <2>1 DEF Pending
<1>7. CASE <<w, "complete">> \in flags /\ <<w, "success">> \in flags
  <2>1. totals'[w] = [r EXCEPT !.success = @ + 1] /\ One(Carries(w)) = 1
    BY <1>2, <1>3, <1>4, <1>7 DEF One
  <2>2. /\ totals'[w].created = r.created /\ totals'[w].error = r.error
        /\ totals'[w].success = r.success + 1
    BY <1>4, <2>1
  <2> QED
    BY <1>4, <1>5, <2>1, <2>2 DEF Pending
<1>8. CASE <<w, "complete">> \in flags /\ <<w, "success">> \notin flags
  <2>1. totals'[w] = [r EXCEPT !.error = @ + 1] /\ One(Carries(w)) = 1
    BY <1>2, <1>3, <1>4, <1>8 DEF One
  <2>2. /\ totals'[w].created = r.created /\ totals'[w].success = r.success
        /\ totals'[w].error = r.error + 1
    BY <1>4, <2>1
  <2> QED
    BY <1>4, <1>5, <2>1, <2>2 DEF Pending
<1> QED
  BY <1>6, <1>7, <1>8

\* _tgendriver_onNotify
LEMMA driverKeeps ==
  ASSUME GeneratorInv, NEW g \in Gens, driver(g)
  PROVE  GeneratorInv'
<1>1. /\ TypeOK /\ StackInOrder /\ DriverInformed /\ On("driver", g) /\ Do(<<>>)
      /\ UNCHANGED <<gen, streams>>
      /\ continued' = IF Head(calls).id THEN continued + 1 ELSE continued
  BY DEF GeneratorInv, driver
<1>2. Returns("driver", g)
  BY <1>1, StepReturns
<1>3. WithId <=> Head(calls).id
  BY <1>1 DEF WithId, On
<1>4. continued \in Nat /\ continued' = continued + One(WithId)
  BY <1>1, <1>3 DEF TypeOK, One
<1>5. TypeOK'
  <2>1. totals' \in [Things -> [created : Nat, success : Nat, error : Nat]]
    <3>1. DOMAIN totals' = Things /\ totals' = [w \in Things |-> totals'[w]]
      BY DEF driver
    <3>2. \A w \in Things : totals'[w] \in [created : Nat, success : Nat, error : Nat]
      BY <1>1, DriverCounts
    <3> QED
      BY <3>1, <3>2
  <2>2. continued' \in Nat
    BY <1>4 DEF One
  <2> QED
    BY <1>1, <1>2, <2>1, <2>2 DEF TypeOK, Returns
<1>6. SameOwners
  BY <1>1, <1>2 DEF SameOwners, Own, Live, Returns, Ops
<1>7. OwnFlows' = OwnFlows /\ \A h \in Gens : Live(h) => Live(h)'
  BY <1>6, SameSets DEF SameOwners
<1>8. \A h \in Gens : SameCounts(h)
  BY <1>1, <1>2, Numbers DEF SameCounts, Returns, Ops, Counted
<1>9. GensInOrder'
  BY <1>6, <1>8, AllSame
<1>10. StackInOrder'
  BY <1>2, <1>7 DEF Returns, StillLive
<1>11. DriverInformed'
  <2>1. /\ Pending("traffic")' = Pending("traffic") - One(Carries("traffic"))
        /\ Pending("flow")' = Pending("flow") - One(Carries("flow"))
        /\ Pending("stream")' = Pending("stream") - One(Carries("stream"))
    BY <1>1, DriverCounts DEF Things
  <2>2. \A w : One(Carries(w)) \in Nat /\ One(Carries(w)') = 0
    BY <1>2 DEF Returns, One
  <2>3. (Own(Root)' <=> Own(Root)) /\ gen'[Root].kind = gen[Root].kind
    BY <1>6, GensAssumption DEF SameOwners
  <2>4. OpenStreams' = OpenStreams
    BY <1>1 DEF OpenStreams
  <2>5. Cardinality(OpenStreams) \in Nat /\ Cardinality(OwnFlows) \in Nat
    BY <1>1, Numbers DEF Counted
  <2>6. (Pending("stream") = Cardinality(OpenStreams) + One(Carries("stream")))'
    <3>1. Pending("stream") = Cardinality(OpenStreams) + One(Carries("stream"))
      BY <1>1 DEF DriverInformed
    <3> QED
      BY <2>1, <2>2, <2>4, <2>5, <3>1
  <2>7. (Pending("flow") = Cardinality(OwnFlows) + One(Carries("flow")))'
    <3>1. Pending("flow") = Cardinality(OwnFlows) + One(Carries("flow"))
      BY <1>1 DEF DriverInformed, OwnFlows
    <3> QED
      BY <1>7, <2>1, <2>2, <2>5, <3>1
  <2>8. (Pending("traffic")
           = One(Own(Root) /\ gen[Root].kind = "traffic") + One(Carries("traffic")))'
    <3>1. Pending("traffic")
            = One(Own(Root) /\ gen[Root].kind = "traffic") + One(Carries("traffic"))
      BY <1>1 DEF DriverInformed
    <3> QED
      BY <1>2, <2>1, <2>3, <3>1 DEF One, Returns
  <2>9. (continued + One(WithId) + One(Own(Root)) = 1)'
    <3>1. continued + One(WithId) + One(Own(Root)) = 1
      BY <1>1 DEF DriverInformed, WithId
    <3> QED
      BY <1>2, <1>4, <2>3, <3>1 DEF One, Returns
  <2> QED
    BY <2>6, <2>7, <2>8, <2>9 DEF DriverInformed, OwnFlows, WithId
<1> QED
  BY <1>5, <1>9, <1>10, <1>11, Assemble

\* What the driver counts stays as it is when the generators that own themselves do.
LEMMA DriverSameOwners ==
  ASSUME GeneratorInv, UNCHANGED <<streams, totals, continued>>,
         \A h \in Gens : (Own(h)' <=> Own(h)) /\ (Own(h) => gen'[h].kind = gen[h].kind),
         WithId' <=> WithId, \A w : Carries(w)' <=> Carries(w)
  PROVE  DriverInformed'
<1>1. DriverInformed /\ Root \in Gens
  BY GensAssumption DEF GeneratorInv
<1>2. OwnFlows' = OwnFlows
  BY DEF OwnFlows
<1>3. OpenStreams' = OpenStreams
  BY DEF OpenStreams
<1>4. Own(Root)' <=> Own(Root)
  BY <1>1
<1>5. Own(Root) => gen'[Root].kind = gen[Root].kind
  BY <1>1
<1>6. \A w : Pending(w)' = Pending(w)
  BY DEF Pending
<1>7. (Pending("flow") = Cardinality(OwnFlows) + One(Carries("flow")))'
  BY <1>1, <1>2, <1>6 DEF DriverInformed, OwnFlows, One
<1> QED
  BY <1>1, <1>3, <1>4, <1>5, <1>6, <1>7 DEF DriverInformed, OwnFlows, WithId, One

\* _tgengenerator_unref, of a reference that is not the last
LEMMA DropKeeps ==
  ASSUME GeneratorInv, NEW g \in Gens, unref(g), gen[g].refcount # 1
  PROVE  GeneratorInv'
<1>1. /\ TypeOK /\ StackInOrder /\ GensInOrder /\ On("unref", g) /\ Do(<<>>)
      /\ gen' = [gen EXCEPT ![g].refcount = @ - 1]
      /\ UNCHANGED <<streams, totals, continued>>
  BY DEF GeneratorInv, unref
<1>2. /\ Head(calls).op = "unref" /\ Head(calls).g = g /\ Head(calls) = calls[1]
      /\ 1 \in 1 .. Len(calls)
  BY <1>1, TopCall
<1>3. Live(g)
  BY <1>1, <1>2 DEF StackInOrder
<1>4. /\ CountedRight(g) /\ Cardinality(Children(g)) \in Nat
      /\ Num("unref", g) \in Nat /\ Num("setTimer", g) \in Nat
  BY <1>1, <1>3, Numbers DEF GensInOrder, Counted
<1>5. gen[g] \in GenType /\ gen \in [Gens -> GenType] /\ streams[g] \in Nat
  BY <1>1 DEF TypeOK
<1>6. gen[g].refcount \in Nat /\ gen[g].refcount > 1 /\ gen[g].refcount - 1 \in Nat
  BY <1>4, <1>5 DEF CountedRight, GenType
<1>7. /\ OnlyG(g) /\ (Ended(g)' <=> Ended(g)) /\ (AllDone(gen'[g]) <=> AllDone(gen[g]))
      /\ gen'[g].numGenerated = gen[g].numGenerated
      /\ gen'[g].numCompleted = gen[g].numCompleted
      /\ gen'[g].refcount = gen[g].refcount - 1
      /\ gen'[g].timer = gen[g].timer
  <2> DEFINE n == [gen[g] EXCEPT !.refcount = gen[g].refcount - 1]
  <2>1. gen' = [gen EXCEPT ![g] = n]
    BY <1>1, <1>5
  <2>2. /\ n \in GenType /\ n.kind = gen[g].kind /\ n.hasError = gen[g].hasError
        /\ n.reachedEndState = gen[g].reachedEndState
        /\ n.numGenerated = gen[g].numGenerated /\ n.numCompleted = gen[g].numCompleted
        /\ n.refcount = gen[g].refcount - 1 /\ n.timer = gen[g].timer
    BY <1>5, <1>6 DEF GenType
  <2> HIDE DEF n
  <2>3. OnlyG(g) /\ gen'[g] = n
    BY <1>5, <2>1, <2>2, NewRecord
  <2> QED
    BY <2>2, <2>3 DEF Ended, AllDone
<1>8. Returns("unref", g)
  BY <1>1, StepReturns
<1>9. TypeOK'
  BY <1>1, <1>7, <1>8 DEF TypeOK, OnlyG, Returns
<1>10. SameOwners
  <2>1. Own(g)' <=> Own(g)
    BY <1>7, <1>8 DEF Own, Live, Returns, OnlyG, Ops
  <2>2. ASSUME NEW h \in Gens, h # g PROVE Own(h)' <=> Own(h)
    BY <1>7, <1>8, <2>2 DEF Own, Live, Returns, OnlyG, Ops
  <2> QED
    BY <1>7, <2>1, <2>2 DEF SameOwners, OnlyG
<1>11. Children(g)' = Children(g) /\ OpenFlows' = OpenFlows /\ \A h \in Gens : Live(h) => Live(h)'
  BY <1>10, SameSets DEF SameOwners
<1>12. CountedRight(g)'
  <2>1. (Own(g)' <=> Own(g)) /\ ~On("onNotify", g) /\ ~On("onNotify", g)'
    BY <1>8, <1>10 DEF SameOwners, Returns, Ops
  <2>2. /\ Num("unref", g)' = Num("unref", g) - 1 /\ Num("setTimer", g)' = Num("setTimer", g)
        /\ ~On("start", g) /\ ~On("start", g)'
        /\ ~On("generateNext", g) /\ ~On("generateNext", g)'
    BY <1>4, <1>8 DEF Returns, Ops
  <2>3. gen'[g].refcount = One(Own(g)') + One(gen'[g].timer) + streams'[g]
                             + Cardinality(Children(g)') + Num("unref", g)'
    <3>1. /\ One(Own(g)') = One(Own(g)) /\ One(gen'[g].timer) = One(gen[g].timer)
          /\ One(Own(g)) \in Nat /\ One(gen[g].timer) \in Nat
      BY <1>7, <2>1 DEF One
    <3>2. gen[g].refcount = One(Own(g)) + One(gen[g].timer) + streams[g]
                              + Cardinality(Children(g)) + Num("unref", g)
      BY <1>4 DEF CountedRight
    <3>3. streams'[g] = streams[g] /\ Children(g)' = Children(g)
      BY <1>1, <1>11
    <3>4. streams[g] \in Nat /\ Cardinality(Children(g)) \in Nat /\ Num("unref", g) \in Nat
      BY <1>1, Numbers DEF TypeOK, Counted
    <3> QED
      BY <1>6, <1>7, <2>2, <3>1, <3>2, <3>3, <3>4
  <2>4. gen'[g].refcount > 0
    BY <1>6, <1>7
  <2> QED
    BY <1>1, <1>4, <1>7, <1>11, <2>1, <2>2, <2>3, <2>4 DEF CountedRight, One, OnlyG
<1>13. ASSUME NEW h \in Gens, h # g PROVE SameCounts(h)
  <2>1. \A op : Num(op, h) \in Nat
    BY <1>1, Numbers DEF Counted
  <2>2. \A op : Num(op, h)' = Num(op, h)
    BY <1>8, <1>13, <2>1 DEF Returns
  <2>3. \A op \in Ops \ {"setTimer", "unref"} : ~On(op, h) /\ ~On(op, h)'
    BY <1>8, <1>13 DEF Returns
  <2>4. gen'[h] = gen[h]
    BY <1>7, <1>13 DEF OnlyG
  <2> QED
    BY <1>1, <2>2, <2>3, <2>4 DEF SameCounts, Ops
<1>14. GensInOrder'
  BY <1>3, <1>10, <1>12, <1>13, OthersRight
<1>15. StackInOrder'
  BY <1>8, <1>11 DEF Returns, StillLive
<1>16. DriverInformed'
  BY <1>1, <1>8, <1>10, NoNews, DriverSame DEF Returns
<1> QED
  BY <1>9, <1>14, <1>15, <1>16, Assemble

\* When its last reference is dropped, nothing is left to do for a generator.
LEMMA LastReference ==
  ASSUME GeneratorInv, NEW g \in Gens, On("unref", g), gen[g].refcount = 1
  PROVE  /\ Live(g) /\ ~Own(g) /\ streams[g] = 0 /\ Children(g) = {}
         /\ Num("unref", g) = 1 /\ Num("setTimer", g) = 0
<1>1. TypeOK /\ StackInOrder /\ GensInOrder
  BY DEF GeneratorInv
<1>2. /\ Head(calls).op = "unref" /\ Head(calls).g = g /\ Head(calls) = calls[1]
      /\ 1 \in 1 .. Len(calls) /\ Tail(calls) \in Seq(CallType)
      /\ Num("unref", g) = Count(Tail(calls), "unref", g) + One("unref" = "unref" /\ g = g)
  BY <1>1, TopCall
<1>3. Live(g)
  BY <1>1, <1>2 DEF StackInOrder
<1>4. /\ CountedRight(g) /\ Cardinality(Children(g)) \in Nat /\ IsFiniteSet(Children(g))
      /\ Num("setTimer", g) \in Nat
  BY <1>1, <1>3, Numbers DEF GensInOrder, Counted
<1>5. Num("unref", g) \in Nat /\ Num("unref", g) >= 1
  <2>1. Count(Tail(calls), "unref", g) \in Nat
    BY <1>2, CountType
  <2> QED
    BY <1>2, <2>1 DEF One
<1>6. streams[g] \in Nat
  BY <1>1 DEF TypeOK
<1>7. ~Own(g) /\ streams[g] = 0 /\ Cardinality(Children(g)) = 0 /\ Num("unref", g) = 1
  BY <1>4, <1>5, <1>6 DEF CountedRight, One
<1>8. Children(g) = {}
  BY <1>4, <1>7, FS_EmptySet
<1>9. Ended(g)
  BY <1>3, <1>7 DEF Own, AllDone, Ended
<1>10. Num("setTimer", g) = 0
  BY <1>4, <1>9 DEF CountedRight, One
<1> QED
  BY <1>3, <1>7, <1>8, <1>10

\* _tgengenerator_unref, of the last reference: the generator is freed.
LEMMA FreeKeeps ==
  ASSUME GeneratorInv, NEW g \in Gens, unref(g), gen[g].refcount = 1
  PROVE  GeneratorInv'
<1>1. /\ TypeOK /\ StackInOrder /\ GensInOrder /\ On("unref", g)
      /\ gen' = [gen EXCEPT ![g] = Free]
      /\ UNCHANGED <<streams, totals, continued>>
      /\ Do(IF g = Root THEN <<>> ELSE <<Call("unref", Root)>>)
  BY DEF GeneratorInv, unref
<1>2. /\ Live(g) /\ ~Own(g) /\ streams[g] = 0 /\ Children(g) = {}
      /\ Num("unref", g) = 1 /\ Num("setTimer", g) = 0
  BY <1>1, LastReference
<1>3. Free \in GenType /\ Free.kind = "free"
  BY DEF Free, GenType
<1>4. /\ gen' \in [Gens -> GenType] /\ gen'[g] = Free /\ ~Live(g)'
      /\ \A h \in Gens : h # g => gen'[h] = gen[h] /\ (Live(h)' <=> Live(h))
  BY <1>1, <1>3 DEF TypeOK, Live
<1>5. ~WithId /\ \A w : ~Carries(w)
  BY <1>1, NoNews
<1>6. Root \in Gens
  BY GensAssumption
<1>7. CASE g = Root
  <2>1. Do(<<>>)
    BY <1>1, <1>7
  <2>2. Returns("unref", g)
    BY <1>1, <2>1, StepReturns
  <2>3. \A h \in Gens : (Own(h)' <=> Own(h)) /\ (Own(h) => gen'[h].kind = gen[h].kind)
    <3>1. ~Own(g)'
      BY <1>4 DEF Own
    <3>2. ASSUME NEW h \in Gens, h # g PROVE Own(h)' <=> Own(h)
      BY <1>4, <2>2, <3>2 DEF Own, Returns, Ops
    <3> QED
      BY <1>2, <1>4, <3>1, <3>2
  <2>4. TypeOK'
    BY <1>1, <1>4, <2>2 DEF TypeOK, Returns
  <2>5. \A h \in Gens : ~Live(h)'
    BY <1>2, <1>4, <1>7 DEF Children
  <2>6. GensInOrder'
    <3>1. ASSUME NEW h \in Gens PROVE gen'[h] = Free /\ streams'[h] = 0
      <4>1. CASE h = g
        BY <1>1, <1>2, <1>4, <4>1
      <4>2. CASE h # g
        BY <1>1, <1>4, <2>5, <4>2 DEF GensInOrder
      <4> QED
        BY <4>1, <4>2
    <3> QED
      BY <2>5, <3>1 DEF GensInOrder
  <2>7. StackInOrder'
    <3>1. Num("unref", g)' = 0 /\ Num("setTimer", g)' = 0
      BY <1>2, <2>2 DEF Returns
    <3>2. StillLive
      BY <1>4, <3>1 DEF StillLive, NothingLeft
    <3> QED
      BY <2>2, <3>2 DEF Returns
  <2>8. DriverInformed'
    BY <1>1, <1>5, <2>2, <2>3, DriverSameOwners DEF Returns
  <2> QED
    BY <2>4, <2>6, <2>7, <2>8, Assemble
<1>8. CASE g # Root
  <2>1. PICK x : x = Call("unref", Root)
    OBVIOUS
  <2>2. x \in CallType /\ x.op = "unref" /\ x.g = Root /\ x.flags = {} /\ ~x.id
    BY <1>6, <2>1, CallFields DEF Ops
  <2>3. Do(<<x>>)
    BY <1>1, <1>8, <2>1
  <2>4. Pushes("unref", g, x)
    BY <1>1, <2>2, <2>3, StepPushes
  <2>5. Own(g)' <=> Own(g)
    BY <1>2, <1>4 DEF Own
  <2>6. ASSUME NEW h \in Gens, h # g PROVE Own(h)' <=> Own(h)
    BY <1>4, <2>2, <2>4, <2>6 DEF Own, Pushes
  <2>7. OpenFlows' = OpenFlows
    BY <2>5, <2>6 DEF OpenFlows
  <2>8. TypeOK'
    BY <1>1, <1>4, <2>4 DEF TypeOK, Pushes
  <2>9. gen[g].kind = "flow" /\ gen[Root].kind = "traffic" /\ Live(Root) /\ gen'[Root] = gen[Root]
    BY <1>1, <1>2, <1>4, <1>6, <1>8 DEF GensInOrder, Live
  <2>10. /\ Children(Root)' = Children(Root) \ {g} /\ g \in Children(Root)
         /\ \A h \in Gens : h # Root => Children(h)' = {} /\ Children(h) = {}
    BY <1>2, <1>4, <1>6, <1>8 DEF Children
  <2>11. Cardinality(Children(Root)') = Cardinality(Children(Root)) - 1
    <3>1. IsFiniteSet(Children(Root))
      BY <1>1, <1>6, Numbers DEF Counted
    <3> QED
      BY <2>10, <3>1, FS_RemoveElement
  <2>12. ASSUME NEW h \in Gens
         PROVE  /\ h # g => (Ended(h)' <=> Ended(h))
                /\ ~On("start", h) /\ ~On("start", h)'
                /\ ~On("generateNext", h) /\ ~On("generateNext", h)'
                /\ ~On("onNotify", h) /\ ~On("onNotify", h)'
                /\ Num("setTimer", h)' = Num("setTimer", h)
                /\ h # g /\ h # Root => Num("unref", h)' = Num("unref", h)
                /\ Num("unref", Root)' = Num("unref", Root) + 1
    <3>1. /\ Num("setTimer", h) \in Nat /\ Num("unref", h) \in Nat /\ Num("unref", Root) \in Nat
      BY <1>1, <1>6, Numbers DEF Counted
    <3> QED
      BY <1>4, <1>8, <2>2, <2>4, <3>1 DEF Pushes, Ended
  <2>13. CountedRight(Root)'
    <3>1. /\ CountedRight(Root) /\ Cardinality(Children(Root)) \in Nat
          /\ Num("unref", Root) \in Nat /\ streams[Root] \in Nat
      BY <1>1, <1>6, <2>9, Numbers DEF GensInOrder, Counted, TypeOK
    <3>2. gen'[Root].refcount = One(Own(Root)') + One(gen'[Root].timer) + streams'[Root]
                                  + Cardinality(Children(Root)') + Num("unref", Root)'
      BY <1>1, <1>6, <1>8, <2>6, <2>9, <2>11, <2>12, <3>1 DEF CountedRight, One
    <3> QED
      BY <1>1, <1>6, <1>8, <2>7, <2>9, <2>12, <3>1, <3>2 DEF CountedRight, One
  <2>14. ASSUME NEW h \in Gens, h # g, h # Root, Live(h) PROVE CountedRight(h)'
    <3>1. CountedRight(h) /\ gen[h].kind # "traffic"
      BY <1>1, <2>14 DEF GensInOrder, CountedRight
    <3> QED
      BY <1>1, <1>4, <2>6, <2>10, <2>12, <2>14, <3>1 DEF CountedRight, One
  <2>15. GensInOrder'
    <3>1. ASSUME NEW h \in Gens, Live(h)' PROVE CountedRight(h)'
      BY <1>4, <2>13, <2>14, <3>1
    <3>2. ASSUME NEW h \in Gens, Live(h)', h # Root
          PROVE  gen'[h].kind = "flow" /\ gen'[Root].kind = "traffic"
      BY <1>1, <1>4, <2>9, <3>2 DEF GensInOrder
    <3>3. ASSUME NEW h \in Gens, ~Live(h)' PROVE gen'[h] = Free /\ streams'[h] = 0
      <4>1. CASE h = g
        BY <1>1, <1>2, <1>4, <4>1
      <4>2. CASE h # g
        BY <1>1, <1>4, <3>3, <4>2 DEF GensInOrder
      <4> QED
        BY <4>1, <4>2
    <3> QED
      BY <3>1, <3>2, <3>3 DEF GensInOrder
  <2>16. StackInOrder'
    <3>1. Num("unref", g)' = 0 /\ Num("setTimer", g)' = 0
      BY <1>2, <1>8, <2>2, <2>4 DEF Pushes
    <3>2. StillLive
      BY <1>4, <3>1 DEF StillLive, NothingLeft
    <3>3. Live(Root)'
      BY <1>4, <1>6, <1>8, <2>9
    <3>4. InOrder(x)'
      BY <2>2, <3>3 DEF InOrder
    <3> QED
      BY <2>4, <3>2, <3>4 DEF Pushes
  <2>17. DriverInformed'
    <3>1. \A h \in Gens : (Own(h)' <=> Own(h)) /\ (Own(h) => gen'[h].kind = gen[h].kind)
      BY <1>2, <1>4, <2>5, <2>6
    <3>2. ~WithId' /\ \A w : ~Carries(w)'
      BY <2>2, <2>4 DEF Pushes
    <3> QED
      BY <1>1, <1>5, <3>1, <3>2, DriverSameOwners
  <2> QED
    BY <2>8, <2>15, <2>16, <2>17, Assemble
<1> QED
  BY <1>7, <1>8

\* The call of onComplete on top, and the news that it brings.
LEMMA Completing ==
  ASSUME GeneratorInv, NEW g \in Gens, On("onComplete", g), NEW flags, flags = Head(calls).flags
  PROVE  /\ flags \in SUBSET Flags /\ Live(g) /\ Own(g) /\ ~WithId
         /\ \A w : Carries(w) <=> <<w, "complete">> \in flags
         /\ \A flag \in flags :
              flag[1] = "stream" \/ (flag[1] = "flow" /\ gen[g].kind = "traffic")
<1>1. TypeOK /\ StackInOrder
  BY DEF GeneratorInv
<1>2. /\ Head(calls) \in CallType /\ Head(calls) = calls[1] /\ 1 \in 1 .. Len(calls)
      /\ calls # <<>> /\ Head(calls).op = "onComplete" /\ Head(calls).g = g
  BY <1>1, TopCall
<1>3. /\ flags \in SUBSET Flags /\ Live(g) /\ ~Head(calls).id
      /\ \A flag \in flags : flag[1] = "stream" \/ (flag[1] = "flow" /\ gen[g].kind = "traffic")
  BY <1>1, <1>2 DEF StackInOrder, CallType
<1> QED
  BY <1>2, <1>3 DEF WithId, Carries, Own

\* onCompleteHelper while something is not complete: nobody is told, or only of the news.
LEMMA NotDoneKeeps ==
  ASSUME GeneratorInv, NEW g \in Gens, onComplete(g), ~AllDone(gen[g])
  PROVE  GeneratorInv'
<1>1. /\ TypeOK /\ StackInOrder /\ GensInOrder /\ On("onComplete", g)
      /\ UNCHANGED <<gen, streams, totals, continued>>
  BY DEF GeneratorInv, onComplete
<1>2. PICK flags : flags = Head(calls).flags
  OBVIOUS
<1>3. Do(IF flags # {} THEN <<Tell(g, flags, FALSE)>> ELSE <<>>)
  BY <1>2 DEF onComplete
<1>4. /\ flags \in SUBSET Flags /\ Live(g) /\ Own(g) /\ ~WithId
      /\ \A w : Carries(w) <=> <<w, "complete">> \in flags
      /\ \A flag \in flags : flag[1] = "stream" \/ (flag[1] = "flow" /\ gen[g].kind = "traffic")
  BY <1>1, <1>2, Completing
<1>5. Root \in Gens
  BY GensAssumption
<1>6. CASE flags = {}
  <2>1. Returns("onComplete", g)
    BY <1>1, <1>3, <1>6, StepReturns
  <2>2. TypeOK'
    BY <1>1, <2>1 DEF TypeOK, Returns
  <2>3. SameOwners
    BY <1>1, <2>1 DEF SameOwners, Own, Live, Returns, Ops
  <2>4. \A h \in Gens : Live(h) => Live(h)'
    BY <2>3, SameSets DEF SameOwners
  <2>5. \A h \in Gens : SameCounts(h)
    BY <1>1, <2>1, Numbers DEF SameCounts, Returns, Ops, Counted
  <2>6. GensInOrder'
    BY <2>3, <2>5, AllSame
  <2>7. StackInOrder'
    BY <2>1, <2>4 DEF Returns, StillLive
  <2>8. DriverInformed'
    BY <1>1, <1>4, <1>6, <2>1, <2>3, DriverSame DEF Returns
  <2> QED
    BY <2>2, <2>6, <2>7, <2>8, Assemble
<1>7. CASE flags # {}
  <2>1. PICK x : x = Tell(g, flags, FALSE)
    OBVIOUS
  <2>2. /\ x \in CallType /\ x.g = Root /\ x.flags = flags /\ ~x.id
        /\ x.op = IF g = Root THEN "driver" ELSE "onNotify"
    BY <1>4, <1>5, <2>1 DEF Tell, CallWith, CallType, Ops
  <2>3. Pushes("onComplete", g, x)
    BY <1>1, <1>3, <1>7, <2>1, <2>2, StepPushes
  <2>4. TypeOK'
    BY <1>1, <2>3 DEF TypeOK, Pushes
  <2>5. SameOwners
    BY <1>1, <2>2, <2>3 DEF SameOwners, Own, Live, Pushes
  <2>6. \A h \in Gens : Live(h) => Live(h)'
    BY <2>5, SameSets DEF SameOwners
  <2>7. g # Root => gen[g].kind = "flow" /\ gen[Root].kind = "traffic"
    BY <1>1, <1>4 DEF GensInOrder
  <2>8. g # Root => ~Carries("flow")'
    <3>1. <<"flow", "complete">>[1] = "flow"
      OBVIOUS
    <3>2. g # Root => <<"flow", "complete">> \notin flags
      BY <1>4, <2>7, <3>1
    <3> QED
      BY <2>2, <2>3, <3>2 DEF Pushes
  <2>9. \A h \in Gens : SameCounts(h)
    <3>1. \A h \in Gens : Num("unref", h) \in Nat /\ Num("setTimer", h) \in Nat
      BY <1>1, Numbers DEF Counted
    <3>2. ASSUME NEW h \in Gens
          PROVE  Num("unref", h)' = Num("unref", h) /\ Num("setTimer", h)' = Num("setTimer", h)
      BY <2>2, <2>3, <3>1 DEF Pushes
    <3>3. ASSUME NEW h \in Gens
          PROVE  /\ ~On("start", h) /\ ~On("start", h)'
                 /\ ~On("generateNext", h) /\ ~On("generateNext", h)' /\ ~On("onNotify", h)
                 /\ On("onNotify", h)' => g # Root /\ h = Root
      BY <2>2, <2>3 DEF Pushes
    <3> QED
      BY <1>1, <2>7, <2>8, <3>2, <3>3 DEF SameCounts
  <2>10. GensInOrder'
    BY <2>5, <2>9, AllSame
  <2>11. StackInOrder'
    <3>1. CASE g = Root
      <4>1. Own(Root)'
        BY <1>4, <1>5, <2>5, <3>1 DEF SameOwners
      <4>2. InOrder(x)'
        BY <2>2, <3>1, <4>1 DEF InOrder
      <4> QED
        BY <2>3, <2>6, <4>2 DEF Pushes, StillLive
    <3>2. CASE g # Root
      <4>1. ~AllDone(gen[Root]) /\ Live(Root)
        BY <1>4, <3>2, RootWaits
      <4>2. Live(Root)'
        BY <1>5, <2>6, <4>1
      <4>3. \A flag \in flags : flag[1] = "stream"
        BY <1>4, <2>7, <3>2
      <4>4. InOrder(x)'
        BY <1>1, <2>2, <3>2, <4>1, <4>2, <4>3 DEF InOrder
      <4> QED
        BY <2>3, <2>6, <4>4 DEF Pushes, StillLive
    <3> QED
      BY <3>1, <3>2
  <2>12. DriverInformed'
    BY <1>1, <1>4, <2>2, <2>3, <2>5, DriverSame DEF Pushes
  <2> QED
    BY <2>4, <2>10, <2>11, <2>12, Assemble
<1> QED
  BY <1>6, <1>7

\* onCompleteHelper when all is complete: a flow tells the traffic generator, and drops the
\* reference to itself.
LEMMA FlowDoneKeeps ==
  ASSUME GeneratorInv, NEW g \in Gens, g # Root, On("onComplete", g), AllDone(gen[g]),
         UNCHANGED <<gen, streams, totals, continued>>,
         NEW flags, flags = Head(calls).flags, NEW all \in SUBSET Flags,
         flags \subseteq all, <<"flow", "complete">> \in all,
         \A flag \in all \ flags : flag[1] = "flow",
         Do(<<CallWith("onNotify", Root, all, FALSE), Call("unref", g)>>)
  PROVE  GeneratorInv'
<1>1. TypeOK /\ StackInOrder /\ GensInOrder /\ DriverInformed /\ Root \in Gens
  BY GensAssumption DEF GeneratorInv
<1>2. /\ flags \in SUBSET Flags /\ Live(g) /\ Own(g) /\ ~WithId
      /\ \A w : Carries(w) <=> <<w, "complete">> \in flags
      /\ \A flag \in flags : flag[1] = "stream" \/ (flag[1] = "flow" /\ gen[g].kind = "traffic")
  BY Completing
<1>3. gen[Root].kind = "traffic" /\ Live(Root) /\ ~AllDone(gen[Root]) /\ gen[g].kind = "flow"
  BY <1>2, RootWaits
<1>4. PICK x, y : x = CallWith("onNotify", Root, all, FALSE) /\ y = Call("unref", g)
  OBVIOUS
<1>5. /\ x \in CallType /\ x.op = "onNotify" /\ x.g = Root /\ x.flags = all /\ ~x.id
      /\ Later(y) /\ y.op = "unref" /\ y.g = g
  BY <1>1, <1>4, CallFields DEF Ops, Later, CallWith, CallType
<1>6. PushesTwo("onComplete", g, x, y)
  BY <1>1, <1>4, <1>5, StepPushesTwo
<1>7. TypeOK'
  BY <1>1, <1>6 DEF TypeOK, PushesTwo
<1>8. ~Own(g)' /\ \A h \in Gens : h # g => (Own(h)' <=> Own(h))
  BY <1>5, <1>6 DEF Own, Live, PushesTwo
<1>9. \A h \in Gens : (Live(h)' <=> Live(h)) /\ (Ended(h)' <=> Ended(h))
  BY DEF Live, Ended
<1>10. \A h \in Gens : Children(h)' = Children(h)
  BY <1>1, <1>9 DEF Children
<1>11. /\ OpenFlows' = OpenFlows \ {g} /\ g \in OpenFlows
       /\ OwnFlows' = OwnFlows \ {g} /\ g \in OwnFlows
  BY <1>2, <1>3, <1>8 DEF OpenFlows, OwnFlows
<1>12. /\ Cardinality(OpenFlows) \in Nat /\ IsFiniteSet(OpenFlows)
       /\ Cardinality(OwnFlows) \in Nat /\ IsFiniteSet(OwnFlows)
       /\ \A h \in Gens : /\ Num("unref", h) \in Nat /\ Num("setTimer", h) \in Nat
                          /\ Cardinality(Children(h)) \in Nat
  BY <1>1, Numbers DEF Counted
<1>13. /\ Cardinality(OpenFlows') = Cardinality(OpenFlows) - 1
       /\ Cardinality(OwnFlows') = Cardinality(OwnFlows) - 1
  BY <1>11, <1>12, FS_RemoveElement
<1>14. /\ Carries("flow")' /\ ~Carries("flow") /\ ~Carries("traffic")' /\ ~Carries("traffic")
       /\ Carries("stream")' <=> Carries("stream")
  <2>1. /\ <<"flow", "complete">>[1] = "flow" /\ <<"traffic", "complete">>[1] = "traffic"
        /\ <<"stream", "complete">>[1] = "stream"
    OBVIOUS
  <2>2. <<"flow", "complete">> \notin flags /\ <<"traffic", "complete">> \notin flags
    BY <1>2, <1>3, <2>1
  <2>3. /\ <<"traffic", "complete">> \notin all
        /\ <<"stream", "complete">> \in all <=> <<"stream", "complete">> \in flags
    BY <1>2, <1>3, <2>1
  <2> QED
    BY <1>2, <1>5, <1>6, <2>2, <2>3 DEF PushesTwo
<1>15. ASSUME NEW h \in Gens
       PROVE  /\ ~On("start", h) /\ ~On("start", h)'
              /\ ~On("generateNext", h) /\ ~On("generateNext", h)'
              /\ ~On("onNotify", h) /\ (On("onNotify", h)' <=> h = Root)
              /\ Num("setTimer", h)' = Num("setTimer", h)
              /\ h # g => Num("unref", h)' = Num("unref", h)
              /\ Num("unref", g)' = Num("unref", g) + 1
  <2>1. /\ ~On("start", h) /\ ~On("start", h)'
        /\ ~On("generateNext", h) /\ ~On("generateNext", h)'
        /\ ~On("onNotify", h) /\ (On("onNotify", h)' <=> h = Root)
    BY <1>5, <1>6 DEF PushesTwo
  <2>2. Num("setTimer", h)' = Num("setTimer", h)
    <3>1. Num("setTimer", h)' = Num("setTimer", h)
                                  + (IF x.op = "setTimer" /\ x.g = h THEN 1 ELSE 0)
                                  + (IF y.op = "setTimer" /\ y.g = h THEN 1 ELSE 0)
                                  - (IF "onComplete" = "setTimer" /\ g = h THEN 1 ELSE 0)
      BY <1>6 DEF PushesTwo
    <3>2. x.op # "setTimer" /\ y.op # "setTimer" /\ Num("setTimer", h) \in Nat
      BY <1>5, <1>12
    <3> QED
      BY <3>1, <3>2
  <2>3. \A k : Num("unref", k)' = Num("unref", k)
                                     + (IF x.op = "unref" /\ x.g = k THEN 1 ELSE 0)
                                     + (IF y.op = "unref" /\ y.g = k THEN 1 ELSE 0)
                                     - (IF "onComplete" = "unref" /\ g = k THEN 1 ELSE 0)
    BY <1>6 DEF PushesTwo
  <2>4. /\ x.op # "unref" /\ y.op = "unref" /\ y.g = g
        /\ Num("unref", h) \in Nat /\ Num("unref", g) \in Nat
    BY <1>5, <1>12
  <2>5. h # g => Num("unref", h)' = Num("unref", h)
    BY <2>3, <2>4
  <2>6. Num("unref", g)' = Num("unref", g) + 1
    BY <2>3, <2>4
  <2> QED
    BY <2>1, <2>2, <2>5, <2>6
<1>16. CountedRight(g)'
  <2>1. CountedRight(g) /\ streams[g] \in Nat
    BY <1>1, <1>2 DEF GensInOrder, TypeOK
  <2>2. gen'[g].refcount = One(Own(g)') + One(gen'[g].timer) + streams'[g]
                             + Cardinality(Children(g)') + Num("unref", g)'
    BY <1>2, <1>8, <1>10, <1>12, <1>15, <2>1 DEF CountedRight, One
  <2> QED
    BY <1>3, <1>9, <1>15, <2>1, <2>2 DEF CountedRight, One
<1>17. CountedRight(Root)'
  <2>1. /\ CountedRight(Root)
        /\ gen[Root].numGenerated \in Nat /\ gen[Root].numCompleted \in Nat
    BY <1>1, <1>3 DEF GensInOrder, TypeOK, GenType
  <2>2. gen'[Root].numGenerated = gen'[Root].numCompleted + Cardinality(OpenFlows')
                                    + One(On("onNotify", Root)' /\ Carries("flow")')
    <3>1. One(On("onNotify", Root) /\ Carries("flow")) = 0
      BY <1>14 DEF One
    <3>2. One(On("onNotify", Root)' /\ Carries("flow")') = 1
      BY <1>1, <1>14, <1>15 DEF One
    <3>3. gen[Root].numGenerated = gen[Root].numCompleted + Cardinality(OpenFlows)
                                     + One(On("onNotify", Root) /\ Carries("flow"))
      BY <1>3, <2>1 DEF CountedRight
    <3> QED
      BY <1>12, <1>13, <2>1, <3>1, <3>2, <3>3
  <2>3. gen'[Root].refcount = One(Own(Root)') + One(gen'[Root].timer) + streams'[Root]
                                + Cardinality(Children(Root)') + Num("unref", Root)'
    BY <1>1, <1>8, <1>10, <1>15, <2>1 DEF CountedRight, One
  <2>4. One(Ended(Root)') + One(gen'[Root].timer) + One(On("start", Root)')
          + One(On("generateNext", Root)') + Num("setTimer", Root)' = 1
    BY <1>1, <1>9, <1>15, <2>1 DEF CountedRight, One
  <2> QED
    BY <1>3, <2>1, <2>2, <2>3, <2>4 DEF CountedRight
<1>18. ASSUME NEW h \in Gens, h # g, h # Root, Live(h) PROVE CountedRight(h)'
  <2>1. CountedRight(h) /\ gen[h].kind # "traffic"
    BY <1>1, <1>18 DEF GensInOrder, CountedRight
  <2> QED
    BY <1>8, <1>9, <1>10, <1>15, <1>18, <2>1 DEF CountedRight, One
<1>19. GensInOrder'
  BY <1>1, <1>9, <1>16, <1>17, <1>18 DEF GensInOrder
<1>20. StackInOrder'
  <2>1. \A flag \in all : flag[1] = "stream" \/ flag[1] = "flow"
    BY <1>2
  <2>2. InOrder(x)'
    BY <1>1, <1>3, <1>5, <1>9, <2>1 DEF InOrder
  <2> QED
    BY <1>2, <1>5, <1>6, <1>9, <2>2 DEF PushesTwo
<1>21. DriverInformed'
  <2>1. \A w : Pending(w)' = Pending(w)
    BY DEF Pending
  <2>2. OpenStreams' = OpenStreams
    BY DEF OpenStreams
  <2>3. (Own(Root)' <=> Own(Root)) /\ ~WithId'
    BY <1>1, <1>5, <1>6, <1>8 DEF PushesTwo
  <2>4. (Pending("flow") = Cardinality(OwnFlows) + One(Carries("flow")))'
    BY <1>1, <1>12, <1>13, <1>14, <2>1 DEF DriverInformed, OwnFlows, One
  <2> QED
    BY <1>1, <1>2, <1>14, <2>1, <2>2, <2>3, <2>4 DEF DriverInformed, OwnFlows, WithId, One
<1> QED
  BY <1>7, <1>19, <1>20, <1>21, Assemble

\* onCompleteHelper when all is complete: the generator that the driver started tells the
\* driver to continue, and drops the reference to itself.
LEMMA RootDoneKeeps ==
  ASSUME GeneratorInv, On("onComplete", Root), AllDone(gen[Root]),
         UNCHANGED <<gen, streams, totals, continued>>,
         NEW flags, flags = Head(calls).flags, NEW all \in SUBSET Flags,
         flags \subseteq all, <<CountedAs(gen[Root].kind), "complete">> \in all,
         \A flag \in all \ flags : flag[1] = CountedAs(gen[Root].kind),
         Do(<<CallWith("driver", Root, all, TRUE), Call("unref", Root)>>)
  PROVE  GeneratorInv'
<1>1. TypeOK /\ StackInOrder /\ GensInOrder /\ DriverInformed /\ Root \in Gens
  BY GensAssumption DEF GeneratorInv
<1>2. /\ flags \in SUBSET Flags /\ Live(Root) /\ Own(Root) /\ ~WithId
      /\ \A w : Carries(w) <=> <<w, "complete">> \in flags
      /\ \A flag \in flags :
           flag[1] = "stream" \/ (flag[1] = "flow" /\ gen[Root].kind = "traffic")
  BY <1>1, Completing
<1>3. \A h \in Gens : h # Root => ~Own(h)
  BY RootWaits
<1>4. PICK x, y : x = CallWith("driver", Root, all, TRUE) /\ y = Call("unref", Root)
  OBVIOUS
<1>5. /\ x \in CallType /\ x.op = "driver" /\ x.g = Root /\ x.flags = all /\ x.id
      /\ Later(y) /\ y.op = "unref" /\ y.g = Root
  BY <1>1, <1>4, CallFields DEF Ops, Later, CallWith, CallType
<1>6. PushesTwo("onComplete", Root, x, y)
  BY <1>1, <1>4, <1>5, StepPushesTwo
<1>7. TypeOK'
  BY <1>1, <1>6 DEF TypeOK, PushesTwo
<1>8. ~Own(Root)' /\ \A h \in Gens : h # Root => (Own(h)' <=> Own(h))
  BY <1>5, <1>6 DEF Own, Live, PushesTwo
<1>9. \A h \in Gens : (Live(h)' <=> Live(h)) /\ (Ended(h)' <=> Ended(h))
  BY DEF Live, Ended
<1>10. \A h \in Gens : Children(h)' = Children(h)
  BY <1>1, <1>9 DEF Children
<1>11. OpenFlows' = OpenFlows
  BY <1>8 DEF OpenFlows
<1>12. \A h \in Gens : /\ Num("unref", h) \in Nat /\ Num("setTimer", h) \in Nat
                       /\ Cardinality(Children(h)) \in Nat
  BY <1>1, Numbers DEF Counted
<1>13. ASSUME NEW h \in Gens
       PROVE  /\ ~On("start", h) /\ ~On("start", h)'
              /\ ~On("generateNext", h) /\ ~On("generateNext", h)'
              /\ ~On("onNotify", h) /\ ~On("onNotify", h)'
              /\ Num("setTimer", h)' = Num("setTimer", h)
              /\ h # Root => Num("unref", h)' = Num("unref", h)
  <2>1. /\ ~On("start", h) /\ ~On("start", h)'
        /\ ~On("generateNext", h) /\ ~On("generateNext", h)'
        /\ ~On("onNotify", h) /\ ~On("onNotify", h)'
    BY <1>5, <1>6 DEF PushesTwo
  <2>2. Num("setTimer", h)' = Num("setTimer", h)
    BY <1>5, <1>6, <1>12 DEF PushesTwo
  <2>3. h # Root => Num("unref", h)' = Num("unref", h)
    BY <1>5, <1>6, <1>12 DEF PushesTwo
  <2> QED
    BY <2>1, <2>2, <2>3
<1>14. Num("unref", Root)' = Num("unref", Root) + 1
  BY <1>1, <1>5, <1>6, <1>12 DEF PushesTwo
<1>15. CountedRight(Root)'
  <2>1. CountedRight(Root) /\ streams[Root] \in Nat
    BY <1>1, <1>2 DEF GensInOrder, TypeOK
  <2>2. gen'[Root].refcount = One(Own(Root)') + One(gen'[Root].timer) + streams'[Root]
                                + Cardinality(Children(Root)') + Num("unref", Root)'
    BY <1>1, <1>2, <1>8, <1>10, <1>12, <1>14, <2>1 DEF CountedRight, One
  <2> QED
    BY <1>1, <1>9, <1>11, <1>13, <2>1, <2>2 DEF CountedRight, One
<1>16. ASSUME NEW h \in Gens, h # Root, Live(h) PROVE CountedRight(h)'
  <2>1. CountedRight(h) /\ gen[h].kind # "traffic"
    BY <1>1, <1>16 DEF GensInOrder, CountedRight
  <2> QED
    BY <1>8, <1>9, <1>10, <1>13, <1>16, <2>1 DEF CountedRight, One
<1>17. GensInOrder'
  BY <1>1, <1>9, <1>15, <1>16 DEF GensInOrder
<1>18. StackInOrder'
  <2>1. InOrder(x)'
    BY <1>5 DEF InOrder
  <2> QED
    BY <1>1, <1>2, <1>5, <1>6, <1>9, <2>1 DEF PushesTwo
<1>19. DriverInformed'
  <2>1. \A w : Pending(w)' = Pending(w)
    BY DEF Pending
  <2>2. OpenStreams' = OpenStreams
    BY DEF OpenStreams
  <2>3. WithId'
    BY <1>5, <1>6 DEF PushesTwo
  <2>4. /\ <<"flow", "complete">>[1] = "flow" /\ <<"traffic", "complete">>[1] = "traffic"
        /\ <<"stream", "complete">>[1] = "stream"
    OBVIOUS
  <2>5. \A w : Carries(w)' <=> <<w, "complete">> \in all
    BY <1>5, <1>6 DEF PushesTwo
  <2>6. (continued + One(WithId) + One(Own(Root)) = 1)'
    <3>1. continued + One(WithId) + One(Own(Root)) = 1 /\ continued \in Nat
      BY <1>1 DEF DriverInformed, WithId, TypeOK
    <3>2. One(WithId) = 0 /\ One(Own(Root)) = 1 /\ One(WithId') = 1 /\ One(Own(Root)') = 0
      BY <1>2, <1>8, <2>3 DEF One
    <3>3. continued' = continued
      OBVIOUS
    <3> QED
      BY <3>1, <3>2, <3>3 DEF One
  <2>7. CASE gen[Root].kind = "traffic"
    <3>1. CountedAs(gen[Root].kind) = "traffic"
      BY <2>7 DEF CountedAs
    <3>2. /\ Carries("traffic")' /\ ~Carries("traffic")
          /\ Carries("flow")' <=> Carries("flow")
          /\ Carries("stream")' <=> Carries("stream")
      BY <1>2, <2>4, <2>5, <3>1
    <3>3. OwnFlows' = OwnFlows
      BY <1>8, <2>7 DEF OwnFlows
    <3>4. (Pending("flow") = Cardinality(OwnFlows) + One(Carries("flow")))'
      BY <1>1, <2>1, <3>2, <3>3 DEF DriverInformed, OwnFlows, One
    <3>6. (Pending("stream") = Cardinality(OpenStreams) + One(Carries("stream")))'
      BY <1>1, <2>1, <2>2, <3>2 DEF DriverInformed, One
    <3>7. (Pending("traffic")
             = One(Own(Root) /\ gen[Root].kind = "traffic") + One(Carries("traffic")))'
      BY <1>1, <1>2, <1>8, <2>1, <2>7, <3>2 DEF DriverInformed, One
    <3> QED
      BY <2>6, <3>4, <3>6, <3>7 DEF DriverInformed, OwnFlows, WithId
  <2>8. CASE gen[Root].kind # "traffic"
    <3>1. CountedAs(gen[Root].kind) = "flow"
      BY <2>8 DEF CountedAs
    <3>2. /\ ~Carries("traffic")' /\ ~Carries("traffic")
          /\ Carries("flow")' /\ ~Carries("flow")
          /\ Carries("stream")' <=> Carries("stream")
      BY <1>2, <2>4, <2>5, <2>8, <3>1
    <3>3. OwnFlows' = {} /\ OwnFlows = {Root}
      BY <1>1, <1>2, <1>3, <1>8, <2>8 DEF OwnFlows
    <3>4. Cardinality(OwnFlows') = 0 /\ Cardinality(OwnFlows) = 1
      BY <3>3, FS_EmptySet, FS_Singleton
    <3>5. (Pending("flow") = Cardinality(OwnFlows) + One(Carries("flow")))'
      BY <1>1, <2>1, <3>2, <3>4 DEF DriverInformed, OwnFlows, One
    <3>6. (Pending("stream") = Cardinality(OpenStreams) + One(Carries("stream")))'
      BY <1>1, <2>1, <2>2, <3>2 DEF DriverInformed, One
    <3>7. (Pending("traffic")
             = One(Own(Root) /\ gen[Root].kind = "traffic") + One(Carries("traffic")))'
      BY <1>1, <1>2, <1>8, <2>1, <2>8, <3>2 DEF DriverInformed, One
    <3> QED
      BY <2>6, <3>5, <3>6, <3>7 DEF DriverInformed, OwnFlows, WithId
  <2> QED
    BY <2>7, <2>8
<1> QED
  BY <1>7, <1>17, <1>18, <1>19, Assemble

\* _tgengenerator_onCompleteHelper
LEMMA onCompleteKeeps ==
  ASSUME GeneratorInv, NEW g \in Gens, onComplete(g)
  PROVE  GeneratorInv'
<1>1. CASE ~AllDone(gen[g])
  BY <1>1, NotDoneKeeps
<1>2. CASE AllDone(gen[g])
  <2>1. On("onComplete", g) /\ UNCHANGED <<gen, streams, totals, continued>>
    BY DEF onComplete
  <2>2. PICK flags : flags = Head(calls).flags
    OBVIOUS
  <2>3. PICK what : what = CountedAs(gen[g].kind)
    OBVIOUS
  <2>4. PICK all : all = flags \cup ({<<what, "complete">>} \cup
                           (IF gen[g].hasError THEN {} ELSE {<<what, "success">>}))
    OBVIOUS
  <2>5. Do(<<Tell(g, all, TRUE), Call("unref", g)>>)
    BY <1>2, <2>2, <2>3, <2>4 DEF onComplete
  <2>6. flags \in SUBSET Flags /\ Own(g) /\ Live(g)
    BY <2>1, <2>2, Completing
  <2>7. what \in {"traffic", "flow"}
    BY <2>3 DEF CountedAs
  <2>8. /\ all \in SUBSET Flags /\ flags \subseteq all /\ <<what, "complete">> \in all
        /\ \A flag \in all \ flags : flag[1] = what
    BY <2>4, <2>6, <2>7 DEF Flags, Things
  <2>9. CASE g = Root
    <3>1. Tell(g, all, TRUE) = CallWith("driver", Root, all, TRUE)
      BY <2>9 DEF Tell
    <3> QED
      BY <1>2, <2>1, <2>2, <2>3, <2>5, <2>8, <2>9, <3>1, RootDoneKeeps
  <2>10. CASE g # Root
    <3>1. Tell(g, all, TRUE) = CallWith("onNotify", Root, all, FALSE)
      BY <2>10 DEF Tell
    <3>2. what = "flow"
      BY <2>3, <2>6, <2>10, RootWaits DEF CountedAs
    <3> QED
      BY <1>2, <2>1, <2>2, <2>5, <2>8, <2>10, <3>1, <3>2, FlowDoneKeeps
  <2> QED
    BY <2>9, <2>10
<1> QED
  BY <1>1, <1>2

\* No call is left on a generator that does not exist.
LEMMA NoCalls ==
  ASSUME TypeOK, StackInOrder, NEW f, ~Live(f), NEW op \in {"setTimer", "unref"}
  PROVE  Num(op, f) = 0
<1>1. calls \in Seq(CallType)
  BY DEF TypeOK
<1>2. \A i \in 1 .. Len(calls) : ~(calls[i].op = op /\ calls[i].g = f)
  BY DEF StackInOrder
<1> QED
  BY <1>1, <1>2, CountZero, NumIsCount

\* A new flow.
LEMMA NewFlow ==
  /\ New("flow") \in GenType /\ New("flow").kind = "flow" /\ New("flow").refcount = 1
  /\ New("flow").numGenerated = 0 /\ New("flow").numCompleted = 0
  /\ ~New("flow").reachedEndState /\ ~New("flow").hasError /\ ~New("flow").timer
BY MaxObsAssumption DEF New, Free, GenType

\* _tgengenerator_generateNext of a traffic generator, when the observation is a flow
LEMMA createFlowKeeps ==
  ASSUME GeneratorInv, NEW g \in Gens, createFlow(g)
  PROVE  GeneratorInv'
<1>1. /\ TypeOK /\ StackInOrder /\ GensInOrder /\ DriverInformed /\ On("generateNext", g)
      /\ gen[g].kind = "traffic" /\ gen[g].obs > 0 /\ totals' = Created(totals, "flow")
      /\ UNCHANGED <<streams, continued>>
  BY DEF GeneratorInv, createFlow
<1>2. Live(g) /\ ~Ended(g) /\ ~gen[g].timer /\ Own(g) /\ CountedRight(g) /\ g = Root
  BY <1>1, StillGoing DEF GensInOrder, CountedRight
<1>3. PICK f \in Gens :
        /\ gen[f].kind = "free"
        /\ gen' = [gen EXCEPT
             ![f] = New("flow"),
             ![g] = [gen[g] EXCEPT !.numGenerated = @ + 1, !.refcount = @ + 1, !.obs = @ - 1]]
        /\ Do(<<Call("start", f), Call("setTimer", g)>>)
  BY DEF createFlow
<1>4. /\ f # g /\ ~Live(f) /\ ~Own(f) /\ streams[f] = 0 /\ Children(f) = {}
      /\ Num("unref", f) = 0 /\ Num("setTimer", f) = 0
  BY <1>1, <1>2, <1>3, NoCalls DEF GensInOrder, Own, Live, Children
<1>5. /\ gen \in [Gens -> GenType] /\ gen[g] \in GenType /\ gen[g].numGenerated \in Nat
      /\ gen[g].numCompleted \in Nat /\ gen[g].refcount \in Nat /\ gen[g].obs \in Nat
      /\ streams[g] \in Nat
  BY <1>1 DEF TypeOK, GenType
<1>6. PICK n : n = [gen[g] EXCEPT !.numGenerated = @ + 1, !.refcount = @ + 1, !.obs = @ - 1]
  OBVIOUS
<1>7. /\ n \in GenType /\ n.kind = "traffic" /\ n.numGenerated = gen[g].numGenerated + 1
      /\ n.numCompleted = gen[g].numCompleted /\ n.refcount = gen[g].refcount + 1
      /\ n.timer = gen[g].timer /\ n.hasError = gen[g].hasError
      /\ n.reachedEndState = gen[g].reachedEndState
  <2>1. /\ gen[g].numGenerated + 1 \in Nat /\ gen[g].refcount + 1 \in Nat
        /\ gen[g].obs - 1 \in Nat
    BY <1>1, <1>5
  <2> QED
    BY <1>1, <1>5, <1>6, <2>1 DEF GenType
<1>8. /\ gen' \in [Gens -> GenType] /\ gen'[f] = New("flow") /\ gen'[g] = n
      /\ \A h \in Gens : h # f /\ h # g => gen'[h] = gen[h]
  <2>1. PICK k : k = [gen EXCEPT ![f] = New("flow")]
    OBVIOUS
  <2>2. /\ k \in [Gens -> GenType] /\ k[f] = New("flow") /\ k[g] = gen[g]
        /\ \A h \in Gens : h # f => k[h] = gen[h]
    BY <1>4, <1>5, <2>1, NewFlow
  <2>3. gen' = [k EXCEPT ![g] = n]
    BY <1>3, <1>6, <2>1
  <2> QED
    BY <1>4, <1>7, <2>2, <2>3
<1>9. PICK x, y : x = Call("start", f) /\ y = Call("setTimer", g)
  OBVIOUS
<1>10. /\ x \in CallType /\ x.op = "start" /\ x.g = f /\ x.flags = {} /\ ~x.id
       /\ Later(y) /\ y.op = "setTimer" /\ y.g = g
  BY <1>9, CallFields DEF Ops, Later
<1>11. PushesTwo("generateNext", g, x, y)
  BY <1>1, <1>3, <1>9, <1>10, StepPushesTwo
<1>12. TypeOK'
  <2>1. totals' \in [Things -> [created : Nat, success : Nat, error : Nat]]
    BY <1>1, CreatedType DEF TypeOK, Things
  <2> QED
    BY <1>1, <1>8, <1>11, <2>1 DEF TypeOK, PushesTwo
<1>13. /\ \A h \in Gens : h # f => (Live(h)' <=> Live(h)) /\ (Ended(h)' <=> Ended(h))
       /\ Live(f)' /\ ~Ended(f)'
  BY <1>1, <1>7, <1>8, NewFlow DEF Live, Ended
<1>14. Own(f)' /\ \A h \in Gens : h # f => (Own(h)' <=> Own(h))
  <2>1. Own(f)' /\ Own(g)'
    BY <1>2, <1>13 DEF Own, AllDone, Ended
  <2>2. ASSUME NEW h \in Gens, h # f, h # g PROVE Own(h)' <=> Own(h)
    BY <1>8, <1>10, <1>11, <1>13, <2>2 DEF Own, PushesTwo
  <2> QED
    BY <1>2, <2>1, <2>2
<1>15. /\ Children(g)' = Children(g) \cup {f} /\ f \notin Children(g)
       /\ \A h \in Gens : h # g => Children(h)' = Children(h)
  BY <1>2, <1>4, <1>13 DEF Children
<1>16. /\ OpenFlows' = OpenFlows \cup {f} /\ f \notin OpenFlows
       /\ OwnFlows' = OwnFlows \cup {f} /\ f \notin OwnFlows
  <2>1. OpenFlows' = OpenFlows \cup {f} /\ f \notin OpenFlows
    BY <1>2, <1>4, <1>14 DEF OpenFlows
  <2>2. gen'[f].kind # "traffic" /\ \A h \in Gens : h # f => gen'[h].kind = gen[h].kind
    BY <1>1, <1>7, <1>8, NewFlow
  <2> QED
    BY <1>4, <1>14, <2>1, <2>2 DEF OwnFlows
<1>17. /\ Cardinality(OpenFlows) \in Nat /\ IsFiniteSet(OpenFlows)
       /\ Cardinality(OwnFlows) \in Nat /\ IsFiniteSet(OwnFlows)
       /\ \A h \in Gens : /\ Num("unref", h) \in Nat /\ Num("setTimer", h) \in Nat
                          /\ Cardinality(Children(h)) \in Nat /\ IsFiniteSet(Children(h))
  BY <1>1, Numbers DEF Counted
<1>18. /\ Cardinality(OpenFlows') = Cardinality(OpenFlows) + 1
       /\ Cardinality(OwnFlows') = Cardinality(OwnFlows) + 1
       /\ Cardinality(Children(g)') = Cardinality(Children(g)) + 1
  BY <1>15, <1>16, <1>17, FS_AddElement
<1>19. ASSUME NEW h \in Gens
       PROVE  /\ ~On("start", h) /\ (On("start", h)' <=> h = f)
              /\ (On("generateNext", h) <=> h = g) /\ ~On("generateNext", h)'
              /\ ~On("onNotify", h) /\ ~On("onNotify", h)'
  BY <1>10, <1>11 DEF PushesTwo
<1>20. ASSUME NEW h \in Gens
       PROVE  /\ Num("unref", h)' = Num("unref", h)
              /\ h # g => Num("setTimer", h)' = Num("setTimer", h)
              /\ Num("setTimer", g)' = Num("setTimer", g) + 1
  <2>1. Num("unref", h)' = Num("unref", h)
    <3>1. Num("unref", h)' = Num("unref", h) + (IF x.op = "unref" /\ x.g = h THEN 1 ELSE 0)
                               + (IF y.op = "unref" /\ y.g = h THEN 1 ELSE 0)
                               - (IF "generateNext" = "unref" /\ g = h THEN 1 ELSE 0)
      BY <1>11 DEF PushesTwo
    <3> QED
      BY <1>10, <1>17, <3>1
  <2>2. h # g => Num("setTimer", h)' = Num("setTimer", h)
    <3>1. Num("setTimer", h)' = Num("setTimer", h)
                                  + (IF x.op = "setTimer" /\ x.g = h THEN 1 ELSE 0)
                                  + (IF y.op = "setTimer" /\ y.g = h THEN 1 ELSE 0)
                                  - (IF "generateNext" = "setTimer" /\ g = h THEN 1 ELSE 0)
      BY <1>11 DEF PushesTwo
    <3> QED
      BY <1>10, <1>17, <3>1
  <2>3. Num("setTimer", g)' = Num("setTimer", g) + 1
    <3>1. Num("setTimer", g)' = Num("setTimer", g)
                                  + (IF x.op = "setTimer" /\ x.g = g THEN 1 ELSE 0)
                                  + (IF y.op = "setTimer" /\ y.g = g THEN 1 ELSE 0)
                                  - (IF "generateNext" = "setTimer" /\ g = g THEN 1 ELSE 0)
      BY <1>11 DEF PushesTwo
    <3> QED
      BY <1>10, <1>17, <3>1
  <2> QED
    BY <2>1, <2>2, <2>3
<1>21. CountedRight(f)'
  <2>1. Cardinality(Children(f)') = 0
    BY <1>4, <1>15, FS_EmptySet
  <2>2. gen'[f].refcount = One(Own(f)') + One(gen'[f].timer) + streams'[f]
                             + Cardinality(Children(f)') + Num("unref", f)'
    BY <1>1, <1>4, <1>8, <1>14, <1>20, <2>1, NewFlow DEF One
  <2>3. One(Ended(f)') + One(gen'[f].timer) + One(On("start", f)')
          + One(On("generateNext", f)') + Num("setTimer", f)' = 1
    BY <1>4, <1>8, <1>13, <1>19, <1>20, NewFlow DEF One
  <2>4. gen'[f].numGenerated = gen'[f].numCompleted + streams'[f]
                                 + One(On("onNotify", f)' /\ Carries("stream")')
    BY <1>1, <1>4, <1>8, <1>19, NewFlow DEF One
  <2> QED
    BY <1>8, <2>2, <2>3, <2>4, NewFlow DEF CountedRight
<1>22. CountedRight(g)'
  <2>1. gen'[g].refcount = One(Own(g)') + One(gen'[g].timer) + streams'[g]
                             + Cardinality(Children(g)') + Num("unref", g)'
    <3>1. One(Own(g)') = One(Own(g)) /\ One(gen'[g].timer) = One(gen[g].timer)
      BY <1>4, <1>7, <1>8, <1>14 DEF One
    <3>2. One(Own(g)) \in Nat /\ One(gen[g].timer) \in Nat
      BY DEF One
    <3>3. gen[g].refcount = One(Own(g)) + One(gen[g].timer) + streams[g]
                              + Cardinality(Children(g)) + Num("unref", g)
      BY <1>2 DEF CountedRight
    <3> QED
      BY <1>1, <1>5, <1>7, <1>8, <1>17, <1>18, <1>20, <3>1, <3>2, <3>3
  <2>2. One(Ended(g)') + One(gen'[g].timer) + One(On("start", g)')
          + One(On("generateNext", g)') + Num("setTimer", g)' = 1
    <3>1. Num("setTimer", g) = 0
      BY <1>2, <1>17, <1>19 DEF CountedRight, One
    <3>2. ~Ended(g)' /\ ~gen'[g].timer /\ ~On("start", g)' /\ ~On("generateNext", g)'
      BY <1>2, <1>4, <1>7, <1>8, <1>13, <1>19
    <3> QED
      BY <1>20, <3>1, <3>2 DEF One
  <2>3. gen'[g].numGenerated = gen'[g].numCompleted + Cardinality(OpenFlows')
                                 + One(On("onNotify", g)' /\ Carries("flow")')
    <3>1. gen[g].numGenerated = gen[g].numCompleted + Cardinality(OpenFlows)
                                  + One(On("onNotify", g) /\ Carries("flow"))
      BY <1>1, <1>2 DEF CountedRight
    <3>2. /\ One(On("onNotify", g) /\ Carries("flow")) = 0
          /\ One(On("onNotify", g)' /\ Carries("flow")') = 0
      BY <1>19 DEF One
    <3> QED
      BY <1>5, <1>7, <1>8, <1>17, <1>18, <3>1, <3>2
  <2>4. streams'[g] = 0 /\ gen'[g].refcount > 0 /\ gen'[g].kind = "traffic"
    <3>1. streams[g] = 0
      BY <1>1, <1>2 DEF CountedRight
    <3>2. gen'[g].refcount = gen[g].refcount + 1 /\ gen'[g].kind = "traffic"
      BY <1>7, <1>8
    <3> QED
      BY <1>1, <1>5, <3>1, <3>2
  <2> QED
    BY <1>2, <2>1, <2>2, <2>3, <2>4 DEF CountedRight
<1>23. ASSUME NEW h \in Gens, h # f, h # g, Live(h) PROVE CountedRight(h)'
  <2>1. CountedRight(h) /\ gen[h].kind # "traffic" /\ (Own(h)' <=> Own(h))
    BY <1>1, <1>2, <1>14, <1>23 DEF GensInOrder, CountedRight
  <2>2. /\ gen'[h] = gen[h] /\ Children(h)' = Children(h) /\ (Ended(h)' <=> Ended(h))
        /\ Num("unref", h)' = Num("unref", h) /\ Num("setTimer", h)' = Num("setTimer", h)
    BY <1>8, <1>13, <1>15, <1>20, <1>23
  <2>3. /\ ~On("start", h) /\ ~On("start", h)' /\ ~On("generateNext", h)
        /\ ~On("generateNext", h)' /\ ~On("onNotify", h) /\ ~On("onNotify", h)'
    BY <1>19, <1>23
  <2> QED
    BY <1>1, <2>1, <2>2, <2>3 DEF CountedRight, One
<1>24. GensInOrder'
  <2>1. ASSUME NEW h \in Gens PROVE Live(h)' => CountedRight(h)'
    BY <1>13, <1>21, <1>22, <1>23
  <2>2. ASSUME NEW h \in Gens, Live(h)', h # Root
        PROVE  gen'[h].kind = "flow" /\ gen'[Root].kind = "traffic"
    BY <1>1, <1>2, <1>7, <1>8, <1>13, <2>2, NewFlow DEF GensInOrder
  <2>3. ASSUME NEW h \in Gens, ~Live(h)' PROVE gen'[h] = Free /\ streams'[h] = 0
    <3>1. h # f /\ h # g /\ ~Live(h)
      BY <1>2, <1>4, <1>13, <2>3
    <3> QED
      BY <1>1, <1>8, <3>1 DEF GensInOrder
  <2> QED
    BY <2>1, <2>2, <2>3 DEF GensInOrder
<1>25. StackInOrder'
  <2>1. InOrder(x)'
    BY <1>10, <1>13 DEF InOrder
  <2>2. \A h \in Gens : Live(h) => Live(h)'
    BY <1>13
  <2> QED
    BY <1>2, <1>10, <1>11, <2>1, <2>2 DEF PushesTwo
<1>26. DriverInformed'
  <2>1. /\ totals["flow"].created \in Nat /\ totals["flow"].success \in Nat
        /\ totals["flow"].error \in Nat
    BY <1>1 DEF TypeOK, Things
  <2>2. /\ totals'["traffic"] = totals["traffic"] /\ totals'["stream"] = totals["stream"]
        /\ totals'["flow"].created = totals["flow"].created + 1
        /\ totals'["flow"].success = totals["flow"].success
        /\ totals'["flow"].error = totals["flow"].error
    BY <1>1 DEF TypeOK, Things, Created
  <2>3. /\ Pending("traffic")' = Pending("traffic") /\ Pending("stream")' = Pending("stream")
        /\ Pending("flow")' = Pending("flow") + 1
    BY <2>1, <2>2 DEF Pending
  <2>4. ~WithId /\ (\A w : ~Carries(w))
    BY <1>1, NoNews
  <2>5. ~WithId' /\ (\A w : ~Carries(w)')
    BY <1>10, <1>11 DEF PushesTwo
  <2>6. (Own(Root)' <=> Own(Root)) /\ gen'[Root].kind = gen[Root].kind
    BY <1>1, <1>2, <1>4, <1>7, <1>8, <1>14
  <2>7. OpenStreams' = OpenStreams
    BY <1>1 DEF OpenStreams
  <2>8. (Pending("flow") = Cardinality(OwnFlows) + One(Carries("flow")))'
    <3>1. Pending("flow") = Cardinality(OwnFlows) + One(Carries("flow"))
      BY <1>1 DEF DriverInformed, OwnFlows
    <3>2. One(Carries("flow")) = 0 /\ One(Carries("flow")') = 0
      BY <2>4, <2>5 DEF One
    <3> QED
      BY <1>17, <1>18, <2>3, <3>1, <3>2
  <2>9. (Pending("stream") = Cardinality(OpenStreams) + One(Carries("stream")))'
    BY <1>1, <2>3, <2>4, <2>5, <2>7 DEF DriverInformed, One
  <2>10. (Pending("traffic")
            = One(Own(Root) /\ gen[Root].kind = "traffic") + One(Carries("traffic")))'
    BY <1>1, <2>3, <2>4, <2>5, <2>6 DEF DriverInformed, One
  <2>11. (continued + One(WithId) + One(Own(Root)) = 1)'
    <3>1. continued + One(WithId) + One(Own(Root)) = 1
      BY <1>1 DEF DriverInformed, WithId
    <3> QED
      BY <1>1, <2>4, <2>5, <2>6, <3>1 DEF One
  <2> QED
    BY <2>8, <2>9, <2>10, <2>11 DEF DriverInformed, OwnFlows, WithId
<1> QED
  BY <1>12, <1>24, <1>25, <1>26, Assemble

\* _tgengenerator_unref
LEMMA unrefKeeps ==
  ASSUME GeneratorInv, NEW g \in Gens, unref(g)
  PROVE  GeneratorInv'
BY DropKeeps, FreeKeeps

\* A step that changes nothing.
LEMMA StutterKeeps ==
  ASSUME GeneratorInv, UNCHANGED vars
  PROVE  GeneratorInv'
<1>1. TypeOK'
  BY DEF GeneratorInv, TypeOK, vars
<1>2. /\ \A o, h : (On(o, h)' <=> On(o, h)) /\ Num(o, h)' = Num(o, h)
      /\ \A w : (Carries(w)' <=> Carries(w)) /\ Pending(w)' = Pending(w)
  BY DEF On, Num, Carries, Pending, vars
<1>3. \A h : (Live(h)' <=> Live(h)) /\ (Ended(h)' <=> Ended(h)) /\ (Own(h)' <=> Own(h))
  BY <1>2 DEF Live, Ended, Own, vars
<1>4. (\A h : Children(h)' = Children(h)) /\ OpenFlows' = OpenFlows /\ OpenStreams' = OpenStreams
  BY <1>3 DEF Children, OpenFlows, OpenStreams, vars
<1>5. StackInOrder'
  <2>1. calls' = calls /\ gen' = gen /\ StackInOrder
    BY DEF GeneratorInv, vars
  <2> QED
    BY <1>3, <2>1 DEF StackInOrder, Live
<1>6. \A h : CountedRight(h) => CountedRight(h)'
  BY <1>2, <1>3, <1>4 DEF CountedRight, One, vars
<1>7. GensInOrder'
  BY <1>3, <1>6 DEF GeneratorInv, GensInOrder, vars
<1>8. DriverInformed'
  BY DriverSameOwners, <1>2, <1>3 DEF vars, WithId
<1> QED
  BY <1>1, <1>5, <1>7, <1>8, Assemble

\* In the beginning the driver starts the generator of the action.
LEMMA InitInOrder == Init => GeneratorInv
<1> SUFFICES ASSUME Init PROVE GeneratorInv
  OBVIOUS
<1>1. PICK kind \in Kinds :
        /\ gen = [g \in Gens |-> IF g = Root THEN New(kind) ELSE Free]
        /\ totals = [w \in Things |->
             [created |-> IF w = CountedAs(kind) THEN 1 ELSE 0, success |-> 0, error |-> 0]]
  BY DEF Init
<1>2. streams = [g \in Gens |-> 0] /\ continued = 0 /\ Root \in Gens
  BY GensAssumption DEF Init
<1>3. PICK x : x = Call("start", Root)
  OBVIOUS
<1>4. x \in CallType /\ x.op = "start" /\ x.g = Root /\ x.flags = {} /\ ~x.id
  BY <1>2, <1>3, CallFields DEF Ops
<1>5. calls = <<x>>
  BY <1>3 DEF Init
<1>6. /\ calls \in Seq(CallType) /\ calls # <<>> /\ Head(calls) = x /\ Len(calls) = 1
      /\ calls[1] = x
  BY <1>4, <1>5
<1>7. /\ New(kind) \in GenType /\ New(kind).kind = kind /\ New(kind).refcount = 1
      /\ New(kind).numGenerated = 0 /\ New(kind).numCompleted = 0
      /\ ~New(kind).reachedEndState /\ ~New(kind).hasError /\ ~New(kind).timer
      /\ kind \in {"traffic", "flow", "stream"}
      /\ Free \in GenType /\ Free.kind = "free"
  BY KindsAssumption, MaxObsAssumption DEF New, Free, GenType
<1>8. gen[Root] = New(kind) /\ \A g \in Gens : g # Root => gen[g] = Free
  BY <1>1, <1>2
<1>9. TypeOK
  <2>1. gen \in [Gens -> GenType]
    BY <1>1, <1>7
  <2>2. totals \in [Things -> [created : Nat, success : Nat, error : Nat]]
    BY <1>1
  <2> QED
    BY <1>2, <1>6, <2>1, <2>2 DEF TypeOK
<1>10. /\ Live(Root) /\ ~Ended(Root) /\ Own(Root) /\ ~AllDone(gen[Root])
       /\ \A g \in Gens : g # Root => ~Live(g) /\ ~Own(g)
  BY <1>7, <1>8 DEF Live, Ended, Own, AllDone
<1>11. \A o, h : On(o, h) <=> (o = "start" /\ h = Root)
  BY <1>4, <1>6 DEF On
<1>12. ~WithId /\ \A w : ~Carries(w)
  BY <1>4, <1>6 DEF WithId, Carries
<1>13. \A h : Num("unref", h) = 0 /\ Num("setTimer", h) = 0
  BY <1>4, <1>6, CountZero, NumIsCount
<1>14. Children(Root) = {} /\ OpenFlows = {} /\ OpenStreams = {}
  BY <1>2, <1>10 DEF Children, OpenFlows, OpenStreams
<1>15. Cardinality({}) = 0
  BY FS_EmptySet
<1>16. StackInOrder
  BY <1>4, <1>6, <1>10 DEF StackInOrder
<1>17. CountedRight(Root)
  <2>1. gen[Root].refcount = One(Own(Root)) + One(gen[Root].timer) + streams[Root]
                               + Cardinality(Children(Root)) + Num("unref", Root)
    BY <1>2, <1>7, <1>8, <1>10, <1>13, <1>14, <1>15 DEF One
  <2>2. One(Ended(Root)) + One(gen[Root].timer) + One(On("start", Root))
          + One(On("generateNext", Root)) + Num("setTimer", Root) = 1
    BY <1>7, <1>8, <1>10, <1>11, <1>13 DEF One
  <2>3. One(On("onNotify", Root) /\ Carries("flow")) = 0
    BY <1>12 DEF One
  <2>4. One(On("onNotify", Root) /\ Carries("stream")) = 0
    BY <1>12 DEF One
  <2> QED
    BY <1>2, <1>7, <1>8, <1>14, <1>15, <2>1, <2>2, <2>3, <2>4 DEF CountedRight
<1>18. GensInOrder
  BY <1>2, <1>8, <1>10, <1>17 DEF GensInOrder
<1>19. DriverInformed
  <2>1. /\ Pending("traffic") = IF kind = "traffic" THEN 1 ELSE 0
        /\ Pending("flow") = IF kind = "traffic" THEN 0 ELSE 1
        /\ Pending("stream") = 0
    BY <1>1 DEF Pending, Things, CountedAs
  <2>2. OwnFlows = IF kind = "traffic" THEN {} ELSE {Root}
    BY <1>2, <1>7, <1>8, <1>10 DEF OwnFlows
  <2>3. Cardinality(OwnFlows) = IF kind = "traffic" THEN 0 ELSE 1
    BY <1>15, <2>2, FS_Singleton
  <2>4. \A w : One(Carries(w)) = 0
    BY <1>12 DEF One
  <2>5. Pending("flow") = Cardinality(OwnFlows) + One(Carries("flow"))
    BY <2>1, <2>3, <2>4
  <2>6. Pending("stream") = Cardinality(OpenStreams) + One(Carries("stream"))
    BY <1>14, <1>15, <2>1, <2>4
  <2>7. Pending("traffic")
          = One(Own(Root) /\ gen[Root].kind = "traffic") + One(Carries("traffic"))
    BY <1>7, <1>8, <1>10, <2>1, <2>4 DEF One
  <2>8. continued + One(WithId) + One(Own(Root)) = 1
    BY <1>2, <1>10, <1>12 DEF One
  <2> QED
    BY <2>5, <2>6, <2>7, <2>8 DEF DriverInformed, OwnFlows, WithId
<1>20. NoneAfterEnd
  BY <1>4, <1>6 DEF NoneAfterEnd
<1> QED
  BY <1>9, <1>16, <1>18, <1>19, <1>20 DEF GeneratorInv

\* Every step keeps the generators in order.
LEMMA NextKeeps ==
  ASSUME GeneratorInv, [Next]_vars
  PROVE  GeneratorInv'
<1>1. ASSUME NEW g \in Gens, step(g) PROVE GeneratorInv'
  BY <1>1, startKeeps, createFlowKeeps, createStreamKeeps, endObservedKeeps, setTimerKeeps,
     onCompleteKeeps, onNotifyKeeps, driverKeeps, unrefKeeps DEF step
<1>2. ASSUME NEW g \in Gens, onTimerExpired(g) \/ streamCompletes(g) PROVE GeneratorInv'
  BY <1>2, onTimerExpiredKeeps, streamCompletesKeeps
<1>3. CASE over \/ UNCHANGED vars
  BY <1>3, StutterKeeps DEF over
<1> QED
  BY <1>1, <1>2, <1>3 DEF Next

\* The generators are in order in every state (GeneratorInv): types, reference counts, what
\* is left on the stack, and what the driver counts, for any number of generators.
THEOREM GeneratorsInOrder == Spec => []GeneratorInv
<1>1. GeneratorInv /\ [Next]_vars => GeneratorInv'
  BY NextKeeps
<1> QED
  BY <1>1, InitInOrder, PTL DEF Spec
-----------------------------------------------------------------------------
(* What follows from it.                                                    *)

\* A generator with open streams is not done.
LEMMA StreamsKeepOwn ==
  ASSUME GeneratorInv, NEW g \in Gens, streams[g] > 0
  PROVE  Live(g) /\ Own(g) /\ gen[g].kind # "traffic"
<1>1. TypeOK /\ GensInOrder
  BY DEF GeneratorInv
<1>2. streams[g] \in Nat /\ gen[g].numGenerated \in Nat /\ gen[g].numCompleted \in Nat
  BY <1>1 DEF TypeOK, GenType
<1>3. Live(g) /\ CountedRight(g)
  BY <1>1, <1>2 DEF GensInOrder
<1>4. gen[g].kind # "traffic"
  BY <1>2, <1>3 DEF CountedRight
<1>5. gen[g].numGenerated > gen[g].numCompleted
  <2>1. gen[g].numGenerated = gen[g].numCompleted + streams[g]
                                + One(On("onNotify", g) /\ Carries("stream"))
    BY <1>3, <1>4 DEF CountedRight
  <2>2. One(On("onNotify", g) /\ Carries("stream")) \in Nat
    BY DEF One
  <2> QED
    BY <1>2, <2>1, <2>2
<1>6. ~AllDone(gen[g])
  BY <1>2, <1>5 DEF AllDone
<1> QED
  BY <1>3, <1>4, <1>6 DEF Own

\* The generators whose flows exist exist.
LEMMA ParentLives ==
  ASSUME GeneratorInv, NEW g \in Gens, Children(g) # {}
  PROVE  Live(g) /\ g = Root /\ gen[g].kind = "traffic"
<1>1. g = Root /\ \E f \in Gens \ {Root} : Live(f)
  BY DEF Children
<1> QED
  BY <1>1 DEF GeneratorInv, GensInOrder, Live

\* Between events, what is left to a generator that exists: it is not done, and its timer, a
\* stream or a flow will call it.
LEMMA BetweenEvents ==
  ASSUME GeneratorInv, calls = <<>>, NEW g \in Gens, Live(g)
  PROVE  /\ Own(g) /\ Num("unref", g) = 0
         /\ gen[g].timer \/ streams[g] > 0 \/ Children(g) # {}
<1>1. TypeOK /\ StackInOrder /\ GensInOrder
  BY DEF GeneratorInv
<1>2. (\A o, h : ~On(o, h)) /\ (\A w : ~Carries(w))
  BY DEF On, Carries
<1>3. \A h : Num("unref", h) = 0 /\ Num("setTimer", h) = 0
  <2>1. calls \in Seq(CallType) /\ \A i \in 1 .. Len(calls) : FALSE
    BY <1>1 DEF TypeOK
  <2>2. \A o, h : Count(calls, o, h) = 0
    BY <2>1, CountZero
  <2> QED
    BY <2>2, NumIsCount
<1>4. ASSUME NEW h \in Gens, Live(h)
      PROVE  /\ CountedRight(h) /\ streams[h] \in Nat /\ Cardinality(Children(h)) \in Nat
             /\ IsFiniteSet(Children(h))
             /\ gen[h].numGenerated \in Nat /\ gen[h].numCompleted \in Nat
             /\ gen[h].timer <=> ~Ended(h)
  <2>1. /\ CountedRight(h) /\ streams[h] \in Nat /\ Cardinality(Children(h)) \in Nat
        /\ IsFiniteSet(Children(h))
        /\ gen[h].numGenerated \in Nat /\ gen[h].numCompleted \in Nat
    BY <1>1, <1>4, Numbers DEF GensInOrder, TypeOK, GenType, Counted
  <2> QED
    BY <1>2, <1>3, <2>1 DEF CountedRight, One
<1>5. ASSUME NEW h \in Gens, Live(h), gen[h].timer PROVE Own(h)
  BY <1>4, <1>5 DEF Own, AllDone, Ended
<1>6. ASSUME NEW h \in Gens, Live(h), ~gen[h].timer, gen[h].kind # "traffic"
      PROVE  Own(h) /\ streams[h] > 0
  <2>1. /\ CountedRight(h) /\ streams[h] \in Nat /\ Cardinality(Children(h)) \in Nat
        /\ gen[h].numGenerated \in Nat /\ gen[h].numCompleted \in Nat /\ Ended(h)
    BY <1>4, <1>6
  <2>2. Cardinality(Children(h)) = 0
    BY <1>6, ParentLives, FS_EmptySet
  <2>3. gen[h].numGenerated = gen[h].numCompleted + streams[h]
    <3>1. One(On("onNotify", h) /\ Carries("stream")) = 0
      BY <1>2 DEF One
    <3>2. gen[h].numGenerated = gen[h].numCompleted + streams[h]
                                  + One(On("onNotify", h) /\ Carries("stream"))
      BY <1>6, <2>1 DEF CountedRight
    <3> QED
      BY <2>1, <3>1, <3>2
  <2>4. streams[h] = 0 => ~Own(h)
    BY <1>2, <2>1, <2>3 DEF Own, AllDone, Ended
  <2>5. streams[h] # 0
    <3>1. gen[h].refcount > 0 /\ gen[h].refcount = One(Own(h)) + One(gen[h].timer) + streams[h]
                                   + Cardinality(Children(h)) + Num("unref", h)
      BY <2>1 DEF CountedRight
    <3> QED
      BY <1>3, <1>6, <2>2, <2>4, <3>1 DEF One
  <2>6. streams[h] > 0
    BY <2>1, <2>5
  <2> QED
    BY <2>6, StreamsKeepOwn
<1>7. CASE gen[g].timer
  BY <1>3, <1>5, <1>7
<1>8. CASE ~gen[g].timer /\ gen[g].kind # "traffic"
  BY <1>3, <1>6, <1>8
<1>9. CASE ~gen[g].timer /\ gen[g].kind = "traffic"
  <2>1. /\ CountedRight(g) /\ streams[g] \in Nat /\ Cardinality(Children(g)) \in Nat
        /\ gen[g].numGenerated \in Nat /\ gen[g].numCompleted \in Nat /\ Ended(g)
    BY <1>4, <1>9
  <2>2. g = Root /\ streams[g] = 0
    BY <1>9, <2>1 DEF CountedRight
  <2>3. OpenFlows = Children(g)
    <3>1. \A h \in Gens \ {Root} : Live(h) => gen[h].kind # "traffic"
      BY <1>1 DEF GensInOrder
    <3>2. \A h \in Gens \ {Root} : Own(h) <=> Live(h)
      BY <1>5, <1>6, <3>1 DEF Own
    <3> QED
      BY <2>2, <3>2 DEF OpenFlows, Children
  <2>4. gen[g].numGenerated = gen[g].numCompleted + Cardinality(Children(g))
    <3>1. One(On("onNotify", g) /\ Carries("flow")) = 0
      BY <1>2 DEF One
    <3>2. gen[g].numGenerated = gen[g].numCompleted + Cardinality(Children(g))
                                  + One(On("onNotify", g) /\ Carries("flow"))
      BY <1>9, <2>1, <2>3 DEF CountedRight
    <3> QED
      BY <2>1, <3>1, <3>2
  <2>5. Cardinality(Children(g)) = 0 => ~Own(g)
    BY <1>2, <2>1, <2>4 DEF Own, AllDone, Ended
  <2>6. Cardinality(Children(g)) # 0
    <3>1. gen[g].refcount > 0 /\ gen[g].refcount = One(Own(g)) + One(gen[g].timer) + streams[g]
                                   + Cardinality(Children(g)) + Num("unref", g)
      BY <2>1 DEF CountedRight
    <3> QED
      BY <1>3, <1>9, <2>2, <2>5, <3>1 DEF One
  <2>7. Children(g) # {}
    BY <2>6, FS_EmptySet
  <2>8. ~AllDone(gen[g])
    BY <2>1, <2>4, <2>6 DEF AllDone
  <2> QED
    BY <1>3, <2>7, <2>8 DEF Own
<1> QED
  BY <1>7, <1>8, <1>9

\* Nothing is left with a generator that was freed.
LEMMA InOrderSafe == GeneratorInv => NoUseAfterFree
<1> SUFFICES ASSUME GeneratorInv PROVE NoUseAfterFree
  OBVIOUS
<1>1. \A i \in 1 .. Len(calls) : calls[i].op # "driver" => Live(calls[i].g)
  BY DEF GeneratorInv, StackInOrder
<1>2. \A g \in Gens : streams[g] > 0 \/ Children(g) # {} => Live(g)
  BY StreamsKeepOwn, ParentLives
<1> QED
  BY <1>1, <1>2 DEF NoUseAfterFree

\* Between events references are counted exactly.
LEMMA InOrderExact == GeneratorInv => RefcountsExact
<1> SUFFICES ASSUME GeneratorInv, calls = <<>>, NEW g \in Gens
             PROVE  gen[g].refcount =
                      LET held == (IF gen[g].timer THEN 1 ELSE 0) + streams[g]
                                    + Cardinality(Children(g))
                      IN  IF held = 0 THEN 0 ELSE held + 1
  BY DEF RefcountsExact
<1>1. /\ TypeOK /\ GensInOrder /\ streams[g] \in Nat /\ Cardinality(Children(g)) \in Nat
      /\ IsFiniteSet(Children(g)) /\ gen[g].timer \in BOOLEAN
  BY Numbers DEF GeneratorInv, TypeOK, GenType, Counted
<1>2. CASE ~Live(g)
  <2>1. gen[g] = Free /\ streams[g] = 0 /\ Children(g) = {}
    BY <1>1, <1>2, ParentLives DEF GensInOrder
  <2>2. gen[g].refcount = 0 /\ ~gen[g].timer /\ Cardinality(Children(g)) = 0
    BY <2>1, FS_EmptySet DEF Free
  <2> QED
    BY <2>1, <2>2
<1>3. CASE Live(g)
  <2>1. /\ Own(g) /\ Num("unref", g) = 0
        /\ gen[g].timer \/ streams[g] > 0 \/ Children(g) # {}
    BY <1>3, BetweenEvents
  <2>2. Children(g) # {} => Cardinality(Children(g)) > 0
    BY <1>1, FS_EmptySet
  <2>3. gen[g].refcount = 1 + (IF gen[g].timer THEN 1 ELSE 0) + streams[g]
                            + Cardinality(Children(g))
    BY <1>1, <1>3, <2>1 DEF GensInOrder, CountedRight, One
  <2>4. (IF gen[g].timer THEN 1 ELSE 0) + streams[g] + Cardinality(Children(g)) > 0
    BY <1>1, <2>1, <2>2
  <2> QED
    BY <1>1, <2>3, <2>4
<1> QED
  BY <1>2, <1>3

\* Between events the driver counts what exists.
LEMMA InOrderPending == GeneratorInv => PendingExact
<1> SUFFICES ASSUME GeneratorInv, calls = <<>> PROVE PendingExact
  BY DEF PendingExact
<1>1. TypeOK /\ GensInOrder /\ DriverInformed /\ Root \in Gens
  BY GensAssumption DEF GeneratorInv
<1>2. \A g \in Gens : Own(g) <=> Live(g)
  BY BetweenEvents DEF Own
<1>3. \A w : One(Carries(w)) = 0
  BY DEF Carries, One
<1>4. \A g \in Gens : gen[g].kind = "traffic" => g = Root
  BY <1>1 DEF GensInOrder, Live
<1>5. Pending("traffic") = Cardinality({g \in Gens : gen[g].kind = "traffic"})
  <2>1. {g \in Gens : gen[g].kind = "traffic"}
          = IF gen[Root].kind = "traffic" THEN {Root} ELSE {}
    BY <1>1, <1>4
  <2>2. Cardinality({g \in Gens : gen[g].kind = "traffic"})
          = IF gen[Root].kind = "traffic" THEN 1 ELSE 0
    BY <2>1, FS_EmptySet, FS_Singleton
  <2>3. Own(Root) /\ gen[Root].kind = "traffic" <=> gen[Root].kind = "traffic"
    BY <1>1, <1>2 DEF Live
  <2>4. Pending("traffic") = One(Own(Root) /\ gen[Root].kind = "traffic")
                               + One(Carries("traffic"))
    BY <1>1 DEF DriverInformed
  <2> QED
    BY <1>3, <2>2, <2>3, <2>4 DEF One
<1>6. Pending("flow") = Cardinality({g \in Gens : gen[g].kind \in {"flow", "stream"}})
  <2>1. \A g \in Gens : gen[g].kind \in {"free", "traffic", "flow", "stream"}
    BY <1>1 DEF TypeOK, GenType
  <2>2. {g \in Gens : gen[g].kind \in {"flow", "stream"}} = OwnFlows
    BY <1>2, <2>1 DEF OwnFlows, Live
  <2>3. Pending("flow") = Cardinality(OwnFlows) + One(Carries("flow"))
    BY <1>1 DEF DriverInformed, OwnFlows
  <2>4. Cardinality(OwnFlows) \in Nat
    BY <1>1, Numbers DEF Counted
  <2>5. Pending("flow") = Cardinality(OwnFlows)
    BY <1>3, <2>3, <2>4
  <2> QED
    BY <2>2, <2>5
<1>7. Pending("stream") = Cardinality(OpenStreams)
  <2>1. Pending("stream") = Cardinality(OpenStreams) + One(Carries("stream"))
    BY <1>1 DEF DriverInformed
  <2>2. Cardinality(OpenStreams) \in Nat
    BY <1>1, Numbers DEF Counted
  <2> QED
    BY <1>3, <2>1, <2>2
<1> QED
  BY <1>5, <1>6, <1>7 DEF PendingExact

\* No call is executed on a generator that was freed, and no stream, timer or flow is left
\* with one (the "be careful after this call" of onNotify, generateNext and start).
THEOREM NoGeneratorUsedAfterFree == Spec => []NoUseAfterFree
BY GeneratorsInOrder, InOrderSafe, PTL

\* Between events a generator's reference count is the number of its holders and one for
\* itself, and it exists only as long as something may still happen to it: none leaks.
THEOREM ReferencesExact == Spec => []RefcountsExact
BY GeneratorsInOrder, InOrderExact, PTL

\* Between events the heartbeat's differences are the traffic, flow and stream activities
\* that exist: the unsigned subtractions never wrap.
THEOREM HeartbeatExact == Spec => []PendingExact
BY GeneratorsInOrder, InOrderPending, PTL
-----------------------------------------------------------------------------
(* The generators implement TGenActivity.                                   *)

\* What the steps other than those of streams and of the driver leave alone.
LEMMA NothingHeard ==
  ASSUME Pending("stream")' = Pending("stream"), continued' = continued
  PROVE  [Activity!Next]_<<Pending("stream"), continued > 0>>
<1>1. <<Pending("stream"), continued > 0>>' = <<Pending("stream"), continued > 0>>
  OBVIOUS
<1> QED
  BY <1>1

\* A stream that starts is heard of before the action is over.
LEMMA StreamHeard ==
  ASSUME GeneratorInv, NEW g \in Gens, On("start", g) \/ On("generateNext", g),
         totals' = Created(totals, "stream"), continued' = continued
  PROVE  Activity!Next
<1>1. Own(g)
  BY StillGoing
<1>2. continued = 0
  BY <1>1, RootOwns
<1>3. /\ totals["stream"].created \in Nat /\ totals["stream"].success \in Nat
      /\ totals["stream"].error \in Nat
  BY DEF GeneratorInv, TypeOK, Things
<1>4. /\ totals'["stream"].created = totals["stream"].created + 1
      /\ totals'["stream"].success = totals["stream"].success
      /\ totals'["stream"].error = totals["stream"].error
  BY DEF GeneratorInv, TypeOK, Things, Created
<1>5. Pending("stream")' = Pending("stream") + 1
  BY <1>3, <1>4 DEF Pending
<1>6. Activity!create
  BY <1>2, <1>5 DEF Activity!create
<1> QED
  BY <1>6 DEF Activity!Next

\* Once the generator that the driver started is done, no stream is open.
LEMMA NoneOpen ==
  ASSUME GeneratorInv, ~Own(Root)
  PROVE  Cardinality(OpenStreams) = 0
<1>1. ASSUME NEW g \in Gens PROVE streams[g] = 0
  <2>1. streams[g] \in Nat
    BY DEF GeneratorInv, TypeOK
  <2>2. ~(streams[g] > 0)
    BY StreamsKeepOwn, RootOwns
  <2> QED
    BY <2>1, <2>2
<1>2. OpenStreams = {}
  BY <1>1 DEF OpenStreams
<1> QED
  BY <1>2, FS_EmptySet

\* What the driver hears, it may hear: of a stream that completes, or to continue, while it
\* has not continued.
LEMMA DriverHeard ==
  ASSUME GeneratorInv, NEW g \in Gens, driver(g)
  PROVE  [Activity!Next]_<<Pending("stream"), continued > 0>>
<1>1. /\ TypeOK /\ StackInOrder /\ DriverInformed /\ On("driver", g)
      /\ continued' = IF Head(calls).id THEN continued + 1 ELSE continued
  BY DEF GeneratorInv, driver
<1>2. WithId <=> Head(calls).id
  BY <1>1 DEF WithId, On
<1>3. continued + One(WithId) + One(Own(Root)) = 1 /\ continued \in Nat
  BY <1>1 DEF DriverInformed, WithId, TypeOK
<1>4. /\ Pending("stream") = Cardinality(OpenStreams) + One(Carries("stream"))
      /\ Cardinality(OpenStreams) \in Nat
  BY <1>1, Numbers DEF DriverInformed, Counted
<1>5. Pending("stream")' = Pending("stream") - One(Carries("stream"))
  BY <1>1, DriverCounts DEF Things
<1>6. CASE WithId
  <2>1. continued = 0 /\ continued' = 1 /\ ~Own(Root)
    BY <1>1, <1>2, <1>3, <1>6 DEF One
  <2>2. Cardinality(OpenStreams) = 0
    BY <2>1, NoneOpen
  <2>3. Pending("stream")' = 0
    BY <1>4, <1>5, <2>2 DEF One
  <2>4. ~(continued > 0) /\ continued' > 0
    BY <2>1
  <2>5. CASE Carries("stream")
    <3>1. Pending("stream") = 1
      BY <1>4, <2>2, <2>5 DEF One
    <3>2. Activity!close
      BY <2>3, <2>4, <3>1 DEF Activity!close
    <3> QED
      BY <3>2 DEF Activity!Next
  <2>6. CASE ~Carries("stream")
    <3>1. Pending("stream") = 0
      BY <1>4, <2>2, <2>6 DEF One
    <3>2. Activity!finish
      BY <2>3, <2>4, <3>1 DEF Activity!finish
    <3> QED
      BY <3>2 DEF Activity!Next
  <2> QED
    BY <2>5, <2>6
<1>7. CASE ~WithId
  <2>1. Head(calls) = calls[1] /\ 1 \in 1 .. Len(calls) /\ Head(calls).op = "driver"
    BY <1>1, TopCall
  <2>2. Own(Root)
    BY <1>1, <1>2, <1>7, <2>1 DEF StackInOrder
  <2>3. continued = 0 /\ continued' = 0
    BY <1>1, <1>2, <1>3, <1>7, <2>2 DEF One
  <2>4. CASE Carries("stream")
    <3>1. Pending("stream") > 0 /\ Pending("stream")' = Pending("stream") - 1
      BY <1>4, <1>5, <2>4 DEF One
    <3>2. Activity!close
      BY <2>3, <3>1 DEF Activity!close
    <3> QED
      BY <3>2 DEF Activity!Next
  <2>5. CASE ~Carries("stream")
    <3>1. Pending("stream")' = Pending("stream")
      BY <1>4, <1>5, <2>5 DEF One
    <3> QED
      BY <2>3, <3>1, NothingHeard
  <2> QED
    BY <2>4, <2>5
<1> QED
  BY <1>6, <1>7

\* Every step is a step of what the action promises, or the driver does not hear of it.
LEMMA StepsPromised ==
  ASSUME GeneratorInv, [Next]_vars
  PROVE  [Activity!Next]_<<Pending("stream"), continued > 0>>
<1>1. ASSUME totals' = totals, continued' = continued
      PROVE  [Activity!Next]_<<Pending("stream"), continued > 0>>
  BY <1>1, NothingHeard DEF Pending
<1>2. ASSUME NEW g \in Gens, start(g)
      PROVE  [Activity!Next]_<<Pending("stream"), continued > 0>>
  <2>1. /\ On("start", g) /\ continued' = continued
        /\ totals' = totals \/ totals' = Created(totals, "stream")
    BY <1>2 DEF start, StreamStarts, StreamFailsToStart
  <2> QED
    BY <1>1, <2>1, StreamHeard
<1>3. ASSUME NEW g \in Gens, createStream(g)
      PROVE  [Activity!Next]_<<Pending("stream"), continued > 0>>
  <2>1. /\ On("generateNext", g) /\ continued' = continued
        /\ totals' = totals \/ totals' = Created(totals, "stream")
    BY <1>3 DEF createStream, StreamStarts, StreamFailsToStart
  <2> QED
    BY <1>1, <2>1, StreamHeard
<1>4. ASSUME NEW g \in Gens, createFlow(g)
      PROVE  [Activity!Next]_<<Pending("stream"), continued > 0>>
  <2>1. totals' = Created(totals, "flow") /\ continued' = continued
    BY <1>4 DEF createFlow
  <2>2. totals'["stream"] = totals["stream"]
    BY <2>1 DEF GeneratorInv, TypeOK, Things, Created
  <2>3. Pending("stream")' = Pending("stream")
    BY <2>2 DEF Pending
  <2> QED
    BY <2>1, <2>3, NothingHeard
<1>5. ASSUME NEW g \in Gens,
             \/ endObserved(g) \/ setTimer(g) \/ onComplete(g) \/ onNotify(g) \/ unref(g)
             \/ onTimerExpired(g) \/ streamCompletes(g)
      PROVE  [Activity!Next]_<<Pending("stream"), continued > 0>>
  <2>1. totals' = totals /\ continued' = continued
    BY <1>5 DEF endObserved, setTimer, onComplete, onNotify, unref, onTimerExpired,
                streamCompletes
  <2> QED
    BY <1>1, <2>1
<1>6. CASE over \/ UNCHANGED vars
  BY <1>1, <1>6 DEF over, vars
<1> QED
  BY <1>2, <1>3, <1>4, <1>5, <1>6, DriverHeard DEF Next, step

\* The generators keep what an action promises the driver (TGenActivity): it hears of every
\* stream before it is told to continue, and is told exactly once, when none is open.
THEOREM PromiseKept == Spec => KeepsPromise
<1>1. Init => Activity!Init
  <2> SUFFICES ASSUME Init PROVE Activity!Init
    OBVIOUS
  <2>1. Pending("stream") = 0 /\ continued = 0
    BY DEF Init, Pending, Things, CountedAs
  <2> QED
    BY <2>1 DEF Activity!Init
<1>2. GeneratorInv /\ [Next]_vars => [Activity!Next]_<<Pending("stream"), continued > 0>>
  BY StepsPromised
<1> QED
  BY <1>1, <1>2, GeneratorsInOrder, PTL DEF Spec, KeepsPromise, Activity!Spec
=============================================================================
