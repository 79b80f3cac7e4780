---------------------------- MODULE TGenIOProofs ----------------------------
(***************************************************************************)
(* Proofs about TGenIO, for any number of descriptors and any size of a    *)
(* batch: IOInv is inductive, whatever events reach the wrong child, and   *)
(* with it freeing the loop releases everything and no assertion fails in  *)
(* time.  The operators on the table come first, then the steps.           *)
(***************************************************************************)
EXTENDS TGenIO, TGenInduction

Kinds == {"stream", "server", "timer", "heartbeat"}

\* A table that is in order.
Good(D) == D \in [Fds -> FdType] /\ CountsInOrder(D) /\ BarriersInOrder(D)

\* Everything that is open is in the table of children.
Watched(D) == \A f \in Fds : D[f].kind # "closed" => D[f].reg

\* The descriptors that are open stay what they are, or are closed; only f may get
\* another barrier.
Steady(D, E, f) ==
  \A x \in Fds :
    D[x].kind # "closed" /\ E[x].kind # "closed" =>
      E[x].kind = D[x].kind /\ (x # f => E[x].barrier = D[x].barrier)
-----------------------------------------------------------------------------
(* The table.                                                               *)

\* Descriptors are numbers, and none of them is None.
LEMMA FdFacts == Fds \subseteq Nat /\ None \notin Fds
  BY MaxFdAssumption DEF Fds, None

\* What is in the table for a new descriptor that is not a timer, or is one.
LEMMA Records ==
  /\ Closed \in FdType
  /\ \A kind \in Kinds :
       /\ Registered(kind) \in FdType
       /\ Registered(kind).kind = kind /\ Registered(kind).reg
       /\ Registered(kind).refs = 1 /\ Registered(kind).barrier = "none"
       /\ Registered(kind).defer = None /\ Registered(kind).owner = None
       /\ kind \in {"timer", "heartbeat"} => Registered(kind).trefs = 1
       /\ kind \notin {"timer", "heartbeat"} => Registered(kind).trefs = 0
  <1>1. Closed \in FdType
    BY DEF Closed, FdType, None
  <1> SUFFICES ASSUME NEW kind \in Kinds
               PROVE  /\ Registered(kind) \in FdType
                      /\ Registered(kind).kind = kind /\ Registered(kind).reg
                      /\ Registered(kind).refs = 1 /\ Registered(kind).barrier = "none"
                      /\ Registered(kind).defer = None /\ Registered(kind).owner = None
                      /\ kind \in {"timer", "heartbeat"} => Registered(kind).trefs = 1
                      /\ kind \notin {"timer", "heartbeat"} => Registered(kind).trefs = 0
    BY <1>1
  <1>2. PICK n \in 0 .. 2 : n = IF kind \in {"timer", "heartbeat"} THEN 1 ELSE 0
    OBVIOUS
  <1>3. PICK a \in {"off", "armed", "expired"} :
          a = IF kind \in {"timer", "heartbeat"} THEN "armed" ELSE "off"
    OBVIOUS
  <1>4. Registered(kind) =
          [Closed EXCEPT !.kind = kind, !.reg = TRUE, !.refs = 1, !.watch = {"IN", "OUT"},
                         !.trefs = n, !.armed = a]
    BY <1>2, <1>3 DEF Registered
  <1>5. Registered(kind) =
          [kind |-> kind, reg |-> TRUE, refs |-> 1, watch |-> {"IN", "OUT"}, defer |-> None,
           barrier |-> "none", trefs |-> n, armed |-> a, owner |-> None]
    BY <1>4 DEF Closed
  <1>6. Registered(kind) \in FdType
    BY <1>5 DEF FdType, Kinds, None
  <1> QED
    BY <1>2, <1>5, <1>6

\* The lowest number that is free is free.
LEMMA LowestUnused ==
  ASSUME NEW D, Unused(D) # {}
  PROVE  Lowest(D) \in Fds /\ D[Lowest(D)].kind = "closed"
  <1>1. Unused(D) \subseteq Nat
    BY FdFacts DEF Unused
  <1>2. \E f \in Unused(D) : \A g \in Unused(D) : f <= g
    <2> DEFINE P == {n \in Nat : \A g \in Unused(D) : g > n}
    <2>1. CASE \A n \in Nat : n \in P
      <3>1. PICK f : f \in Unused(D)
        OBVIOUS
      <3>2. f \in P
        BY <1>1, <2>1, <3>1
      <3> QED
        BY <1>1, <3>1, <3>2
    <2>2. CASE 0 \notin P
      BY <1>1, <2>2
    <2>3. CASE \E n \in Nat : n \in P /\ n + 1 \notin P
      <3>1. PICK n \in Nat : n \in P /\ n + 1 \notin P
        BY <2>3
      <3>2. PICK f \in Unused(D) : ~(f > n + 1)
        BY <3>1
      <3>3. \A g \in Unused(D) : g > n
        BY <3>1
      <3>4. \A g \in Unused(D) : f <= g
        BY <1>1, <3>2, <3>3
      <3> QED
        BY <3>4
    <2> HIDE DEF P
    <2> QED
      BY <2>1, <2>2, <2>3, NatInductionSet
  <1> QED
    BY <1>2 DEF Lowest, Unused

\* socket(), accept() and timerfd_create() open one descriptor, or none.
LEMMA OpenForm ==
  ASSUME NEW D, NEW kind
  PROVE  \/ Open(D, kind) = D
         \/ \E f \in Fds : /\ D[f].kind = "closed"
                           /\ Open(D, kind) = [D EXCEPT ![f] = Registered(kind)]
  BY LowestUnused DEF Open
-----------------------------------------------------------------------------
(* The states of a stream and of its defer timer.                           *)

\* A stream has no defer timer, has one, or was taken from the table before its timer.
Plain(D, f) ==
  D[f].reg /\ D[f].defer = None /\ D[f].refs = 1 /\ \A t \in Fds : ~Serves(D, t, f)
Deferring(D, f) ==
  D[f].reg /\ D[f].defer \in Fds /\ Serves(D, D[f].defer, f) /\ D[f].refs = 2
Outlived(D, f) ==
  ~D[f].reg /\ D[f].defer = None /\ D[f].refs = 1 /\ \E t \in Fds : Serves(D, t, f)

\* A defer timer is held by the table and the stream, by the stream, or by the table.
Held(D, t) == D[t].reg /\ D[D[t].owner].defer = t /\ D[t].trefs = 2
Forgotten(D, t) == ~D[t].reg /\ D[D[t].owner].defer = t /\ D[t].trefs = 1
Orphaned(D, t) ==
  D[t].reg /\ D[D[t].owner].defer # t /\ ~D[D[t].owner].reg /\ D[t].trefs = 1

TidyStream(D, f) == D[f].trefs = 0 /\ (Plain(D, f) \/ Deferring(D, f) \/ Outlived(D, f))

TidyTimer(D, t) ==
  /\ D[t].defer = None /\ D[t].owner \in Fds /\ D[D[t].owner].kind = "stream"
  /\ Held(D, t) \/ Forgotten(D, t) \/ Orphaned(D, t)

TidyOther(D, f) ==
  /\ D[f].defer = None /\ D[f].owner = None /\ D[f].reg
  /\ D[f].trefs = IF D[f].kind = "server" THEN 0 ELSE 1

OnlyOne(D, f) == \A t, u \in Fds : Serves(D, t, f) /\ Serves(D, u, f) => t = u

Waits(D, f) ==
  D[f].barrier = "future" =>
    /\ D[f].kind = "stream" /\ "OUT" \notin D[f].watch
    /\ \A t \in Fds : Serves(D, t, f) => D[t].armed # "expired"

\* What Good says of one descriptor.
Tidy(D, f) ==
  /\ D[f].kind = "closed" => D[f] = Closed
  /\ D[f].kind = "stream" => TidyStream(D, f)
  /\ D[f].kind = "defer" => TidyTimer(D, f)
  /\ D[f].kind \in {"server", "timer", "heartbeat"} => TidyOther(D, f)
  /\ OnlyOne(D, f)
  /\ Waits(D, f)

\* How many refer to a stream's child.
LEMMA ChildRefsValue ==
  ASSUME NEW D, NEW f \in Fds
  PROVE  /\ ~D[f].reg /\ (\A t \in Fds : ~Serves(D, t, f)) => ChildRefs(D, f) = 0
         /\ D[f].reg /\ (\A t \in Fds : ~Serves(D, t, f)) => ChildRefs(D, f) = 1
         /\ ~D[f].reg /\ (\E t \in Fds : Serves(D, t, f)) => ChildRefs(D, f) = 1
         /\ D[f].reg /\ (\E t \in Fds : Serves(D, t, f)) => ChildRefs(D, f) = 2
  BY DEF ChildRefs, One

\* How many refer to a defer timer.
LEMMA TimerRefsValue ==
  ASSUME NEW D, NEW t \in Fds
  PROVE  /\ ~D[t].reg /\ D[D[t].owner].defer # t => TimerRefs(D, t) = 0
         /\ D[t].reg /\ D[D[t].owner].defer # t => TimerRefs(D, t) = 1
         /\ ~D[t].reg /\ D[D[t].owner].defer = t => TimerRefs(D, t) = 1
         /\ D[t].reg /\ D[D[t].owner].defer = t => TimerRefs(D, t) = 2
  BY DEF TimerRefs, One

\* In a table that is in order every descriptor is.
LEMMA GoodIsTidy ==
  ASSUME NEW D, Good(D), NEW f \in Fds
  PROVE  Tidy(D, f)
  <1>1. D \in [Fds -> FdType] /\ CountsInOrder(D) /\ BarriersInOrder(D)
    BY DEF Good
  <1>2. D[f] \in FdType
    BY <1>1
  <1>3. ASSUME NEW t \in Fds, D[t].kind = "defer"
        PROVE  TimerCounts(D, t) /\ D[t].owner \in Fds
    <2>1. TimerCounts(D, t)
      BY <1>1, <1>3 DEF CountsInOrder
    <2>2. D[t] \in FdType
      BY <1>1
    <2> QED
      BY <2>1, <2>2 DEF TimerCounts, FdType
  <1>4. ASSUME D[f].kind = "stream"
        PROVE  TidyStream(D, f)
    <2>1. ChildCounts(D, f)
      BY <1>1, <1>4 DEF CountsInOrder
    <2>2. D[f].defer \in Fds \cup {None}
      BY <1>2 DEF FdType
    <2>3. CASE D[f].reg /\ \A t \in Fds : ~Serves(D, t, f)
      <3>1. D[f].defer = None
        BY <2>1, <2>2, <2>3 DEF ChildCounts
      <3> QED
        BY <2>1, <2>3, <3>1, ChildRefsValue DEF ChildCounts, TidyStream, Plain
    <2>4. CASE D[f].reg /\ \E t \in Fds : Serves(D, t, f)
      <3>1. PICK t \in Fds : Serves(D, t, f)
        BY <2>4
      <3>2. D[f].defer = t
        BY <1>3, <2>4, <3>1 DEF Serves, TimerCounts
      <3> QED
        BY <2>1, <2>4, <3>1, <3>2, ChildRefsValue DEF ChildCounts, TidyStream, Deferring
    <2>5. CASE ~D[f].reg
      <3>1. \E t \in Fds : Serves(D, t, f)
        BY <2>1, <2>5, ChildRefsValue DEF ChildCounts
      <3> QED
        BY <2>1, <2>2, <2>5, <3>1, ChildRefsValue DEF ChildCounts, TidyStream, Outlived
    <2> QED
      BY <1>2, <2>3, <2>4, <2>5
  <1>5. ASSUME D[f].kind = "defer"
        PROVE  TidyTimer(D, f)
    <2>1. TimerCounts(D, f) /\ D[f].owner \in Fds
      BY <1>3, <1>5
    <2>2. Held(D, f) \/ Forgotten(D, f) \/ Orphaned(D, f)
      BY <2>1, TimerRefsValue DEF TimerCounts, Held, Forgotten, Orphaned
    <2> QED
      BY <2>1, <2>2 DEF TimerCounts, TidyTimer
  <1>6. ASSUME D[f].kind \in {"server", "timer", "heartbeat"}
        PROVE  TidyOther(D, f)
    BY <1>1, <1>6 DEF CountsInOrder, OtherCounts, TidyOther, One
  <1>7. OnlyOne(D, f) /\ Waits(D, f)
    BY <1>1 DEF CountsInOrder, BarriersInOrder, OnlyOne, Waits
  <1> QED
    BY <1>1, <1>4, <1>5, <1>6, <1>7 DEF Tidy, CountsInOrder

\* A table in which every descriptor is in order is.
LEMMA TidyIsGood ==
  ASSUME NEW D \in [Fds -> FdType], \A f \in Fds : Tidy(D, f)
  PROVE  Good(D)
  <1>1. ASSUME NEW f \in Fds, D[f].kind = "stream"
        PROVE  ChildCounts(D, f)
    <2>1. TidyStream(D, f)
      BY <1>1 DEF Tidy
    <2>2. CASE Plain(D, f)
      BY <2>1, <2>2, ChildRefsValue DEF TidyStream, Plain, ChildCounts
    <2>3. CASE Deferring(D, f)
      BY <2>1, <2>3, ChildRefsValue DEF TidyStream, Deferring, ChildCounts
    <2>4. CASE Outlived(D, f)
      BY <2>1, <2>4, ChildRefsValue DEF TidyStream, Outlived, ChildCounts
    <2> QED
      BY <2>1, <2>2, <2>3, <2>4 DEF TidyStream
  <1>2. ASSUME NEW t \in Fds, D[t].kind = "defer"
        PROVE  TimerCounts(D, t)
    <2>1. TidyTimer(D, t)
      BY <1>2 DEF Tidy
    <2>2. D[t].owner # None /\ D[t].owner \in Fds
      BY <2>1, FdFacts DEF TidyTimer
    <2>3. TidyStream(D, D[t].owner)
      BY <2>1 DEF Tidy, TidyTimer
    <2>4. D[D[t].owner].defer = t => D[D[t].owner].reg
      BY <2>3, FdFacts DEF TidyStream, Plain, Deferring, Outlived
    <2>5. CASE Held(D, t)
      BY <2>1, <2>2, <2>4, <2>5, TimerRefsValue DEF TidyTimer, Held, TimerCounts
    <2>6. CASE Forgotten(D, t)
      BY <2>1, <2>2, <2>4, <2>6, TimerRefsValue DEF TidyTimer, Forgotten, TimerCounts
    <2>7. CASE Orphaned(D, t)
      BY <2>1, <2>2, <2>4, <2>7, TimerRefsValue DEF TidyTimer, Orphaned, TimerCounts
    <2> QED
      BY <2>1, <2>5, <2>6, <2>7 DEF TidyTimer
  <1>3. ASSUME NEW f \in Fds, D[f].kind \in {"server", "timer", "heartbeat"}
        PROVE  OtherCounts(D, f)
    BY <1>3 DEF Tidy, TidyOther, OtherCounts, One
  <1>4. \A f \in Fds : (D[f].kind = "closed" => D[f] = Closed) /\ OnlyOne(D, f) /\ Waits(D, f)
    BY DEF Tidy
  <1>5. CountsInOrder(D)
    BY <1>1, <1>2, <1>3, <1>4 DEF CountsInOrder, OnlyOne
  <1>6. BarriersInOrder(D)
    BY <1>4 DEF BarriersInOrder, Waits
  <1> QED
    BY <1>5, <1>6 DEF Good

\* S holds with a stream its defer timer, and with a timer its stream.
Whole(D, S) == \A x \in S, y \in Fds \ S : ~Serves(D, x, y) /\ ~Serves(D, y, x)

\* A change of such a set leaves all others in order.
LEMMA WholeChange ==
  ASSUME NEW D, Good(D), NEW E \in [Fds -> FdType], NEW S \in SUBSET Fds,
         \A x \in Fds \ S : E[x] = D[x],
         Whole(D, S), Whole(E, S),
         \A x \in S : Tidy(E, x)
  PROVE  Good(E)
  <1> SUFFICES ASSUME NEW f \in Fds \ S
               PROVE  Tidy(E, f)
    BY TidyIsGood
  <1>1. Tidy(D, f) /\ E[f] = D[f]
    BY GoodIsTidy
  <1>2. \A t \in Fds : Serves(E, t, f) => t \notin S /\ E[t] = D[t] /\ Serves(D, t, f)
    BY DEF Whole, Serves
  <1>3. \A t \in Fds : Serves(D, t, f) => t \notin S /\ E[t] = D[t] /\ Serves(E, t, f)
    BY DEF Whole, Serves
  <1>4. D[f].kind = "stream" => TidyStream(E, f)
    BY <1>1, <1>2, <1>3 DEF Tidy, TidyStream, Plain, Deferring, Outlived
  <1>5. D[f].kind = "defer" => TidyTimer(E, f)
    <2> SUFFICES ASSUME D[f].kind = "defer"
                 PROVE  TidyTimer(E, f)
      OBVIOUS
    <2>1. TidyTimer(D, f)
      BY <1>1 DEF Tidy
    <2>2. Serves(D, f, D[f].owner) /\ D[f].owner \in Fds
      BY <2>1 DEF Serves, TidyTimer
    <2>3. E[D[f].owner] = D[D[f].owner]
      BY <2>2 DEF Whole
    <2> QED
      BY <1>1, <2>1, <2>3 DEF TidyTimer, Held, Forgotten, Orphaned
  <1>6. D[f].kind \in {"server", "timer", "heartbeat"} => TidyOther(E, f)
    BY <1>1 DEF Tidy, TidyOther
  <1>7. OnlyOne(E, f) /\ Waits(E, f)
    BY <1>1, <1>2 DEF Tidy, OnlyOne, Waits
  <1> QED
    BY <1>1, <1>4, <1>5, <1>6, <1>7 DEF Tidy

\* A set that is closed is in order.
LEMMA ClosedSet ==
  ASSUME NEW D, Good(D), NEW S \in SUBSET Fds, Whole(D, S), NEW E,
         E = [x \in Fds |-> IF x \in S THEN Closed ELSE D[x]]
  PROVE  Good(E)
  <1>1. D \in [Fds -> FdType]
    BY DEF Good
  <1>2. \A x \in S : E[x] = Closed
    OBVIOUS
  <1>3. \A x \in Fds \ S : E[x] = D[x]
    OBVIOUS
  <1>4. E \in [Fds -> FdType]
    BY <1>1, Records
  <1>5. Closed.kind = "closed" /\ Closed.barrier = "none"
    BY DEF Closed
  <1>6. Whole(E, S)
    BY <1>2, <1>3, <1>5 DEF Whole, Serves
  <1>7. ASSUME NEW x \in S
        PROVE  Tidy(E, x)
    <2>1. \A t \in Fds : ~Serves(E, t, x)
      <3>1. \A t \in S : ~Serves(E, t, x)
        BY <1>2, <1>5 DEF Serves
      <3>2. \A t \in Fds \ S : ~Serves(E, t, x)
        BY <1>6 DEF Whole
      <3> QED
        BY <3>1, <3>2
    <2> QED
      BY <1>2, <1>5, <2>1 DEF Tidy, OnlyOne, Waits
  <1> QED
    BY <1>3, <1>4, <1>6, <1>7, WholeChange

\* A stream and its defer timer are such a set.
LEMMA PairIsWhole ==
  ASSUME NEW D, Good(D), NEW f \in Fds, NEW t \in Fds, Serves(D, t, f)
  PROVE  f # t /\ D[f].kind = "stream" /\ Whole(D, {f, t})
  <1>1. Tidy(D, f) /\ Tidy(D, t) /\ \A x \in Fds : Tidy(D, x)
    BY GoodIsTidy
  <1>2. D[t].kind = "defer" /\ D[t].owner = f /\ TidyTimer(D, t)
    BY <1>1 DEF Serves, Tidy
  <1>3. f # t /\ D[f].kind = "stream"
    BY <1>2 DEF TidyTimer
  <1>4. \A y \in Fds \ {f, t} : ~Serves(D, f, y) /\ ~Serves(D, t, y)
    BY <1>2, <1>3 DEF Serves
  <1>5. \A y \in Fds \ {f, t} : ~Serves(D, y, f)
    BY <1>1 DEF Tidy, OnlyOne
  <1>6. \A y \in Fds : ~Serves(D, y, t)
    BY <1>1, <1>2 DEF Tidy, TidyTimer, Serves
  <1> QED
    BY <1>3, <1>4, <1>5, <1>6 DEF Whole

\* So is every other descriptor.
LEMMA OneIsWhole ==
  ASSUME NEW D, Good(D), NEW f \in Fds,
         D[f].kind \notin {"stream", "defer"} \/ (D[f].kind = "stream" /\ Plain(D, f))
  PROVE  Whole(D, {f})
  <1>1. \A y \in Fds : ~Serves(D, f, y)
    BY DEF Serves
  <1>2. \A y \in Fds : Serves(D, y, f) => D[f].kind = "stream"
    BY PairIsWhole
  <1>3. \A y \in Fds : ~Serves(D, y, f)
    BY <1>2 DEF Plain
  <1> QED
    BY <1>1, <1>3 DEF Whole

\* The descriptors that are open stay as they are; and those of E are ones of D.
Grows(D, E) == \A x \in Fds : D[x].kind # "closed" => E[x] = D[x]

Shrinks(D, E) ==
  \A x \in Fds : E[x].kind = "closed" \/ (E[x].kind = D[x].kind /\ E[x].barrier = D[x].barrier)

\* A new descriptor leaves the table in order.
LEMMA OpenKeeps ==
  ASSUME NEW D, Good(D), NEW kind \in Kinds
  PROVE  /\ Good(Open(D, kind))
         /\ Watched(D) => Watched(Open(D, kind))
         /\ Grows(D, Open(D, kind))
  <1> SUFFICES ASSUME NEW f \in Fds, D[f].kind = "closed",
                      NEW E, E = [D EXCEPT ![f] = Registered(kind)]
               PROVE  Good(E) /\ (Watched(D) => Watched(E)) /\ Grows(D, E)
    BY OpenForm DEF Grows
  <1>1. D \in [Fds -> FdType]
    BY DEF Good
  <1>2. E[f] = Registered(kind) /\ \A x \in Fds \ {f} : E[x] = D[x]
    BY <1>1
  <1>3. E \in [Fds -> FdType]
    BY <1>1, Records
  <1>4. /\ E[f].kind = kind /\ E[f].reg /\ E[f].refs = 1 /\ E[f].defer = None
        /\ E[f].owner = None /\ E[f].barrier = "none"
        /\ kind \in {"timer", "heartbeat"} => E[f].trefs = 1
        /\ kind \notin {"timer", "heartbeat"} => E[f].trefs = 0
    BY <1>2, Records
  <1>5. Whole(D, {f})
    BY OneIsWhole
  <1>6. Whole(E, {f})
    BY <1>2, <1>4, <1>5 DEF Whole, Serves, Kinds
  <1>7. Tidy(E, f)
    <2>1. \A t \in Fds : ~Serves(E, t, f)
      BY <1>4, <1>6 DEF Whole, Serves, Kinds
    <2>2. kind = "stream" => TidyStream(E, f)
      BY <1>4, <2>1 DEF TidyStream, Plain
    <2>3. kind # "stream" => TidyOther(E, f)
      BY <1>4 DEF TidyOther, Kinds
    <2> QED
      BY <1>4, <2>1, <2>2, <2>3 DEF Tidy, OnlyOne, Waits, Kinds
  <1>8. Good(E)
    <2>1. PICK S \in SUBSET Fds : S = {f}
      OBVIOUS
    <2>2. Whole(D, S) /\ Whole(E, S) /\ \A x \in S : Tidy(E, x)
      BY <1>5, <1>6, <1>7, <2>1
    <2>3. \A x \in Fds \ S : E[x] = D[x]
      BY <1>2, <2>1
    <2> QED
      BY <1>3, <2>2, <2>3, WholeChange
  <1> QED
    BY <1>2, <1>4, <1>8 DEF Watched, Grows

\* So does one that is opened only if it is wanted.
LEMMA OpenIfKeeps ==
  ASSUME NEW D, Good(D), NEW kind \in Kinds, NEW wanted
  PROVE  /\ Good(OpenIf(D, wanted, kind))
         /\ Watched(D) => Watched(OpenIf(D, wanted, kind))
         /\ Grows(D, OpenIf(D, wanted, kind))
  BY OpenKeeps DEF OpenIf, Grows

\* What the driver starts leaves the table in order.
LEMMA SpawnKeeps ==
  ASSUME NEW D, Good(D), NEW kinds
  PROVE  /\ Good(Spawn(D, kinds))
         /\ Watched(D) => Watched(Spawn(D, kinds))
         /\ Grows(D, Spawn(D, kinds))
  <1>1. "stream" \in Kinds /\ "timer" \in Kinds
    BY DEF Kinds
  <1> DEFINE E == OpenIf(D, "stream" \in kinds, "stream")
  <1>2. Good(E) /\ (Watched(D) => Watched(E)) /\ Grows(D, E)
    BY <1>1, OpenIfKeeps
  <1> DEFINE F == OpenIf(E, "timer" \in kinds, "timer")
  <1> HIDE DEF E
  <1>3. Good(F) /\ (Watched(E) => Watched(F)) /\ Grows(E, F)
    BY <1>1, <1>2, OpenIfKeeps
  <1>4. Spawn(D, kinds) = F
    BY DEF Spawn, E
  <1> HIDE DEF F
  <1>5. Grows(D, F)
    BY <1>2, <1>3 DEF Grows
  <1> QED
    BY <1>2, <1>3, <1>4, <1>5
-----------------------------------------------------------------------------
(* Children and timers leave the table.                                     *)

\* The child f of a stream forgets its defer timer t.
Dropped(D, E, f, t) ==
  /\ E \in [Fds -> FdType]
  /\ \A x \in Fds \ {f, t} : E[x] = D[x]
  /\ D[t].trefs = 2 => /\ E[f] = [D[f] EXCEPT !.defer = None]
                       /\ E[t] = [D[t] EXCEPT !.armed = "off", !.trefs = 1]
  /\ D[t].trefs = 1 => /\ E[f] = [D[f] EXCEPT !.defer = None, !.refs = 1]
                       /\ E[t] = Closed

\* That is what DropDeferTimer does.
LEMMA DropForm ==
  ASSUME NEW D \in [Fds -> FdType], NEW f \in Fds, NEW t \in Fds, f # t,
         D[f].defer = t, D[f].refs = 2, D[t].owner = f, D[t].trefs \in {1, 2},
         NEW E, E = DropDeferTimer(D, f)
  PROVE  Dropped(D, E, f, t)
  <1>1. D[f] \in FdType /\ D[t] \in FdType /\ t # None /\ f # None
    BY FdFacts
  <1>2. PICK F : F = [D EXCEPT ![f].defer = None, ![t].armed = "off"]
    OBVIOUS
  <1>3. /\ F[f] = [D[f] EXCEPT !.defer = None] /\ F[t] = [D[t] EXCEPT !.armed = "off"]
        /\ \A x \in Fds \ {f, t} : F[x] = D[x]
        /\ DOMAIN F = Fds
    BY <1>2
  <1>4. F[f] \in FdType /\ F[t] \in FdType
    BY <1>1, <1>3 DEF FdType
  <1>5. F \in [Fds -> FdType]
    <2>1. \A x \in Fds : F[x] \in FdType
      BY <1>3, <1>4
    <2>2. F = [x \in Fds |-> F[x]]
      BY <1>2
    <2> QED
      BY <2>1, <2>2
  <1>6. F[t].trefs = D[t].trefs /\ F[t].owner = f /\ F[f].refs = 2
    BY <1>1, <1>3 DEF FdType
  <1>7. E = TimerUnref(F, t)
    BY <1>1, <1>2 DEF DropDeferTimer
  <1>8. CASE D[t].trefs = 2
    <2>1. E = [F EXCEPT ![t].trefs = 1]
      BY <1>6, <1>7, <1>8 DEF TimerUnref
    <2>2. /\ E[f] = F[f] /\ E[t] = [F[t] EXCEPT !.trefs = 1]
          /\ \A x \in Fds \ {f, t} : E[x] = F[x]
      BY <1>5, <2>1
    <2>3. [F[t] EXCEPT !.trefs = 1] \in FdType
      BY <1>4 DEF FdType
    <2>4. E \in [Fds -> FdType]
      BY <1>5, <2>1, <2>3
    <2>5. E[t] = [D[t] EXCEPT !.armed = "off", !.trefs = 1]
      BY <1>3, <2>2
    <2> QED
      BY <1>3, <1>8, <2>2, <2>4, <2>5 DEF Dropped
  <1>9. CASE D[t].trefs = 1
    <2>1. PICK G : G = [F EXCEPT ![t] = Closed]
      OBVIOUS
    <2>2. G \in [Fds -> FdType] /\ G[t] = Closed /\ \A x \in Fds \ {t} : G[x] = F[x]
      BY <1>5, <2>1, Records
    <2>3. E = ChildUnref(G, f)
      BY <1>1, <1>6, <1>7, <1>9, <2>1 DEF TimerUnref
    <2>4. E = [G EXCEPT ![f].refs = 1]
      <3>1. G[f].refs = 2
        BY <1>6, <2>2
      <3>2. G[f].refs > 1 /\ G[f].refs - 1 = 1
        BY <3>1
      <3>3. E = [G EXCEPT ![f].refs = G[f].refs - 1]
        BY <2>3, <3>2 DEF ChildUnref
      <3> QED
        BY <3>2, <3>3
    <2>5. /\ E[f] = [F[f] EXCEPT !.refs = 1] /\ E[t] = Closed
          /\ \A x \in Fds \ {f, t} : E[x] = F[x]
      BY <2>2, <2>4
    <2>6. [F[f] EXCEPT !.refs = 1] \in FdType
      BY <1>4 DEF FdType
    <2>7. E \in [Fds -> FdType]
      BY <2>2, <2>4, <2>5, <2>6
    <2>8. E[f] = [D[f] EXCEPT !.defer = None, !.refs = 1]
      BY <1>3, <2>5
    <2> QED
      BY <1>3, <1>9, <2>5, <2>7, <2>8 DEF Dropped
  <1> QED
    BY <1>8, <1>9


\* What nobody else refers to is closed when it leaves the table.
LEMMA DestroyOne ==
  ASSUME NEW D \in [Fds -> FdType], NEW f \in Fds,
         \/ D[f].kind # "stream" /\ D[f].trefs = 0
         \/ D[f].kind # "stream" /\ D[f].trefs = 1 /\ D[f].owner = None
         \/ D[f].kind = "stream" /\ D[f].defer = None /\ D[f].refs = 1
  PROVE  HashTableDestroy(D, f) = [D EXCEPT ![f] = Closed]
  <1>1. D[f] \in FdType
    OBVIOUS
  <1>2. PICK F : F = [D EXCEPT ![f].reg = FALSE]
    OBVIOUS
  <1>3. F[f] = [D[f] EXCEPT !.reg = FALSE]
    BY <1>2
  <1>4. /\ F[f].trefs = D[f].trefs /\ F[f].owner = D[f].owner /\ F[f].defer = D[f].defer
        /\ F[f].refs = D[f].refs
    BY <1>1, <1>3 DEF FdType
  <1>5. [F EXCEPT ![f] = Closed] = [D EXCEPT ![f] = Closed]
    BY <1>2
  <1>6. CASE D[f].kind # "stream" /\ D[f].trefs = 0
    <2>1. ~(D[f].trefs > 0)
      BY <1>6
    <2>2. HashTableDestroy(D, f) = [F EXCEPT ![f] = Closed]
      BY <1>2, <1>6, <2>1 DEF HashTableDestroy
    <2> QED
      BY <1>5, <2>2
  <1>7. CASE D[f].kind # "stream" /\ D[f].trefs = 1 /\ D[f].owner = None
    <2>1. PICK G : G = [F EXCEPT ![f].refs = 0]
      OBVIOUS
    <2>2. G[f] = [F[f] EXCEPT !.refs = 0] /\ [G EXCEPT ![f] = Closed] = [F EXCEPT ![f] = Closed]
      BY <1>2, <2>1
    <2>3. F[f] \in FdType
      BY <1>1, <1>3 DEF FdType
    <2>4. G[f].trefs = 1 /\ G[f].owner = None
      BY <1>4, <1>7, <2>2, <2>3 DEF FdType
    <2>5. D[f].trefs > 0 /\ ~(G[f].trefs > 1)
      BY <1>7, <2>4
    <2>6. HashTableDestroy(D, f) = TimerUnref(G, f)
      BY <1>2, <1>7, <2>1, <2>5 DEF HashTableDestroy
    <2>7. TimerUnref(G, f) = [G EXCEPT ![f] = Closed]
      BY <2>4, <2>5 DEF TimerUnref
    <2> QED
      BY <1>5, <2>2, <2>6, <2>7
  <1>8. CASE D[f].kind = "stream" /\ D[f].defer = None /\ D[f].refs = 1
    <2>1. ~(F[f].refs > 1)
      BY <1>4, <1>8
    <2>2. DropDeferTimer(F, f) = F
      BY <1>4, <1>8 DEF DropDeferTimer
    <2>3. HashTableDestroy(D, f) = ChildUnref(F, f)
      BY <1>2, <1>8, <2>2 DEF HashTableDestroy
    <2>4. ChildUnref(F, f) = [F EXCEPT ![f] = Closed]
      BY <2>1 DEF ChildUnref
    <2> QED
      BY <1>5, <2>3, <2>4
  <1> QED
    BY <1>6, <1>7, <1>8

\* A defer timer that leaves the table stays as long as the stream refers to it; else it
\* releases the stream's child.
TimerDestroyed(D, E, f, t) ==
  /\ E \in [Fds -> FdType]
  /\ \A x \in Fds \ {f, t} : E[x] = D[x]
  /\ D[t].trefs = 2 => /\ E[f] = D[f]
                       /\ E[t] = [D[t] EXCEPT !.reg = FALSE, !.refs = 0, !.trefs = 1]
  /\ D[t].trefs = 1 => /\ E[t] = Closed
                       /\ D[f].refs = 2 => E[f] = [D[f] EXCEPT !.refs = 1]
                       /\ D[f].refs = 1 => E[f] = Closed

\* That is what HashTableDestroy does with a defer timer.
LEMMA DestroyTimer ==
  ASSUME NEW D \in [Fds -> FdType], NEW t \in Fds, NEW f \in Fds, f # t,
         D[t].kind = "defer", D[t].owner = f, D[t].trefs \in {1, 2}, D[f].refs \in {1, 2},
         NEW E, E = HashTableDestroy(D, t)
  PROVE  TimerDestroyed(D, E, f, t)
  <1>1. D[f] \in FdType /\ D[t] \in FdType /\ f # None
    BY FdFacts
  <1>2. PICK F : F = [[D EXCEPT ![t].reg = FALSE] EXCEPT ![t].refs = 0]
    OBVIOUS
  <1>3. E = TimerUnref(F, t)
    <2>1. D[t].trefs > 0
      OBVIOUS
    <2> QED
      BY <1>2, <2>1 DEF HashTableDestroy
  <1>4. F[t] = [D[t] EXCEPT !.reg = FALSE, !.refs = 0] /\ \A x \in Fds \ {t} : F[x] = D[x]
    BY <1>2
  <1>5. F[t] \in FdType
    <2>1. PICK r : r = [D[t] EXCEPT !.reg = FALSE]
      OBVIOUS
    <2>2. r \in FdType
      BY <1>1, <2>1 DEF FdType
    <2>3. F[t] = [r EXCEPT !.refs = 0]
      BY <1>4, <2>1
    <2> QED
      BY <2>2, <2>3 DEF FdType
  <1>6. F \in [Fds -> FdType]
    <2>1. \A x \in Fds : F[x] \in FdType
      BY <1>4, <1>5
    <2>2. F = [x \in Fds |-> F[x]]
      BY <1>2
    <2> QED
      BY <2>1, <2>2
  <1>7. F[t].trefs = D[t].trefs /\ F[t].owner = f
    BY <1>1, <1>4 DEF FdType
  <1>8. CASE D[t].trefs = 2
    <2>1. F[t].trefs > 1 /\ F[t].trefs - 1 = 1
      BY <1>7, <1>8
    <2>2. E = [F EXCEPT ![t].trefs = F[t].trefs - 1]
      BY <1>3, <2>1 DEF TimerUnref
    <2>3. E[t] = [F[t] EXCEPT !.trefs = 1] /\ \A x \in Fds \ {t} : E[x] = F[x]
      BY <1>6, <2>1, <2>2
    <2>4. E[t] = [D[t] EXCEPT !.reg = FALSE, !.refs = 0, !.trefs = 1]
      BY <1>4, <2>3
    <2>5. E[t] \in FdType
      BY <1>5, <2>3 DEF FdType
    <2>6. E \in [Fds -> FdType]
      BY <1>6, <2>2, <2>3, <2>5
    <2> QED
      BY <1>4, <1>8, <2>3, <2>4, <2>6 DEF TimerDestroyed
  <1>9. CASE D[t].trefs = 1
    <2>1. PICK G : G = [F EXCEPT ![t] = Closed]
      OBVIOUS
    <2>2. G \in [Fds -> FdType] /\ G[t] = Closed /\ \A x \in Fds \ {t} : G[x] = D[x]
      BY <1>4, <1>6, <2>1, Records
    <2>3. ~(F[t].trefs > 1) /\ F[t].owner # None
      BY <1>1, <1>7, <1>9
    <2>4. E = ChildUnref(G, f)
      BY <1>3, <1>7, <2>1, <2>3 DEF TimerUnref
    <2>5. CASE D[f].refs = 2
      <3>1. G[f].refs > 1 /\ G[f].refs - 1 = 1
        BY <2>2, <2>5
      <3>2. E = [G EXCEPT ![f].refs = G[f].refs - 1]
        BY <2>4, <3>1 DEF ChildUnref
      <3>3. E[f] = [D[f] EXCEPT !.refs = 1] /\ \A x \in Fds \ {f} : E[x] = G[x]
        BY <2>2, <3>1, <3>2
      <3>4. E[f] \in FdType
        BY <1>1, <3>3 DEF FdType
      <3>5. E \in [Fds -> FdType]
        BY <2>2, <3>2, <3>3, <3>4
      <3> QED
        BY <1>9, <2>2, <2>5, <3>3, <3>5 DEF TimerDestroyed
    <2>6. CASE D[f].refs = 1
      <3>1. ~(G[f].refs > 1)
        BY <2>2, <2>6
      <3>2. E = [G EXCEPT ![f] = Closed]
        BY <2>4, <3>1 DEF ChildUnref
      <3> QED
        BY <1>9, <2>2, <2>6, <3>2, Records DEF TimerDestroyed
    <2> QED
      BY <2>5, <2>6
  <1> QED
    BY <1>8, <1>9


\* Closing a stream with its timer, or another descriptor, leaves the table in order.
LEMMA CloseKeeps ==
  ASSUME NEW D, Good(D), NEW S \in SUBSET Fds, Whole(D, S), NEW E \in [Fds -> FdType],
         \A x \in S : E[x] = Closed, \A x \in Fds \ S : E[x] = D[x]
  PROVE  Good(E) /\ Shrinks(D, E) /\ (Watched(D) => Watched(E))
  <1>1. E = [x \in Fds |-> IF x \in S THEN Closed ELSE D[x]]
    OBVIOUS
  <1>2. Good(E)
    BY <1>1, ClosedSet
  <1>3. Closed.kind = "closed"
    BY DEF Closed
  <1> QED
    BY <1>2, <1>3 DEF Shrinks, Watched

\* One descriptor is closed.
LEMMA CloseOne ==
  ASSUME NEW D, Good(D), NEW f \in Fds, Whole(D, {f}), NEW E, E = [D EXCEPT ![f] = Closed]
  PROVE  Good(E) /\ Shrinks(D, E) /\ (Watched(D) => Watched(E))
  <1>1. D \in [Fds -> FdType]
    BY DEF Good
  <1>2. PICK S \in SUBSET Fds : S = {f}
    OBVIOUS
  <1>3. E \in [Fds -> FdType] /\ (\A x \in S : E[x] = Closed) /\ \A x \in Fds \ S : E[x] = D[x]
    BY <1>1, <1>2, Records
  <1>4. Whole(D, S)
    BY <1>2
  <1> QED
    BY <1>3, <1>4, CloseKeeps

\* A stream and its defer timer are closed.
LEMMA ClosePair ==
  ASSUME NEW D, Good(D), NEW f \in Fds, NEW t \in Fds, Serves(D, t, f),
         NEW E \in [Fds -> FdType], E[f] = Closed, E[t] = Closed,
         \A x \in Fds \ {f, t} : E[x] = D[x]
  PROVE  Good(E) /\ Shrinks(D, E) /\ (Watched(D) => Watched(E))
  <1>1. PICK S \in SUBSET Fds : S = {f, t}
    OBVIOUS
  <1>2. (\A x \in S : E[x] = Closed) /\ \A x \in Fds \ S : E[x] = D[x]
    BY <1>1
  <1>3. Whole(D, S)
    BY <1>1, PairIsWhole
  <1> QED
    BY <1>2, <1>3, CloseKeeps

\* A stream or its defer timer leaves the table, or both change together.
LEMMA PairChange ==
  ASSUME NEW D, Good(D), NEW f \in Fds, NEW t \in Fds, Serves(D, t, f),
         NEW E \in [Fds -> FdType], \A x \in Fds \ {f, t} : E[x] = D[x],
         Serves(E, t, f), E[f].kind = "stream",
         E[f].barrier = D[f].barrier, E[f].watch = D[f].watch, E[t].barrier = D[t].barrier,
         E[t].armed = D[t].armed \/ E[t].armed = "off",
         TidyStream(E, f), TidyTimer(E, t)
  PROVE  Good(E) /\ Shrinks(D, E)
  <1>1. PICK S \in SUBSET Fds : S = {f, t}
    OBVIOUS
  <1>2. f # t /\ D[f].kind = "stream" /\ Whole(D, S)
    BY <1>1, PairIsWhole
  <1>3. E[t].kind = "defer" /\ E[t].owner = f /\ D[t].kind = "defer"
    BY DEF Serves
  <1>4. \A y \in Fds \ S : E[y] = D[y]
    BY <1>1
  <1>5. Whole(E, S)
    BY <1>1, <1>2, <1>3, <1>4 DEF Whole, Serves
  <1>6. OnlyOne(E, f) /\ \A u \in Fds : Serves(E, u, f) => u = t
    BY <1>1, <1>3, <1>5 DEF OnlyOne, Whole, Serves
  <1>7. \A u \in Fds : ~Serves(E, u, t)
    BY <1>1, <1>2, <1>3, <1>5 DEF Whole, Serves
  <1>8. Tidy(D, f) /\ Tidy(D, t)
    BY GoodIsTidy
  <1>9. Waits(E, f)
    BY <1>6, <1>8 DEF Tidy, Waits
  <1>10. Waits(E, t)
    BY <1>3, <1>8 DEF Tidy, Waits
  <1>11. Tidy(E, f)
    BY <1>6, <1>9 DEF Tidy
  <1>12. Tidy(E, t)
    BY <1>3, <1>7, <1>10 DEF Tidy, OnlyOne
  <1>13. \A x \in S : Tidy(E, x)
    BY <1>1, <1>11, <1>12
  <1>14. Good(E)
    BY <1>2, <1>4, <1>5, <1>13, WholeChange
  <1>15. Shrinks(D, E)
    BY <1>2, <1>3 DEF Shrinks
  <1> QED
    BY <1>14, <1>15


\* A stream that defers its writes, with its timer.
LEMMA DeferringPair ==
  ASSUME NEW D, Good(D), NEW f \in Fds, D[f].kind = "stream", Deferring(D, f)
  PROVE  LET t == D[f].defer IN
         /\ t \in Fds /\ t # f /\ Serves(D, t, f)
         /\ D[t].kind = "defer" /\ D[t].owner = f /\ TidyTimer(D, t)
         /\ (D[t].reg /\ D[t].trefs = 2) \/ (~D[t].reg /\ D[t].trefs = 1)
  <1>1. PICK t : t = D[f].defer
    OBVIOUS
  <1>2. t \in Fds /\ Serves(D, t, f)
    BY <1>1 DEF Deferring
  <1>3. t # f /\ D[t].kind = "defer" /\ D[t].owner = f
    BY <1>2 DEF Serves
  <1>4. TidyTimer(D, t)
    BY <1>2, <1>3, GoodIsTidy DEF Tidy
  <1>5. (D[t].reg /\ D[t].trefs = 2) \/ (~D[t].reg /\ D[t].trefs = 1)
    BY <1>1, <1>3, <1>4 DEF TidyTimer, Held, Forgotten, Orphaned
  <1> QED
    BY <1>1, <1>2, <1>3, <1>4, <1>5

\* The table destroys the child of a stream that defers its writes.
LEMMA DestroyDeferring ==
  ASSUME NEW D, Good(D), NEW f \in Fds, D[f].kind = "stream", Deferring(D, f),
         NEW E, E = HashTableDestroy(D, f)
  PROVE  Good(E) /\ Shrinks(D, E)
  <1>1. PICK t : t = D[f].defer
    OBVIOUS
  <1>2. /\ t \in Fds /\ t # f /\ Serves(D, t, f)
        /\ D[t].kind = "defer" /\ D[t].owner = f /\ TidyTimer(D, t)
        /\ (D[t].reg /\ D[t].trefs = 2) \/ (~D[t].reg /\ D[t].trefs = 1)
    BY <1>1, DeferringPair
  <1>3. D \in [Fds -> FdType] /\ D[f] \in FdType /\ D[t] \in FdType
    BY <1>2 DEF Good
  <1>4. D[f].reg /\ D[f].refs = 2 /\ D[f].trefs = 0
    BY GoodIsTidy DEF Tidy, TidyStream, Deferring
  <1>5. PICK F : F = [D EXCEPT ![f].reg = FALSE]
    OBVIOUS
  <1>6. F[f] = [D[f] EXCEPT !.reg = FALSE] /\ \A x \in Fds \ {f} : F[x] = D[x]
    BY <1>3, <1>5
  <1>7. F[f] \in FdType
    BY <1>3, <1>6 DEF FdType
  <1>8. F \in [Fds -> FdType]
    BY <1>3, <1>5, <1>6, <1>7
  <1>9. F[f].defer = t /\ F[f].refs = 2 /\ F[t].owner = f /\ F[t].trefs = D[t].trefs
    BY <1>1, <1>2, <1>3, <1>4, <1>6 DEF FdType
  <1>10. PICK G : G = DropDeferTimer(F, f)
    OBVIOUS
  <1>11. /\ G \in [Fds -> FdType]
         /\ \A x \in Fds \ {f, t} : G[x] = F[x]
         /\ F[t].trefs = 2 => /\ G[f] = [F[f] EXCEPT !.defer = None]
                              /\ G[t] = [F[t] EXCEPT !.armed = "off", !.trefs = 1]
         /\ F[t].trefs = 1 => /\ G[f] = [F[f] EXCEPT !.defer = None, !.refs = 1]
                              /\ G[t] = Closed
    <2>1. F[t].trefs \in {1, 2}
      BY <1>2, <1>9
    <2>2. Dropped(F, G, f, t)
      BY <1>2, <1>8, <1>9, <1>10, <2>1, DropForm
    <2> QED
      BY <2>2 DEF Dropped
  <1>12. E = ChildUnref(G, f)
    BY <1>5, <1>10 DEF HashTableDestroy
  <1>13. \A x \in Fds \ {f, t} : G[x] = D[x]
    BY <1>6, <1>11
  <1>14. CASE D[t].reg /\ D[t].trefs = 2
    <2>1. G[f] = [F[f] EXCEPT !.defer = None] /\ G[t] = [D[t] EXCEPT !.armed = "off", !.trefs = 1]
      BY <1>2, <1>6, <1>9, <1>11, <1>14
    <2>2. /\ G[f].kind = "stream" /\ ~G[f].reg /\ G[f].refs = 2 /\ G[f].defer = None
          /\ G[f].trefs = 0 /\ G[f].barrier = D[f].barrier /\ G[f].watch = D[f].watch
      BY <1>3, <1>4, <1>6, <1>7, <2>1 DEF FdType
    <2>3. /\ G[t].kind = "defer" /\ G[t].reg /\ G[t].trefs = 1 /\ G[t].owner = f
          /\ G[t].defer = None /\ G[t].armed = "off" /\ G[t].barrier = D[t].barrier
      BY <1>2, <1>3, <1>14, <2>1 DEF FdType, TidyTimer
    <2>4. G[f].refs > 1 /\ G[f].refs - 1 = 1
      BY <2>2
    <2>5. E = [G EXCEPT ![f].refs = G[f].refs - 1]
      BY <1>12, <2>4 DEF ChildUnref
    <2>6. E[f] = [G[f] EXCEPT !.refs = 1] /\ \A x \in Fds \ {f} : E[x] = G[x]
      BY <1>11, <2>4, <2>5
    <2>7. G[f] \in FdType
      BY <1>11
    <2>8. /\ E[f] \in FdType
          /\ E[f].kind = "stream" /\ ~E[f].reg /\ E[f].refs = 1 /\ E[f].defer = None
          /\ E[f].trefs = 0 /\ E[f].barrier = D[f].barrier /\ E[f].watch = D[f].watch
      BY <2>2, <2>6, <2>7 DEF FdType
    <2>9. E \in [Fds -> FdType]
      BY <1>11, <2>5, <2>6, <2>8
    <2>10. E[t] = G[t] /\ \A x \in Fds \ {f, t} : E[x] = D[x]
      BY <1>2, <1>13, <2>6
    <2>11. Serves(E, t, f)
      BY <2>3, <2>10 DEF Serves
    <2>12. TidyStream(E, f)
      BY <1>2, <2>8, <2>11 DEF TidyStream, Outlived
    <2>13. TidyTimer(E, t)
      BY <1>2, FdFacts, <2>3, <2>8, <2>10 DEF TidyTimer, Orphaned
    <2> QED
      BY <1>2, <2>3, <2>8, <2>9, <2>10, <2>11, <2>12, <2>13, PairChange
  <1>15. CASE ~D[t].reg /\ D[t].trefs = 1
    <2>1. G[f] = [F[f] EXCEPT !.defer = None, !.refs = 1] /\ G[t] = Closed
      BY <1>9, <1>11, <1>15
    <2>2. ~(G[f].refs > 1)
      BY <1>7, <2>1 DEF FdType
    <2>3. E = [G EXCEPT ![f] = Closed]
      BY <1>12, <2>2 DEF ChildUnref
    <2>4. /\ E \in [Fds -> FdType] /\ E[f] = Closed /\ E[t] = Closed
          /\ \A x \in Fds \ {f, t} : E[x] = D[x]
      BY <1>2, <1>11, <1>13, <2>1, <2>3, Records
    <2> QED
      BY <1>2, <2>4, ClosePair
  <1> QED
    BY <1>2, <1>14, <1>15

\* The table destroys the child of a defer timer.
LEMMA DestroyDefer ==
  ASSUME NEW D, Good(D), NEW t \in Fds, D[t].kind = "defer", D[t].reg,
         NEW E, E = HashTableDestroy(D, t)
  PROVE  Good(E) /\ Shrinks(D, E)
  <1>1. TidyTimer(D, t) /\ D \in [Fds -> FdType]
    BY GoodIsTidy DEF Tidy, Good
  <1>2. PICK f \in Fds : f = D[t].owner
    BY <1>1 DEF TidyTimer
  <1>3. Serves(D, t, f)
    BY <1>2 DEF Serves
  <1>4. f # t /\ D[f].kind = "stream"
    BY <1>3, PairIsWhole
  <1>5. TidyStream(D, f)
    BY <1>4, GoodIsTidy DEF Tidy
  <1>6. D[f] \in FdType /\ D[t] \in FdType
    BY <1>1
  <1>7. D[t].trefs \in {1, 2} /\ D[f].refs \in {1, 2}
    BY <1>1, <1>5 DEF TidyTimer, Held, Forgotten, Orphaned, TidyStream, Plain, Deferring, Outlived
  <1>8. /\ E \in [Fds -> FdType]
        /\ \A x \in Fds \ {f, t} : E[x] = D[x]
        /\ D[t].trefs = 2 => /\ E[f] = D[f]
                             /\ E[t] = [D[t] EXCEPT !.reg = FALSE, !.refs = 0, !.trefs = 1]
        /\ D[t].trefs = 1 => /\ E[t] = Closed
                             /\ D[f].refs = 2 => E[f] = [D[f] EXCEPT !.refs = 1]
                             /\ D[f].refs = 1 => E[f] = Closed
    <2>1. TimerDestroyed(D, E, f, t)
      BY <1>1, <1>2, <1>4, <1>7, DestroyTimer
    <2> QED
      BY <2>1 DEF TimerDestroyed
  <1>9. CASE Held(D, t)
    <2>1. E[f] = D[f] /\ E[t] = [D[t] EXCEPT !.reg = FALSE, !.refs = 0, !.trefs = 1]
      BY <1>8, <1>9 DEF Held
    <2>2. /\ E[t].kind = "defer" /\ ~E[t].reg /\ E[t].trefs = 1 /\ E[t].owner = f
          /\ E[t].defer = None /\ E[t].armed = D[t].armed /\ E[t].barrier = D[t].barrier
      BY <1>1, <1>2, <1>6, <2>1 DEF FdType, TidyTimer
    <2>3. D[f].defer = t /\ t # None
      BY <1>2, <1>9, FdFacts DEF Held
    <2>4. Serves(E, t, f)
      BY <2>2 DEF Serves
    <2>5. TidyStream(E, f)
      BY <1>5, <2>1, <2>3, <2>4 DEF TidyStream, Plain, Deferring, Outlived
    <2>6. TidyTimer(E, t)
      BY <1>4, <2>1, <2>2, <2>3 DEF TidyTimer, Forgotten
    <2>7. /\ E[f].kind = "stream" /\ E[f].barrier = D[f].barrier /\ E[f].watch = D[f].watch
          /\ E \in [Fds -> FdType] /\ \A x \in Fds \ {f, t} : E[x] = D[x]
      BY <1>4, <1>8, <2>1
    <2> QED
      BY <1>3, <2>2, <2>4, <2>5, <2>6, <2>7, PairChange
  <1>10. CASE Orphaned(D, t)
    <2>1. D[f].refs = 1 /\ D[t].trefs = 1
      BY <1>2, <1>5, <1>10 DEF Orphaned, TidyStream, Plain, Deferring, Outlived
    <2> QED
      BY <1>3, <1>8, <2>1, ClosePair
  <1> QED
    BY <1>1, <1>9, <1>10 DEF TidyTimer, Forgotten


\* A child that nobody else refers to leaves the table.
LEMMA DestroyAlone ==
  ASSUME NEW D, Good(D), NEW f \in Fds, D[f].reg,
         D[f].kind # "defer", D[f].kind = "stream" => Plain(D, f),
         NEW E, E = HashTableDestroy(D, f)
  PROVE  Good(E) /\ Shrinks(D, E) /\ (Watched(D) => Watched(E))
  <1>1. Tidy(D, f) /\ D \in [Fds -> FdType] /\ D[f] \in FdType
    BY GoodIsTidy DEF Good
  <1>2. D[f].kind # "closed"
    BY <1>1 DEF Tidy, Closed
  <1>3. Whole(D, {f})
    BY OneIsWhole
  <1>4. CASE D[f].kind = "stream"
    <2>1. E = [D EXCEPT ![f] = Closed]
      BY <1>1, <1>4, DestroyOne DEF Plain
    <2> QED
      BY <1>3, <2>1, CloseOne
  <1>5. CASE D[f].kind # "stream"
    <2>1. D[f].kind \in {"server", "timer", "heartbeat"}
      BY <1>1, <1>2, <1>5 DEF FdType
    <2>2. D[f].owner = None /\ (D[f].trefs = 0 \/ D[f].trefs = 1)
      BY <1>1, <2>1 DEF Tidy, TidyOther
    <2>3. E = [D EXCEPT ![f] = Closed]
      BY <1>1, <1>5, <2>2, DestroyOne
    <2> QED
      BY <1>3, <2>3, CloseOne
  <1> QED
    BY <1>4, <1>5

\* _tgeniochild_hashTableDestroy leaves the table in order.
LEMMA DestroyKeeps ==
  ASSUME NEW D, Good(D), NEW f \in Fds, D[f].reg, NEW E, E = HashTableDestroy(D, f)
  PROVE  Good(E) /\ Shrinks(D, E)
  <1>1. CASE D[f].kind = "defer"
    BY <1>1, DestroyDefer
  <1>2. CASE D[f].kind = "stream" /\ ~Plain(D, f)
    <2>1. Deferring(D, f)
      BY <1>2, GoodIsTidy DEF Tidy, TidyStream, Outlived
    <2> QED
      BY <1>2, <2>1, DestroyDeferring
  <1>3. CASE D[f].kind # "defer" /\ (D[f].kind = "stream" => Plain(D, f))
    BY <1>3, DestroyAlone
  <1> QED
    BY <1>1, <1>2, <1>3

\* A stream that defers its writes is deregistered, with its defer timer.
LEMMA DeregisterDeferring ==
  ASSUME NEW D, Good(D), NEW f \in Fds, D[f].kind = "stream", Deferring(D, f),
         NEW E, E = Deregister(D, f)
  PROVE  Good(E) /\ Shrinks(D, E) /\ (Watched(D) => Watched(E))
  <1>1. PICK t : t = D[f].defer
    OBVIOUS
  <1>2. /\ t \in Fds /\ t # f /\ Serves(D, t, f)
        /\ D[t].kind = "defer" /\ D[t].owner = f /\ TidyTimer(D, t)
        /\ (D[t].reg /\ D[t].trefs = 2) \/ (~D[t].reg /\ D[t].trefs = 1)
    BY <1>1, DeferringPair
  <1>3. D \in [Fds -> FdType] /\ D[f] \in FdType /\ D[t] \in FdType
    BY <1>2 DEF Good
  <1>4. D[f].reg /\ D[f].refs = 2
    BY DEF Deferring
  <1>5. PICK F : F = DropDeferTimer(D, f)
    OBVIOUS
  <1>6. Dropped(D, F, f, t)
    <2>1. D[t].trefs \in {1, 2}
      BY <1>2
    <2> QED
      BY <1>1, <1>2, <1>3, <1>4, <1>5, <2>1, DropForm
  <1>7. PICK G : G = HashTableDestroy(F, t)
    OBVIOUS
  <1>8. E = HashTableDestroy(G, f)
    <2>1. t # None
      BY <1>2, FdFacts
    <2> QED
      BY <1>1, <1>4, <1>5, <1>7, <2>1 DEF Deregister
  <1>9. /\ G \in [Fds -> FdType] /\ G[t] = Closed /\ \A x \in Fds \ {f, t} : G[x] = D[x]
        /\ G[f].kind = "stream" /\ G[f].defer = None /\ G[f].refs = 1
    <2>1. CASE D[t].trefs = 2
      <3>1. /\ F \in [Fds -> FdType] /\ \A x \in Fds \ {f, t} : F[x] = D[x]
            /\ F[f] = [D[f] EXCEPT !.defer = None]
            /\ F[t] = [D[t] EXCEPT !.armed = "off", !.trefs = 1]
        BY <1>6, <2>1 DEF Dropped
      <3>2. F[f].kind = "stream" /\ F[f].defer = None /\ F[f].refs = 2 /\ F[f] \in FdType
        BY <1>3, <1>4, <3>1 DEF FdType
      <3>3. F[t].kind = "defer" /\ F[t].owner = f /\ F[t].trefs = 1
        BY <1>2, <1>3, <3>1 DEF FdType
      <3>4. TimerDestroyed(F, G, f, t)
        <4>1. F[t].trefs \in {1, 2} /\ F[f].refs \in {1, 2}
          BY <3>2, <3>3
        <4> QED
          BY <1>2, <1>7, <3>1, <3>3, <4>1, DestroyTimer
      <3>5. /\ G \in [Fds -> FdType] /\ G[t] = Closed /\ \A x \in Fds \ {f, t} : G[x] = D[x]
            /\ G[f] = [F[f] EXCEPT !.refs = 1]
        BY <3>1, <3>2, <3>3, <3>4 DEF TimerDestroyed
      <3> QED
        BY <3>2, <3>5 DEF FdType
    <2>2. CASE D[t].trefs = 1
      <3>1. /\ F \in [Fds -> FdType] /\ \A x \in Fds \ {f, t} : F[x] = D[x]
            /\ F[f] = [D[f] EXCEPT !.defer = None, !.refs = 1] /\ F[t] = Closed
        BY <1>6, <2>2 DEF Dropped
      <3>2. F[f].kind = "stream" /\ F[f].defer = None /\ F[f].refs = 1
        BY <1>3, <3>1 DEF FdType
      <3>3. F[t].kind # "stream" /\ F[t].trefs = 0
        BY <3>1 DEF Closed
      <3>4. G = [F EXCEPT ![t] = Closed]
        BY <1>2, <1>7, <3>1, <3>3, DestroyOne
      <3> QED
        BY <1>2, <3>1, <3>2, <3>4, Records
    <2> QED
      BY <1>2, <2>1, <2>2
  <1>10. E = [G EXCEPT ![f] = Closed]
    BY <1>8, <1>9, DestroyOne
  <1>11. /\ E \in [Fds -> FdType] /\ E[f] = Closed /\ E[t] = Closed
         /\ \A x \in Fds \ {f, t} : E[x] = D[x]
    BY <1>2, <1>9, <1>10, Records
  <1> QED
    BY <1>2, <1>11, ClosePair

\* _tgenio_deregister leaves the table in order, and nothing out of the table unless a
\* defer timer is deregistered before its stream.
LEMMA DeregisterKeeps ==
  ASSUME NEW D, Good(D), NEW f \in Fds
  PROVE  /\ Good(Deregister(D, f)) /\ Shrinks(D, Deregister(D, f))
         /\ D[f].kind # "defer" /\ Watched(D) => Watched(Deregister(D, f))
  <1>1. PICK E : E = Deregister(D, f)
    OBVIOUS
  <1>2. CASE ~D[f].reg
    BY <1>2 DEF Deregister, Shrinks
  <1>3. CASE D[f].reg /\ D[f].kind = "stream" /\ ~Plain(D, f)
    <2>1. Deferring(D, f)
      BY <1>3, GoodIsTidy DEF Tidy, TidyStream, Outlived
    <2> QED
      BY <1>1, <1>3, <2>1, DeregisterDeferring
  <1>4. CASE D[f].reg /\ (D[f].kind = "stream" => Plain(D, f))
    <2>1. D[f].defer = None
      <3>1. Tidy(D, f) /\ D[f] \in FdType
        BY GoodIsTidy DEF Good
      <3> QED
        BY <1>4, <3>1 DEF Tidy, Plain, TidyTimer, TidyOther, Closed, FdType
    <2>2. E = HashTableDestroy(D, f)
      BY <1>1, <1>4, <2>1 DEF Deregister
    <2>3. Good(E) /\ Shrinks(D, E)
      BY <1>4, <2>2, DestroyKeeps
    <2>4. D[f].kind # "defer" => (Watched(D) => Watched(E))
      BY <1>4, <2>2, DestroyAlone
    <2> QED
      BY <1>1, <2>3, <2>4
  <1> QED
    BY <1>2, <1>3, <1>4


\* Deregistering several streams leaves the table in order.
LEMMA DeregisterAllKeeps ==
  ASSUME NEW D, Good(D), NEW T \in SUBSET Fds, \A f \in T : D[f].kind # "defer"
  PROVE  /\ Good(DeregisterAll(D, T)) /\ Shrinks(D, DeregisterAll(D, T))
         /\ Watched(D) => Watched(DeregisterAll(D, T))
  <1> DEFINE N == MaxFd
             Q == {E \in [Fds -> FdType] : Good(E) /\ Shrinks(D, E) /\ (Watched(D) => Watched(E))}
             Solves(r) == r = [n \in 0 .. N |->
                                 IF n = 0 THEN D
                                 ELSE IF n \in T THEN Deregister(r[n - 1], n) ELSE r[n - 1]]
             upTo == CHOOSE r : Solves(r)
  <1>1. N \in Nat /\ T \subseteq 1 .. N
    BY MaxFdAssumption DEF Fds
  <1>2. DeregisterAll(D, T) = upTo[N]
    BY DEF DeregisterAll
  <1>3. D \in Q
    BY DEF Good, Shrinks
  <1>4. ASSUME NEW E \in Q, NEW f \in T
        PROVE  Deregister(E, f) \in Q
    <2>1. PICK F : F = Deregister(E, f)
      OBVIOUS
    <2>2. Good(E) /\ Shrinks(D, E) /\ (Watched(D) => Watched(E)) /\ f \in Fds
      OBVIOUS
    <2>3. E[f].kind # "defer"
      BY <2>2 DEF Shrinks
    <2>4. Good(F) /\ Shrinks(E, F) /\ (Watched(E) => Watched(F))
      BY <2>1, <2>2, <2>3, DeregisterKeeps
    <2>5. Shrinks(D, F)
      BY <2>2, <2>4 DEF Shrinks
    <2>6. F \in [Fds -> FdType]
      BY <2>4 DEF Good
    <2> QED
      BY <2>1, <2>2, <2>4, <2>5, <2>6
  <1> HIDE DEF N, Q
  <1>5. \E r : Solves(r)
    <2> DEFINE g == [n \in Nat |-> [E \in Q |-> IF n \in T THEN Deregister(E, n) ELSE E]]
    <2>1. g \in [Nat -> [Q -> Q]]
      BY <1>4
    <2>2. PICK h : h \in [0 .. N -> Q] /\ h[0] = D /\ \A n \in 1 .. N : h[n] = g[n][h[n - 1]]
      <3> HIDE DEF g
      <3>1. PICK h : DefinedBy(h, N, Q, D, g)
        BY <1>1, <1>3, <2>1, RecursionExists
      <3> QED
        BY <3>1 DEF DefinedBy
    <2>3. ASSUME NEW n \in 1 .. N
          PROVE  h[n] = IF n \in T THEN Deregister(h[n - 1], n) ELSE h[n - 1]
      <3>1. n - 1 \in 0 .. N /\ n \in Nat
        BY <1>1
      <3>2. h[n - 1] \in Q
        BY <2>2, <3>1
      <3> QED
        BY <2>2, <3>1, <3>2
    <2>4. Solves(h)
      <3> DEFINE k == [n \in 0 .. N |->
                         IF n = 0 THEN D
                         ELSE IF n \in T THEN Deregister(h[n - 1], n) ELSE h[n - 1]]
      <3>1. \A n \in 0 .. N : h[n] = k[n]
        <4> SUFFICES ASSUME NEW n \in 0 .. N PROVE h[n] = k[n]
          OBVIOUS
        <4>1. CASE n = 0
          BY <2>2, <4>1
        <4>2. CASE n # 0
          <5>1. n \in 1 .. N
            BY <1>1, <4>2
          <5> QED
            BY <2>3, <4>2, <5>1
        <4> QED
          BY <4>1, <4>2
      <3>2. h = [n \in 0 .. N |-> h[n]]
        BY <2>2
      <3>3. k = [n \in 0 .. N |-> k[n]]
        OBVIOUS
      <3> HIDE DEF k
      <3>4. h = k
        BY <3>1, <3>2, <3>3
      <3> QED
        BY <3>4 DEF k
    <2> QED
      BY <2>4
  <1>6. Solves(upTo)
    BY <1>5
  <1> HIDE DEF upTo
  <1>7. /\ upTo[0] = D
        /\ \A n \in 1 .. N : upTo[n] = IF n \in T THEN Deregister(upTo[n - 1], n) ELSE upTo[n - 1]
    <2>1. 0 \in 0 .. N /\ \A n \in 1 .. N : n \in 0 .. N /\ n # 0
      BY <1>1
    <2> QED
      BY <1>6, <2>1
  <1>8. \A n \in Nat : n \in 0 .. N => upTo[n] \in Q
    <2> DEFINE P == {n \in Nat : n \in 0 .. N => upTo[n] \in Q}
    <2>1. 0 \in P
      BY <1>3, <1>7
    <2>2. ASSUME NEW n \in Nat, n \in P
          PROVE  n + 1 \in P
      <3> SUFFICES ASSUME n + 1 \in 0 .. N
                   PROVE  upTo[n + 1] \in Q
        OBVIOUS
      <3>1. n + 1 \in 1 .. N /\ n \in 0 .. N /\ (n + 1) - 1 = n
        BY <1>1
      <3>2. upTo[n] \in Q
        BY <2>2, <3>1
      <3>3. upTo[n + 1] = IF n + 1 \in T THEN Deregister(upTo[n], n + 1) ELSE upTo[n]
        BY <1>7, <3>1
      <3> QED
        BY <1>4, <3>2, <3>3
    <2> HIDE DEF P
    <2>3. \A n \in Nat : n \in P
      BY <2>1, <2>2, NatInductionSet
    <2> QED
      BY <2>3 DEF P
  <1>9. upTo[N] \in Q
    BY <1>1, <1>8
  <1> QED
    BY <1>2, <1>9 DEF Q
-----------------------------------------------------------------------------
(* Other changes of the table.                                              *)

\* Events to watch, timers and barriers change, and references do not.
SameCounts(D, E) ==
  \A x \in Fds :
    /\ E[x].kind = D[x].kind /\ E[x].reg = D[x].reg /\ E[x].refs = D[x].refs
    /\ E[x].defer = D[x].defer /\ E[x].trefs = D[x].trefs /\ E[x].owner = D[x].owner
    /\ D[x].kind = "closed" => E[x] = D[x]

\* Such a change leaves the table in order if writes go on waiting for their barriers.
LEMMA SetKeeps ==
  ASSUME NEW D, Good(D), NEW E \in [Fds -> FdType], SameCounts(D, E), \A x \in Fds : Waits(E, x)
  PROVE  Good(E) /\ (Watched(D) => Watched(E))
  <1>1. \A x, y \in Fds : Serves(E, x, y) <=> Serves(D, x, y)
    BY DEF SameCounts, Serves
  <1>2. ASSUME NEW x \in Fds
        PROVE  Tidy(E, x)
    <2>1. Tidy(D, x)
      BY GoodIsTidy
    <2>2. D[x].kind = "closed" => E[x] = Closed
      BY <2>1 DEF Tidy, SameCounts
    <2>3. D[x].kind = "stream" => TidyStream(E, x)
      BY <1>1, <2>1 DEF Tidy, TidyStream, Plain, Deferring, Outlived, SameCounts
    <2>4. D[x].kind = "defer" => TidyTimer(E, x)
      <3> SUFFICES ASSUME D[x].kind = "defer"
                   PROVE  TidyTimer(E, x)
        OBVIOUS
      <3>1. TidyTimer(D, x)
        BY <2>1 DEF Tidy
      <3>2. E[x].owner = D[x].owner /\ D[x].owner \in Fds
        BY <3>1 DEF TidyTimer, SameCounts
      <3> QED
        BY <3>1, <3>2 DEF TidyTimer, Held, Forgotten, Orphaned, SameCounts
    <2>5. D[x].kind \in {"server", "timer", "heartbeat"} => TidyOther(E, x)
      BY <2>1 DEF Tidy, TidyOther, SameCounts
    <2>6. OnlyOne(E, x) /\ Waits(E, x)
      BY <1>1, <2>1 DEF Tidy, OnlyOne
    <2> QED
      BY <2>2, <2>3, <2>4, <2>5, <2>6 DEF Tidy, SameCounts
  <1> QED
    BY <1>2, TidyIsGood DEF Watched, SameCounts

\* A timer or a server is watched for being readable.
Readable(D, f) == [D EXCEPT ![f].watch = {"IN"}]

\* That leaves the table in order.
LEMMA WatchKeeps ==
  ASSUME NEW D, Good(D), NEW f \in Fds, D[f].kind \notin {"closed", "stream"},
         NEW E, E = Readable(D, f)
  PROVE  Good(E) /\ (Watched(D) => Watched(E)) /\ Steady(D, E, f)
  <1> DEFINE watch == {"IN"}
  <1>0. watch \in SUBSET {"IN", "OUT"}
    OBVIOUS
  <1>1. D \in [Fds -> FdType] /\ D[f] \in FdType
    BY DEF Good
  <1>2. E[f] = [D[f] EXCEPT !.watch = watch] /\ \A x \in Fds \ {f} : E[x] = D[x]
    BY <1>1 DEF Readable
  <1>3. /\ E[f] \in FdType /\ E[f].kind = D[f].kind /\ E[f].reg = D[f].reg /\ E[f].refs = D[f].refs
        /\ E[f].defer = D[f].defer /\ E[f].trefs = D[f].trefs /\ E[f].owner = D[f].owner
        /\ E[f].barrier = D[f].barrier /\ E[f].armed = D[f].armed
    <2> HIDE DEF watch
    <2> QED
      BY <1>0, <1>1, <1>2 DEF FdType
  <1>4. E \in [Fds -> FdType]
    BY <1>1, <1>2, <1>3 DEF Readable
  <1>5. SameCounts(D, E)
    BY <1>2, <1>3 DEF SameCounts
  <1>6. ASSUME NEW x \in Fds
        PROVE  Waits(E, x)
    <2>1. Waits(D, x) /\ Waits(D, f)
      BY GoodIsTidy DEF Tidy
    <2>2. \A t \in Fds : Serves(E, t, x) => Serves(D, t, x) /\ E[t].armed = D[t].armed
      BY <1>2, <1>3 DEF Serves
    <2>3. E[x].barrier = "future" => x # f
      BY <1>3, <2>1 DEF Waits
    <2> QED
      BY <1>2, <2>1, <2>2, <2>3 DEF Waits
  <1>7. Good(E) /\ (Watched(D) => Watched(E))
    BY <1>4, <1>5, <1>6, SetKeeps
  <1> QED
    BY <1>2, <1>3, <1>7 DEF Steady

\* What stays as it is, grows and then shrinks, is steady.
LEMMA GrowShrink ==
  ASSUME NEW D, NEW E, NEW F, NEW f, Steady(D, E, f) \/ Grows(D, E), Shrinks(E, F)
  PROVE  Steady(D, F, f)
  BY DEF Steady, Grows, Shrinks

\* What is steady and then grows is steady.
LEMMA SteadyGrows ==
  ASSUME NEW D, NEW E, NEW F, NEW f, Steady(D, E, f), Grows(E, F),
         \A x \in Fds : D[x].kind # "closed" => E[x].kind # "closed"
  PROVE  Steady(D, F, f)
  BY DEF Steady, Grows
-----------------------------------------------------------------------------
(* The steps.                                                               *)

RestTyped ==
  /\ batch \subseteq [fd : Fds, ev : SUBSET {"IN", "OUT", "DONE"}, stale : BOOLEAN]
  /\ stopping \in BOOLEAN /\ misled \in BOOLEAN
  /\ aborted \in {"no", "no timer", "not readable", "not the child", "timer is not registered",
                  "wrote before the barrier"}

\* IOInv in the form in which the steps keep it.
Parts ==
  /\ Good(d)
  /\ RestTyped
  /\ BatchInOrder
  /\ ~stopping /\ ~misled => Watched(d)

\* The parts follow from IOInv, and IOInv from them.
LEMMA InvHasParts == IOInv => Parts
  BY DEF IOInv, TypeOK, Parts, Good, RestTyped, RefcountsExact, Watched

\* The references are exact when all that is open is in the table.
LEMMA PartsGiveInv == Parts => IOInv
  <1> SUFFICES ASSUME Parts
               PROVE  IOInv
    OBVIOUS
  <1>1. Good(d) /\ RestTyped /\ BatchInOrder /\ (~stopping /\ ~misled => Watched(d))
    BY DEF Parts
  <1>2. TypeOK /\ CountsInOrder(d) /\ BarriersInOrder(d)
    BY <1>1 DEF Good, RestTyped, TypeOK
  <1>3. ASSUME ~stopping, ~misled, NEW f \in Fds
        PROVE  /\ d[f].kind # "closed" => d[f].reg
               /\ d[f].kind = "stream" => d[f].refs = IF d[f].defer = None THEN 1 ELSE 2
               /\ d[f].defer # None => d[d[f].defer].kind = "defer" /\ d[d[f].defer].owner = f
               /\ d[f].kind = "defer" => d[f].trefs = 2 /\ d[d[f].owner].defer = f
    <2>1. Watched(d) /\ Tidy(d, f) /\ d[f] \in FdType
      BY <1>1, <1>3, GoodIsTidy DEF Good
    <2>2. d[f].kind = "stream" => d[f].refs = IF d[f].defer = None THEN 1 ELSE 2
      BY <2>1, FdFacts DEF Watched, Tidy, TidyStream, Plain, Deferring, Outlived
    <2>3. d[f].defer # None => d[f].kind = "stream"
      BY <2>1 DEF Tidy, TidyTimer, TidyOther, Closed, FdType
    <2>4. d[f].defer # None => Serves(d, d[f].defer, f)
      BY <2>1, <2>3 DEF Tidy, TidyStream, Plain, Deferring, Outlived
    <2>5. d[f].kind = "defer" => d[f].trefs = 2 /\ d[d[f].owner].defer = f
      BY <2>1 DEF Watched, Tidy, TidyTimer, Held, Forgotten, Orphaned
    <2> QED
      BY <2>1, <2>2, <2>4, <2>5 DEF Watched, Serves
  <1> QED
    BY <1>1, <1>2, <1>3 DEF IOInv, RefcountsExact


\* The event e may be trusted: it reaches the child that it was reported for.
Trusted(e) == ~misled /\ ~(e.stale /\ d[e.fd].reg)

\* The loop goes on with the next event of the batch.
LEMMA HandledKeeps ==
  ASSUME Parts, NEW e \in batch, NEW D, Good(D), Steady(d, D, e.fd),
         Trusted(e) => Watched(D), Handled(e, D)
  PROVE  Parts'
  <1>1. /\ d' = D /\ misled' = (misled \/ (e.stale /\ d[e.fd].reg))
        /\ batch' = {[x EXCEPT !.stale = @ \/ D[x.fd].kind = "closed"] : x \in batch \ {e}}
        /\ stopping' = stopping /\ aborted' = aborted
    BY DEF Handled, Meets
  <1>2. Good(d) /\ RestTyped /\ BatchInOrder /\ stopping = FALSE
    BY DEF Parts, BatchInOrder, RestTyped
  <1> DEFINE Event == [fd : Fds, ev : SUBSET {"IN", "OUT", "DONE"}, stale : BOOLEAN]
  <1>3. batch \subseteq Event
    BY <1>2 DEF RestTyped
  <1>4. ASSUME NEW x \in batch', NEW y \in batch, y # e,
               x = [y EXCEPT !.stale = @ \/ D[y.fd].kind = "closed"]
        PROVE  /\ x \in Event /\ x.fd = y.fd /\ x.ev = y.ev
               /\ ~x.stale => ~y.stale /\ D[y.fd].kind # "closed"
    <2>1. y \in Event
      BY <1>3
    <2>2. PICK b \in BOOLEAN : b = (y.stale \/ D[y.fd].kind = "closed")
      BY <2>1
    <2>3. x = [y EXCEPT !.stale = b]
      BY <1>4, <2>1, <2>2
    <2>4. x \in Event /\ x.fd = y.fd /\ x.ev = y.ev /\ x.stale = b
      BY <2>1, <2>3
    <2>5. b = FALSE => ~y.stale /\ D[y.fd].kind # "closed"
      BY <2>2
    <2> QED
      BY <2>4, <2>5
  <1>5. \A x \in batch' : \E y \in batch :
          /\ y # e /\ x = [y EXCEPT !.stale = @ \/ D[y.fd].kind = "closed"]
          /\ x \in Event /\ x.fd = y.fd /\ x.ev = y.ev
          /\ ~x.stale => ~y.stale /\ D[y.fd].kind # "closed"
    BY <1>1, <1>4
  <1> HIDE DEF Event
  <1>6. RestTyped'
    <2>1. batch' \subseteq Event
      BY <1>5
    <2>2. misled' \in BOOLEAN /\ stopping' \in BOOLEAN
      BY <1>1, <1>2 DEF RestTyped
    <2> QED
      BY <1>1, <1>2, <2>1, <2>2 DEF RestTyped, Event
  <1>7. BatchInOrder'
    <2>1. ASSUME NEW x \in batch', NEW z \in batch', z.fd = x.fd
          PROVE  z = x
      <3>1. PICK y \in batch : x = [y EXCEPT !.stale = @ \/ D[y.fd].kind = "closed"] /\ x.fd = y.fd
        BY <1>5
      <3>2. PICK u \in batch : z = [u EXCEPT !.stale = @ \/ D[u.fd].kind = "closed"] /\ z.fd = u.fd
        BY <1>5
      <3>3. u = y
        BY <1>2, <2>1, <3>1, <3>2 DEF BatchInOrder
      <3> QED
        BY <3>1, <3>2, <3>3
    <2>2. ASSUME NEW x \in batch', ~x.stale
          PROVE  /\ D[x.fd].kind # "closed"
                 /\ D[x.fd].kind # "stream" => x.ev = {"IN"}
                 /\ "OUT" \in x.ev => D[x.fd].barrier # "future"
      <3>1. PICK y \in batch : /\ y # e /\ x.fd = y.fd /\ x.ev = y.ev
                               /\ ~y.stale /\ D[y.fd].kind # "closed"
        BY <1>5, <2>2
      <3>2. y.fd # e.fd /\ y.fd \in Fds
        BY <1>2, <1>3, <3>1 DEF BatchInOrder, Event
      <3>3. /\ d[y.fd].kind # "closed"
            /\ d[y.fd].kind # "stream" => y.ev = {"IN"}
            /\ "OUT" \in y.ev => d[y.fd].barrier # "future"
        BY <1>2, <3>1 DEF BatchInOrder
      <3>4. D[y.fd].kind = d[y.fd].kind /\ D[y.fd].barrier = d[y.fd].barrier
        BY <3>1, <3>2, <3>3 DEF Steady
      <3> QED
        BY <3>1, <3>3, <3>4
    <2>3. ~stopping'
      BY <1>1, <1>2
    <2> QED
      BY <1>1, <2>1, <2>2, <2>3 DEF BatchInOrder
  <1>8. ~misled' => Watched(D)
    BY <1>1 DEF Trusted
  <1> QED
    BY <1>1, <1>6, <1>7, <1>8 DEF Parts

\* An event that is not one for a timer or a server is not to be trusted by them.
LEMMA TrustedEvents ==
  ASSUME Parts, NEW e \in batch, Trusted(e), d[e.fd].reg
  PROVE  /\ e.fd \in Fds /\ ~stopping /\ Watched(d) /\ Good(d)
         /\ d[e.fd].kind # "stream" => e.ev = {"IN"}
         /\ "OUT" \in e.ev => d[e.fd].barrier # "future"
  BY DEF Parts, RestTyped, BatchInOrder, Trusted

\* A child that is done after its handler returned is deregistered.
LEMMA UnlessDoneKeeps ==
  ASSUME Parts, NEW e \in batch, ReadOnly(e), NEW D, Good(D), Steady(d, D, e.fd),
         Watched(d) => Watched(D), HandledUnlessDone(e, D)
  PROVE  Parts'
  <1>1. e.fd \in Fds
    BY DEF Parts, RestTyped
  <1>2. Trusted(e) => Watched(D) /\ "DONE" \notin e.ev
    BY TrustedEvents DEF ReadOnly
  <1>3. PICK E : E = IF "DONE" \in e.ev THEN Deregister(D, e.fd) ELSE D
    OBVIOUS
  <1>4. Handled(e, E)
    BY <1>3 DEF HandledUnlessDone
  <1>5. Good(E) /\ Shrinks(D, E)
    BY <1>1, <1>3, DeregisterKeeps DEF Shrinks
  <1>6. Steady(d, E, e.fd)
    BY <1>5, GrowShrink
  <1>7. Trusted(e) => Watched(E)
    BY <1>2, <1>3
  <1> QED
    BY <1>4, <1>5, <1>6, <1>7, HandledKeeps

\* An assertion fails.
LEMMA AbortsKeep ==
  ASSUME Parts, NEW e \in batch, NEW why, Aborts(e, why),
         why \in {"no timer", "not readable", "not the child", "timer is not registered",
                  "wrote before the barrier"}
  PROVE  Parts'
  <1>1. /\ d' = d /\ batch' = batch /\ stopping' = stopping /\ aborted' = why
        /\ misled' = (misled \/ (e.stale /\ d[e.fd].reg))
    BY DEF Aborts, Meets
  <1>2. Good(d) /\ RestTyped /\ BatchInOrder /\ (~stopping /\ ~misled => Watched(d))
    BY DEF Parts
  <1>3. RestTyped'
    BY <1>1, <1>2 DEF RestTyped
  <1>4. BatchInOrder'
    BY <1>1, <1>2 DEF BatchInOrder
  <1> QED
    BY <1>1, <1>2, <1>3, <1>4 DEF Parts


\* What the driver starts, and then the child is deregistered.
LEMMA SpawnThenDeregister ==
  ASSUME Parts, NEW e \in batch, d[e.fd].kind # "defer", d[e.fd].reg, NEW kinds,
         Handled(e, Deregister(Spawn(d, kinds), e.fd))
  PROVE  Parts'
  <1>1. Good(d) /\ e.fd \in Fds
    BY DEF Parts, RestTyped
  <1>2. PICK D : D = Spawn(d, kinds)
    OBVIOUS
  <1>3. Good(D) /\ (Watched(d) => Watched(D)) /\ Grows(d, D)
    BY <1>1, <1>2, SpawnKeeps
  <1>4. d[e.fd].kind # "closed"
    BY <1>1, GoodIsTidy DEF Tidy, Closed
  <1>5. D[e.fd].kind # "defer"
    BY <1>1, <1>3, <1>4 DEF Grows
  <1>6. PICK E : E = Deregister(D, e.fd)
    OBVIOUS
  <1>7. Good(E) /\ Shrinks(D, E) /\ (Watched(D) => Watched(E))
    BY <1>1, <1>3, <1>5, <1>6, DeregisterKeeps
  <1>8. Steady(d, E, e.fd)
    BY <1>3, <1>7, GrowShrink
  <1>9. Trusted(e) => Watched(E)
    BY <1>3, <1>7, TrustedEvents
  <1>10. Handled(e, E)
    BY <1>2, <1>6
  <1> QED
    BY <1>7, <1>8, <1>9, <1>10, HandledKeeps

\* A stream completes, and is deregistered.
LEMMA streamCompletesKeeps ==
  ASSUME Parts, NEW e \in batch, streamCompletes(e)
  PROVE  Parts'
  <1>1. PICK kinds \in Spawns : Handled(e, Deregister(Spawn(d, kinds), e.fd))
    BY DEF streamCompletes
  <1>2. d[e.fd].reg /\ d[e.fd].kind # "defer"
    BY DEF streamCompletes
  <1> QED
    BY <1>1, <1>2, SpawnThenDeregister

\* A pause or delay is over, and its timer is deregistered.
LEMMA timerExpiresKeeps ==
  ASSUME Parts, NEW e \in batch, timerExpires(e)
  PROVE  Parts'
  <1>1. PICK kinds \in Spawns : Handled(e, Deregister(Spawn(d, kinds), e.fd))
    BY DEF timerExpires
  <1>2. d[e.fd].reg /\ d[e.fd].kind # "defer"
    BY DEF timerExpires
  <1> QED
    BY <1>1, <1>2, SpawnThenDeregister

\* The event's child is gone.
LEMMA noChildKeeps ==
  ASSUME Parts, NEW e \in batch, noChild(e)
  PROVE  Parts'
  <1>1. ~d[e.fd].reg /\ Handled(e, d)
    BY DEF noChild, Deregister
  <1>2. Good(d) /\ ~stopping /\ (~stopping /\ ~misled => Watched(d))
    BY DEF Parts, BatchInOrder, RestTyped
  <1>3. Steady(d, d, e.fd)
    BY DEF Steady
  <1>4. Trusted(e) => Watched(d)
    BY <1>2 DEF Trusted
  <1> QED
    BY <1>1, <1>2, <1>3, <1>4, HandledKeeps

\* A timer was set again, and has nothing to read.
LEMMA timerNotReadyKeeps ==
  ASSUME Parts, NEW e \in batch, timerNotReady(e)
  PROVE  Parts'
  <1>1. Good(d) /\ e.fd \in Fds
    BY DEF Parts, RestTyped
  <1>2. PICK D : D = [d EXCEPT ![e.fd].watch = {"IN"}]
    OBVIOUS
  <1>3. ReadOnly(e) /\ HandledUnlessDone(e, D)
    BY <1>2 DEF timerNotReady
  <1>4. d[e.fd].kind \notin {"closed", "stream"}
    BY <1>1, <1>3, GoodIsTidy DEF Tidy, Closed, ReadOnly
  <1>5. Good(D) /\ (Watched(d) => Watched(D)) /\ Steady(d, D, e.fd)
    <2>1. D = Readable(d, e.fd)
      BY <1>2 DEF Readable
    <2> QED
      BY <1>1, <1>2, <1>4, <2>1, WatchKeeps
  <1> QED
    BY <1>3, <1>5, UnlessDoneKeeps

\* The server accepts a peer, or none.
LEMMA acceptPeerKeeps ==
  ASSUME Parts, NEW e \in batch, acceptPeer(e)
  PROVE  Parts'
  <1>1. Good(d) /\ e.fd \in Fds
    BY DEF Parts, RestTyped
  <1>2. d[e.fd].reg /\ d[e.fd].kind = "server"
    BY DEF acceptPeer
  <1>3. PICK D : D = [d EXCEPT ![e.fd].watch = {"IN"}]
    OBVIOUS
  <1>4. PICK kinds : HandledUnlessDone(e, Spawn(D, kinds))
    BY <1>3 DEF acceptPeer
  <1>5. PICK E : E = Spawn(D, kinds)
    OBVIOUS
  <1>6. Good(D) /\ (Watched(d) => Watched(D)) /\ Steady(d, D, e.fd)
    <2>1. D = Readable(d, e.fd)
      BY <1>3 DEF Readable
    <2> QED
      BY <1>1, <1>2, <1>3, <2>1, WatchKeeps
  <1>7. Good(E) /\ (Watched(D) => Watched(E)) /\ Grows(D, E)
    BY <1>5, <1>6, SpawnKeeps
  <1>8. \A x \in Fds : d[x].kind # "closed" => D[x].kind # "closed"
    <2>1. d \in [Fds -> FdType]
      BY <1>1 DEF Good
    <2> QED
      BY <1>1, <1>2, <1>3, <2>1 DEF FdType
  <1>9. Steady(d, E, e.fd)
    BY <1>6, <1>7, <1>8, SteadyGrows
  <1>10. ReadOnly(e)
    BY <1>2 DEF ReadOnly
  <1> QED
    BY <1>4, <1>5, <1>6, <1>7, <1>9, <1>10, UnlessDoneKeeps

\* A heartbeat timer goes on, and streams that have timed out are deregistered.
LEMMA onHeartbeatKeeps ==
  ASSUME Parts, NEW e \in batch, onHeartbeat(e)
  PROVE  Parts'
  <1>1. Good(d) /\ e.fd \in Fds /\ d \in [Fds -> FdType] /\ d[e.fd] \in FdType
    BY DEF Parts, RestTyped, Good
  <1>2. d[e.fd].reg /\ d[e.fd].kind = "heartbeat"
    BY DEF onHeartbeat
  <1>3. PICK B : B = [d EXCEPT ![e.fd].armed = "armed", ![e.fd].watch = {"IN"}]
    OBVIOUS
  <1>4. PICK T \in SUBSET Streams, kinds \in Spawns :
          HandledUnlessDone(e, DeregisterAll(Spawn(B, kinds), T))
    BY <1>3 DEF onHeartbeat
  <1>5. /\ B[e.fd] = [d[e.fd] EXCEPT !.armed = "armed", !.watch = {"IN"}]
        /\ \A x \in Fds \ {e.fd} : B[x] = d[x]
    BY <1>1, <1>3
  <1>6. /\ B[e.fd] \in FdType /\ B[e.fd].kind = d[e.fd].kind /\ B[e.fd].reg = d[e.fd].reg
        /\ B[e.fd].refs = d[e.fd].refs /\ B[e.fd].defer = d[e.fd].defer
        /\ B[e.fd].trefs = d[e.fd].trefs /\ B[e.fd].owner = d[e.fd].owner
        /\ B[e.fd].barrier = d[e.fd].barrier
    <2>1. PICK r : r = [d[e.fd] EXCEPT !.armed = "armed"]
      OBVIOUS
    <2>2. /\ r \in FdType /\ r.kind = d[e.fd].kind /\ r.reg = d[e.fd].reg
          /\ r.refs = d[e.fd].refs /\ r.defer = d[e.fd].defer
          /\ r.trefs = d[e.fd].trefs /\ r.owner = d[e.fd].owner
          /\ r.barrier = d[e.fd].barrier
      BY <1>1, <2>1 DEF FdType
    <2>3. B[e.fd] = [r EXCEPT !.watch = {"IN"}]
      BY <1>5, <2>1
    <2>4. PICK w \in SUBSET {"IN", "OUT"} : w = {"IN"}
      OBVIOUS
    <2>5. B[e.fd] = [r EXCEPT !.watch = w]
      BY <2>3, <2>4
    <2>6. B[e.fd] \in FdType
      BY <2>2, <2>5 DEF FdType
    <2> QED
      BY <2>2, <2>5, <2>6 DEF FdType
  <1>7. B \in [Fds -> FdType]
    <2>1. \A x \in Fds : B[x] \in FdType
      BY <1>1, <1>5, <1>6
    <2>2. B = [x \in Fds |-> B[x]]
      BY <1>1, <1>3
    <2> QED
      BY <2>1, <2>2
  <1>8. SameCounts(d, B)
    BY <1>2, <1>5, <1>6 DEF SameCounts
  <1>9. ASSUME NEW x \in Fds
        PROVE  Waits(B, x)
    <2>1. Waits(d, x) /\ Waits(d, e.fd)
      BY <1>1, GoodIsTidy DEF Tidy
    <2>2. ASSUME NEW t \in Fds, Serves(B, t, x)
          PROVE  Serves(d, t, x) /\ B[t] = d[t]
      <3>1. t # e.fd
        BY <1>2, <1>6, <2>2 DEF Serves
      <3> QED
        BY <1>5, <2>2, <3>1 DEF Serves
    <2>3. B[x].barrier = "future" => x # e.fd
      BY <1>2, <1>6, <2>1 DEF Waits
    <2> QED
      BY <1>5, <2>1, <2>2, <2>3 DEF Waits
  <1>10. Good(B) /\ (Watched(d) => Watched(B))
    BY <1>1, <1>7, <1>8, <1>9, SetKeeps
  <1>11. PICK D : D = Spawn(B, kinds)
    OBVIOUS
  <1>12. Good(D) /\ (Watched(B) => Watched(D)) /\ Grows(B, D)
    BY <1>10, <1>11, SpawnKeeps
  <1>13. T \in SUBSET Fds /\ \A f \in T : D[f].kind # "defer"
    <2> SUFFICES ASSUME NEW f \in T
                 PROVE  f \in Fds /\ D[f].kind # "defer"
      OBVIOUS
    <2>1. f \in Fds /\ d[f].kind = "stream"
      BY DEF Streams
    <2>2. B[f].kind = "stream"
      BY <1>8, <2>1 DEF SameCounts
    <2> QED
      BY <1>12, <2>1, <2>2 DEF Grows
  <1>14. PICK E : E = DeregisterAll(D, T)
    OBVIOUS
  <1>15. Good(E) /\ Shrinks(D, E) /\ (Watched(D) => Watched(E))
    BY <1>12, <1>13, <1>14, DeregisterAllKeeps
  <1>16. Steady(d, B, e.fd) /\ \A x \in Fds : d[x].kind # "closed" => B[x].kind # "closed"
    BY <1>5, <1>6, <1>8 DEF Steady, SameCounts
  <1>17. Steady(d, D, e.fd)
    BY <1>12, <1>16, SteadyGrows
  <1>18. Steady(d, E, e.fd)
    BY <1>15, <1>17, GrowShrink
  <1>19. ReadOnly(e) /\ HandledUnlessDone(e, E)
    BY <1>2, <1>4, <1>11, <1>14 DEF ReadOnly
  <1> QED
    BY <1>10, <1>12, <1>15, <1>18, <1>19, UnlessDoneKeeps


\* The defer timer has expired, and the stream is watched for writes again.
LEMMA onDeferTimerExpiredKeeps ==
  ASSUME Parts, NEW e \in batch, onDeferTimerExpired(e)
  PROVE  Parts'
  <1>1. PICK t : t = e.fd
    OBVIOUS
  <1>2. Good(d) /\ t \in Fds /\ d \in [Fds -> FdType]
    BY <1>1 DEF Parts, RestTyped, Good
  <1>3. d[t].reg /\ d[t].kind = "defer" /\ d[t].armed = "expired"
    BY <1>1 DEF onDeferTimerExpired
  <1>4. TidyTimer(d, t)
    BY <1>2, <1>3, GoodIsTidy DEF Tidy
  <1>5. PICK f \in Fds : f = d[t].owner
    BY <1>4 DEF TidyTimer
  <1>6. Serves(d, t, f)
    BY <1>3, <1>5 DEF Serves
  <1>7. f # t /\ d[f].kind = "stream"
    BY <1>2, <1>6, PairIsWhole
  <1>8. CASE ~d[f].reg \/ d[f].defer # t
    <2>1. Aborts(e, "not the child")
      BY <1>1, <1>5, <1>8 DEF onDeferTimerExpired
    <2> QED
      BY <2>1, AbortsKeep
  <1>9. CASE ~(~d[f].reg \/ d[f].defer # t)
    <2>1. PICK D : D = [d EXCEPT ![t].armed = "off", ![t].watch = {"IN"},
                                 ![f].watch = d[f].watch \cup {"OUT"}]
      OBVIOUS
    <2>2. HandledUnlessDone(e, D)
      BY <1>1, <1>2, <1>5, <1>7, <1>9, <2>1 DEF onDeferTimerExpired
    <2>3. d[t] \in FdType /\ d[f] \in FdType
      BY <1>2
    <2>4. PICK w \in SUBSET {"IN", "OUT"} : w = d[f].watch \cup {"OUT"}
      BY <2>3 DEF FdType
    <2>5. PICK v \in SUBSET {"IN", "OUT"} : v = {"IN"}
      OBVIOUS
    <2>6. /\ D[t] = [d[t] EXCEPT !.armed = "off", !.watch = v] /\ D[f] = [d[f] EXCEPT !.watch = w]
          /\ (\A x \in Fds \ {f, t} : D[x] = d[x]) /\ D = [x \in Fds |-> D[x]]
      BY <1>2, <1>7, <2>1, <2>4, <2>5
    <2>7. /\ D[f] \in FdType /\ D[f].kind = d[f].kind /\ D[f].reg = d[f].reg
          /\ D[f].refs = d[f].refs /\ D[f].defer = d[f].defer /\ D[f].trefs = d[f].trefs
          /\ D[f].owner = d[f].owner /\ D[f].barrier = d[f].barrier
      BY <2>3, <2>6 DEF FdType
    <2>8. /\ D[t] \in FdType /\ D[t].kind = d[t].kind /\ D[t].reg = d[t].reg
          /\ D[t].refs = d[t].refs /\ D[t].defer = d[t].defer /\ D[t].trefs = d[t].trefs
          /\ D[t].owner = d[t].owner /\ D[t].barrier = d[t].barrier /\ D[t].armed = "off"
      <3>1. PICK r : r = [d[t] EXCEPT !.armed = "off"]
        OBVIOUS
      <3>2. /\ r \in FdType /\ r.kind = d[t].kind /\ r.reg = d[t].reg
            /\ r.refs = d[t].refs /\ r.defer = d[t].defer /\ r.trefs = d[t].trefs
            /\ r.owner = d[t].owner /\ r.barrier = d[t].barrier /\ r.armed = "off"
        BY <2>3, <3>1 DEF FdType
      <3>3. D[t] = [r EXCEPT !.watch = v]
        BY <2>6, <3>1
      <3> QED
        BY <3>2, <3>3 DEF FdType
    <2>9. D \in [Fds -> FdType]
      <3>1. \A x \in Fds : D[x] \in FdType
        BY <1>2, <2>6, <2>7, <2>8
      <3> QED
        BY <2>6, <3>1
    <2>10. SameCounts(d, D)
      <3> SUFFICES ASSUME NEW x \in Fds
                   PROVE  /\ D[x].kind = d[x].kind /\ D[x].reg = d[x].reg /\ D[x].refs = d[x].refs
                          /\ D[x].defer = d[x].defer /\ D[x].trefs = d[x].trefs
                          /\ D[x].owner = d[x].owner
                          /\ d[x].kind = "closed" => D[x] = d[x]
        BY DEF SameCounts
      <3> QED
        BY <1>3, <1>7, <2>6, <2>7, <2>8
    <2>11. d[f].barrier # "future"
      BY <1>2, <1>3, <1>6, GoodIsTidy DEF Tidy, Waits
    <2>12. ASSUME NEW x \in Fds
           PROVE  Waits(D, x)
      <3> SUFFICES ASSUME D[x].barrier = "future"
                   PROVE  Waits(D, x)
        BY DEF Waits
      <3>1. Waits(d, x) /\ Waits(d, t)
        BY <1>2, GoodIsTidy DEF Tidy
      <3>2. x # f /\ x # t
        BY <1>3, <2>7, <2>8, <2>11, <3>1 DEF Waits
      <3>3. D[x] = d[x]
        BY <2>6, <3>2
      <3>4. ASSUME NEW u \in Fds, Serves(D, u, x)
            PROVE  Serves(d, u, x) /\ D[u] = d[u]
        <4>1. u # t /\ u # f
          BY <1>5, <1>7, <2>7, <2>8, <3>2, <3>4 DEF Serves
        <4> QED
          BY <2>6, <3>4, <4>1 DEF Serves
      <3> QED
        BY <3>1, <3>3, <3>4 DEF Waits
    <2>13. Good(D) /\ (Watched(d) => Watched(D))
      BY <1>2, <2>9, <2>10, <2>12, SetKeeps
    <2>14. Steady(d, D, t)
      BY <2>6, <2>7, <2>8 DEF Steady
    <2>15. ReadOnly(e)
      BY <1>1, <1>3 DEF ReadOnly
    <2> QED
      BY <1>1, <2>2, <2>13, <2>14, <2>15, UnlessDoneKeeps
  <1> QED
    BY <1>8, <1>9

\* A timer or the server is handed what is not for reading.
LEMMA notReadableKeeps ==
  ASSUME Parts, NEW e \in batch, notReadable(e)
  PROVE  Parts'
  BY AbortsKeep DEF notReadable

\* A stream has a new barrier, and other events are watched for.
Sets(D, E, f, barrier, watch) ==
  /\ E \in [Fds -> FdType] /\ SameCounts(D, E)
  /\ E[f].barrier = barrier /\ E[f].watch = watch
  /\ \A x \in Fds \ {f} : E[x] = D[x]

\* That is what streamGoesOn writes.
LEMMA SetsForm ==
  ASSUME NEW D \in [Fds -> FdType], NEW f \in Fds, D[f].kind # "closed",
         NEW barrier \in {"none", "future", "past"}, NEW watch \in SUBSET {"IN", "OUT"},
         NEW E, E = [D EXCEPT ![f].barrier = barrier, ![f].watch = watch]
  PROVE  Sets(D, E, f, barrier, watch)
  <1>1. D[f] \in FdType
    OBVIOUS
  <1>2. /\ E[f] = [D[f] EXCEPT !.barrier = barrier, !.watch = watch]
        /\ (\A x \in Fds \ {f} : E[x] = D[x]) /\ E = [x \in Fds |-> E[x]]
    OBVIOUS
  <1>3. /\ E[f] \in FdType /\ E[f].kind = D[f].kind /\ E[f].reg = D[f].reg
        /\ E[f].refs = D[f].refs /\ E[f].defer = D[f].defer /\ E[f].trefs = D[f].trefs
        /\ E[f].owner = D[f].owner /\ E[f].barrier = barrier /\ E[f].watch = watch
    <2>1. PICK r : r = [D[f] EXCEPT !.barrier = barrier]
      OBVIOUS
    <2>2. /\ r \in FdType /\ r.kind = D[f].kind /\ r.reg = D[f].reg
          /\ r.refs = D[f].refs /\ r.defer = D[f].defer /\ r.trefs = D[f].trefs
          /\ r.owner = D[f].owner /\ r.barrier = barrier
      BY <1>1, <2>1 DEF FdType
    <2>3. E[f] = [r EXCEPT !.watch = watch]
      BY <1>2, <2>1
    <2> QED
      BY <2>2, <2>3 DEF FdType
  <1>4. E \in [Fds -> FdType]
    <2>1. \A x \in Fds : E[x] \in FdType
      BY <1>2, <1>3
    <2> QED
      BY <1>2, <2>1
  <1>5. SameCounts(D, E)
    BY <1>2, <1>3 DEF SameCounts
  <1> QED
    BY <1>2, <1>3, <1>4, <1>5 DEF Sets


\* A stream goes on without a barrier that is to come.
LEMMA SetsKeeps ==
  ASSUME NEW D, Good(D), NEW f \in Fds, D[f].kind = "stream",
         NEW barrier \in {"none", "past"}, NEW watch, NEW E, Sets(D, E, f, barrier, watch)
  PROVE  Good(E) /\ (Watched(D) => Watched(E)) /\ Steady(D, E, f)
  <1>1. /\ E \in [Fds -> FdType] /\ SameCounts(D, E) /\ E[f].barrier = barrier
        /\ \A x \in Fds \ {f} : E[x] = D[x]
    BY DEF Sets
  <1>2. ASSUME NEW x \in Fds
        PROVE  Waits(E, x)
    <2> SUFFICES ASSUME E[x].barrier = "future"
                 PROVE  Waits(E, x)
      BY DEF Waits
    <2>1. x # f /\ E[x] = D[x]
      BY <1>1
    <2>2. Waits(D, x)
      BY GoodIsTidy DEF Tidy
    <2>3. ASSUME NEW t \in Fds, Serves(E, t, x)
          PROVE  Serves(D, t, x) /\ E[t] = D[t]
      <3>1. t # f
        BY <1>1, <2>3 DEF Serves, SameCounts
      <3> QED
        BY <1>1, <2>3, <3>1 DEF Serves
    <2> QED
      BY <2>1, <2>2, <2>3 DEF Waits
  <1>3. Good(E) /\ (Watched(D) => Watched(E))
    BY <1>1, <1>2, SetKeeps
  <1>4. Steady(D, E, f)
    BY <1>1 DEF Steady, SameCounts
  <1> QED
    BY <1>3, <1>4

\* A stream defers its writes, and its defer timer is set again.
Rearmed(B, f) == [B EXCEPT ![B[f].defer].armed = "armed"]

\* The table stays in order.
LEMMA RearmKeeps ==
  ASSUME NEW D, Good(D), NEW f \in Fds, D[f].kind = "stream", D[f].defer # None,
         NEW watch \in SUBSET {"IN"}, NEW B, Sets(D, B, f, "future", watch),
         NEW E, E = Rearmed(B, f)
  PROVE  Good(E) /\ (Watched(D) => Watched(E)) /\ Steady(D, E, f)
  <1>1. /\ B \in [Fds -> FdType] /\ SameCounts(D, B)
        /\ B[f].barrier = "future" /\ B[f].watch = watch
        /\ \A x \in Fds \ {f} : B[x] = D[x]
    BY DEF Sets
  <1>2. Deferring(D, f)
    BY GoodIsTidy DEF Tidy, TidyStream, Plain, Outlived
  <1>3. PICK t : t = D[f].defer
    OBVIOUS
  <1>4. t \in Fds /\ t # f /\ Serves(D, t, f) /\ D[t].kind = "defer" /\ D[t].owner = f
    BY <1>2, <1>3, DeferringPair
  <1>5. E = [B EXCEPT ![t].armed = "armed"]
    BY <1>1, <1>3 DEF SameCounts, Rearmed
  <1>6. B[t] \in FdType /\ B[t] = D[t]
    BY <1>1, <1>4
  <1>7. E[t] = [D[t] EXCEPT !.armed = "armed"] /\ \A x \in Fds \ {t} : E[x] = B[x]
    BY <1>1, <1>4, <1>5, <1>6
  <1>8. /\ E[t] \in FdType /\ E[t].kind = D[t].kind /\ E[t].reg = D[t].reg
        /\ E[t].refs = D[t].refs /\ E[t].defer = D[t].defer /\ E[t].trefs = D[t].trefs
        /\ E[t].owner = D[t].owner /\ E[t].barrier = D[t].barrier /\ E[t].armed = "armed"
    BY <1>6, <1>7 DEF FdType
  <1>9. E \in [Fds -> FdType]
    <2>1. \A x \in Fds : E[x] \in FdType
      BY <1>1, <1>7, <1>8
    <2>2. E = [x \in Fds |-> E[x]]
      BY <1>1, <1>5
    <2> QED
      BY <2>1, <2>2
  <1>10. SameCounts(D, E)
    <2> SUFFICES ASSUME NEW x \in Fds
                 PROVE  /\ E[x].kind = D[x].kind /\ E[x].reg = D[x].reg /\ E[x].refs = D[x].refs
                        /\ E[x].defer = D[x].defer /\ E[x].trefs = D[x].trefs
                        /\ E[x].owner = D[x].owner
                        /\ D[x].kind = "closed" => E[x] = D[x]
      BY DEF SameCounts
    <2>1. CASE x = t
      BY <1>4, <1>8, <2>1
    <2>2. CASE x # t
      <3>1. E[x] = B[x]
        BY <1>7, <2>2
      <3> QED
        BY <1>1, <3>1 DEF SameCounts
    <2> QED
      BY <2>1, <2>2
  <1>11. ASSUME NEW x \in Fds
         PROVE  Waits(E, x)
    <2> SUFFICES ASSUME E[x].barrier = "future"
                 PROVE  Waits(E, x)
      BY DEF Waits
    <2>1. Tidy(D, x) /\ Tidy(D, t) /\ Tidy(D, f)
      BY <1>4, GoodIsTidy
    <2>2. \A u \in Fds : Serves(E, u, x) => Serves(D, u, x)
      BY <1>10 DEF SameCounts, Serves
    <2>3. CASE x = f
      <3>1. E[f].kind = "stream" /\ "OUT" \notin E[f].watch
        BY <1>1, <1>4, <1>7, <1>10 DEF SameCounts
      <3>2. \A u \in Fds : Serves(E, u, f) => u = t
        BY <1>4, <2>1, <2>2, <2>3 DEF Tidy, OnlyOne
      <3> QED
        BY <1>8, <2>3, <3>1, <3>2 DEF Waits
    <2>4. CASE x # f
      <3>1. x # t
        BY <1>4, <1>8, <2>1 DEF Tidy, Waits
      <3>2. E[x] = D[x]
        BY <1>1, <1>7, <2>4, <3>1
      <3>3. ASSUME NEW u \in Fds, Serves(E, u, x)
            PROVE  Serves(D, u, x) /\ E[u] = D[u]
        <4>1. Serves(D, u, x)
          BY <2>2, <3>3
        <4>2. u # t /\ u # f
          BY <1>4, <2>4, <4>1 DEF Serves
        <4> QED
          BY <1>1, <1>7, <4>1, <4>2
      <3> QED
        BY <2>1, <3>2, <3>3 DEF Tidy, Waits
    <2> QED
      BY <2>3, <2>4
  <1>12. Good(E) /\ (Watched(D) => Watched(E))
    BY <1>9, <1>10, <1>11, SetKeeps
  <1>13. Steady(D, E, f)
    <2>1. \A x \in Fds : E[x].kind = D[x].kind
      BY <1>10 DEF SameCounts
    <2>2. \A x \in Fds \ {f} : E[x].barrier = D[x].barrier
      BY <1>1, <1>7, <1>8
    <2> QED
      BY <2>1, <2>2 DEF Steady
  <1> QED
    BY <1>12, <1>13

\* The timer that a stream creates for deferred writes.
NewTimer(f) == [Registered("defer") EXCEPT !.trefs = 2, !.armed = "armed", !.owner = f]

\* What is in the table for it.
LEMMA NewTimerForm ==
  ASSUME NEW f \in Fds
  PROVE  /\ NewTimer(f) \in FdType
         /\ NewTimer(f).kind = "defer" /\ NewTimer(f).reg /\ NewTimer(f).owner = f
         /\ NewTimer(f).defer = None /\ NewTimer(f).trefs = 2
         /\ NewTimer(f).armed = "armed" /\ NewTimer(f).barrier = "none"
  <1>1. "defer" \notin {"timer", "heartbeat"}
    OBVIOUS
  <1>2. Registered("defer") =
          [Closed EXCEPT !.kind = "defer", !.reg = TRUE, !.refs = 1, !.watch = {"IN", "OUT"},
                         !.trefs = 0, !.armed = "off"]
    BY <1>1 DEF Registered
  <1>3. NewTimer(f) =
          [kind |-> "defer", reg |-> TRUE, refs |-> 1, watch |-> {"IN", "OUT"}, defer |-> None,
           barrier |-> "none", trefs |-> 2, armed |-> "armed", owner |-> f]
    <2>1. Registered("defer") =
            [kind |-> "defer", reg |-> TRUE, refs |-> 1, watch |-> {"IN", "OUT"}, defer |-> None,
             barrier |-> "none", trefs |-> 0, armed |-> "off", owner |-> None]
      BY <1>2 DEF Closed
    <2>2. NewTimer(f) =
            [[kind |-> "defer", reg |-> TRUE, refs |-> 1, watch |-> {"IN", "OUT"}, defer |-> None,
              barrier |-> "none", trefs |-> 0, armed |-> "off", owner |-> None]
             EXCEPT !.trefs = 2, !.armed = "armed", !.owner = f]
      BY <2>1 DEF NewTimer
    <2> QED
      BY <2>2
  <1>4. NewTimer(f) \in FdType
    BY <1>3 DEF FdType
  <1> QED
    BY <1>3, <1>4


\* A stream defers its writes for the first time.
WithNewTimer(B, f, t) ==
  [B EXCEPT ![f].refs = B[f].refs + 1, ![f].defer = t, ![t] = NewTimer(f)]

\* The table stays in order with the new timer.
LEMMA NewTimerKeeps ==
  ASSUME NEW D, Good(D), NEW f \in Fds, D[f].kind = "stream", D[f].reg, D[f].defer = None,
         NEW watch \in SUBSET {"IN"}, NEW B, Sets(D, B, f, "future", watch),
         NEW t \in Fds, B[t].kind = "closed",
         NEW E, E = WithNewTimer(B, f, t)
  PROVE  Good(E) /\ (Watched(D) => Watched(E)) /\ Steady(D, E, f)
  <1>1. /\ B \in [Fds -> FdType] /\ SameCounts(D, B)
        /\ B[f].barrier = "future" /\ B[f].watch = watch
        /\ \A x \in Fds \ {f} : B[x] = D[x]
    BY DEF Sets
  <1>2. Plain(D, f) /\ D[f].trefs = 0
    BY FdFacts, GoodIsTidy DEF Tidy, TidyStream, Deferring, Outlived
  <1>3. D[t].kind = "closed" /\ t # f
    BY <1>1 DEF SameCounts
  <1>4. B[f] \in FdType /\ B[f].refs + 1 = 2
    BY <1>1, <1>2 DEF Plain, SameCounts
  <1>5. /\ E[f] = [B[f] EXCEPT !.refs = 2, !.defer = t] /\ E[t] = NewTimer(f)
        /\ (\A x \in Fds \ {f, t} : E[x] = D[x]) /\ E = [x \in Fds |-> E[x]]
    BY <1>1, <1>3, <1>4 DEF WithNewTimer
  <1>6. /\ E[f] \in FdType /\ E[f].kind = "stream" /\ E[f].reg /\ E[f].refs = 2
        /\ E[f].defer = t /\ E[f].trefs = 0 /\ E[f].barrier = "future" /\ E[f].watch = watch
    <2>1. PICK r : r = [B[f] EXCEPT !.refs = 2]
      OBVIOUS
    <2>2. B[f].kind = "stream" /\ B[f].reg /\ B[f].trefs = 0
      BY <1>1, <1>2 DEF SameCounts
    <2>3. /\ r \in FdType /\ r.kind = "stream" /\ r.reg /\ r.refs = 2 /\ r.trefs = 0
          /\ r.barrier = "future" /\ r.watch = watch
      BY <1>1, <1>4, <2>1, <2>2 DEF FdType
    <2>4. E[f] = [r EXCEPT !.defer = t]
      BY <1>5, <2>1
    <2>5. E[f] \in FdType
      BY <2>3, <2>4 DEF FdType
    <2> QED
      BY <2>3, <2>4, <2>5 DEF FdType
  <1>7. /\ E[t] \in FdType /\ E[t].kind = "defer" /\ E[t].reg /\ E[t].owner = f
        /\ E[t].defer = None /\ E[t].trefs = 2 /\ E[t].armed = "armed" /\ E[t].barrier = "none"
    BY <1>5, NewTimerForm
  <1>8. E \in [Fds -> FdType]
    <2>1. \A x \in Fds : D[x] \in FdType
      BY DEF Good
    <2>2. \A x \in Fds : E[x] \in FdType
      BY <1>5, <1>6, <1>7, <2>1
    <2> QED
      BY <1>5, <2>2
  <1>9. PICK S \in SUBSET Fds : S = {f, t}
    OBVIOUS
  <1>10. \A x \in Fds \ S : E[x] = D[x]
    BY <1>5, <1>9
  <1>11. Whole(D, {f}) /\ Whole(D, {t})
    BY <1>2, <1>3, OneIsWhole
  <1>12. Whole(D, S)
    BY <1>9, <1>11 DEF Whole
  <1>13. Whole(E, S)
    <2> SUFFICES ASSUME NEW x \in S, NEW y \in Fds \ S
                 PROVE  ~Serves(E, x, y) /\ ~Serves(E, y, x)
      BY DEF Whole
    <2>1. ~Serves(E, x, y)
      BY <1>6, <1>7, <1>9 DEF Serves
    <2>2. ~Serves(E, y, x)
      BY <1>10, <1>12 DEF Whole, Serves
    <2> QED
      BY <2>1, <2>2
  <1>14. Serves(E, t, f) /\ (\A u \in Fds : Serves(E, u, f) => u = t)
    BY <1>6, <1>7, <1>9, <1>13 DEF Whole, Serves
  <1>15. \A u \in Fds : ~Serves(E, u, t)
    BY <1>3, <1>6, <1>7, <1>9, <1>13 DEF Whole, Serves
  <1>16. Tidy(E, f)
    <2>1. TidyStream(E, f)
      BY <1>6, <1>14 DEF TidyStream, Deferring
    <2>2. Waits(E, f)
      BY <1>6, <1>7, <1>14 DEF Waits
    <2> QED
      BY <1>6, <1>14, <2>1, <2>2 DEF Tidy, OnlyOne
  <1>17. Tidy(E, t)
    <2>1. TidyTimer(E, t)
      BY <1>6, <1>7 DEF TidyTimer, Held
    <2> QED
      BY <1>7, <1>15, <2>1 DEF Tidy, OnlyOne, Waits
  <1>18. \A x \in S : Tidy(E, x)
    BY <1>9, <1>16, <1>17
  <1>19. Good(E)
    BY <1>8, <1>10, <1>12, <1>13, <1>18, WholeChange
  <1>20. Watched(D) => Watched(E)
    <2> SUFFICES ASSUME Watched(D), NEW x \in Fds, E[x].kind # "closed"
                 PROVE  E[x].reg
      BY DEF Watched
    <2>1. CASE x \in {f, t}
      BY <1>6, <1>7, <2>1
    <2>2. CASE x \notin {f, t}
      <3>1. E[x] = D[x]
        BY <1>5, <2>2
      <3> QED
        BY <3>1 DEF Watched
    <2> QED
      BY <2>1, <2>2
  <1>21. Steady(D, E, f)
    <2> SUFFICES ASSUME NEW x \in Fds, D[x].kind # "closed"
                 PROVE  E[x].kind = D[x].kind /\ (x # f => E[x].barrier = D[x].barrier)
      BY DEF Steady
    <2>1. CASE x = f
      BY <1>6, <2>1
    <2>2. CASE x # f
      <3>1. E[x] = D[x]
        BY <1>3, <1>5, <2>2
      <3> QED
        BY <3>1
    <2> QED
      BY <2>1, <2>2
  <1> QED
    BY <1>19, <1>20, <1>21

\* A stream goes on.
LEMMA streamGoesOnKeeps ==
  ASSUME Parts, NEW e \in batch, streamGoesOn(e)
  PROVE  Parts'
  <1>1. PICK f : f = e.fd
    OBVIOUS
  <1>2. Good(d) /\ f \in Fds /\ d \in [Fds -> FdType] /\ d[f] \in FdType
    BY <1>1 DEF Parts, RestTyped, Good
  <1>3. d[f].reg /\ d[f].kind = "stream"
    BY <1>1 DEF streamGoesOn
  <1>4. Trusted(e) => Watched(d)
    BY <1>1, <1>3, TrustedEvents
  <1> DEFINE With(b, w) == [d EXCEPT ![f].barrier = b, ![f].watch = w]
  <1>5. ASSUME NEW b \in {"none", "future", "past"}, NEW w \in SUBSET {"IN", "OUT"}
        PROVE  Sets(d, With(b, w), f, b, w)
    <2>1. PICK B : B = With(b, w)
      OBVIOUS
    <2> QED
      BY <1>2, <1>3, <2>1, SetsForm
  <1>6. CASE "OUT" \in e.ev /\ d[f].barrier = "future"
    <2>1. Aborts(e, "wrote before the barrier")
      BY <1>1, <1>6 DEF streamGoesOn
    <2> QED
      BY <2>1, AbortsKeep
  <1>7. CASE ~("OUT" \in e.ev /\ d[f].barrier = "future")
    <2>1. PICK b \in {"none", "future", "past"} :
            \/ b = "none" /\ \E w \in SUBSET {"IN", "OUT"} \ {{}} : Handled(e, With(b, w))
            \/ b = "past" /\ \E w \in SUBSET {"IN"} : Handled(e, With(b, w \cup {"OUT"}))
            \/ b = "future" /\ \E w \in SUBSET {"IN"} : setDeferTimer(e, With(b, w))
      <3>1. d[f].barrier \in {"none", "future", "past"}
        BY <1>2 DEF FdType
      <3> QED
        BY <1>1, <1>7, <3>1 DEF streamGoesOn
    <2>2. CASE b \in {"none", "past"}
      <3>1. PICK w \in SUBSET {"IN", "OUT"} : Handled(e, With(b, w))
        BY <2>1, <2>2
      <3>2. PICK D : D = With(b, w)
        OBVIOUS
      <3>3. Sets(d, D, f, b, w) /\ Handled(e, D)
        BY <1>5, <3>1, <3>2
      <3> HIDE DEF With
      <3>4. Good(D) /\ (Watched(d) => Watched(D)) /\ Steady(d, D, f)
        BY <1>2, <1>3, <2>2, <3>3, SetsKeeps
      <3> QED
        BY <1>1, <1>4, <3>3, <3>4, HandledKeeps
    <2>3. CASE b = "future"
      <3>1. PICK w \in SUBSET {"IN"} : setDeferTimer(e, With(b, w))
        BY <2>1, <2>3
      <3>2. PICK B : B = With(b, w)
        OBVIOUS
      <3>3. Sets(d, B, f, "future", w) /\ setDeferTimer(e, B)
        BY <1>5, <2>3, <3>1, <3>2
      <3> HIDE DEF With
      <3>4. B[f].defer = d[f].defer
        BY <1>2, <3>3 DEF Sets, SameCounts
      <3>5. CASE B[f].defer # None /\ B[B[f].defer].reg
        <4>1. PICK E : E = Rearmed(B, f)
          OBVIOUS
        <4>2. Handled(e, E)
          BY <1>1, <3>3, <3>5, <4>1 DEF setDeferTimer, Rearmed
        <4>3. Good(E) /\ (Watched(d) => Watched(E)) /\ Steady(d, E, f)
          BY <1>2, <1>3, <3>3, <3>4, <3>5, <4>1, RearmKeeps
        <4> QED
          BY <1>1, <1>4, <4>2, <4>3, HandledKeeps
      <3>6. CASE B[f].defer # None /\ ~B[B[f].defer].reg
        <4>1. Aborts(e, "timer is not registered")
          BY <1>1, <3>3, <3>6 DEF setDeferTimer
        <4> QED
          BY <4>1, AbortsKeep
      <3>7. CASE B[f].defer = None /\ Unused(B) # {}
        <4>1. PICK t \in Fds : t = Lowest(B) /\ B[t].kind = "closed"
          BY <3>7, LowestUnused
        <4>2. PICK E : E = WithNewTimer(B, f, t)
          OBVIOUS
        <4>3. Handled(e, E)
          BY <1>1, <3>3, <3>7, <4>1, <4>2 DEF setDeferTimer, WithNewTimer, NewTimer
        <4>4. Good(E) /\ (Watched(d) => Watched(E)) /\ Steady(d, E, f)
          BY <1>2, <1>3, <3>3, <3>4, <3>7, <4>1, <4>2, NewTimerKeeps
        <4> QED
          BY <1>1, <1>4, <4>3, <4>4, HandledKeeps
      <3>8. CASE B[f].defer = None /\ Unused(B) = {}
        <4>1. Aborts(e, "no timer")
          BY <1>1, <3>3, <3>8 DEF setDeferTimer
        <4> QED
          BY <4>1, AbortsKeep
      <3> QED
        BY <3>5, <3>6, <3>7, <3>8
    <2> QED
      BY <2>2, <2>3
  <1> QED
    BY <1>6, <1>7


\* Whatever an event is, the table stays in order.
LEMMA handleKeeps ==
  ASSUME Parts, NEW e \in batch, handle(e)
  PROVE  Parts'
  BY notReadableKeeps, noChildKeeps, streamGoesOnKeeps, streamCompletesKeeps, timerNotReadyKeeps,
     timerExpiresKeeps, onDeferTimerExpiredKeeps, onHeartbeatKeeps, acceptPeerKeeps DEF handle

\* A batch is reported.
LEMMA loopOnceKeeps ==
  ASSUME Parts, loopOnce
  PROVE  Parts'
  <1>1. Good(d) /\ RestTyped /\ (~stopping /\ ~misled => Watched(d))
    BY DEF Parts
  <1>2. PICK T \in SUBSET Expired, L \in SUBSET {f \in Fds : d[f].kind = "server"},
             S \in SUBSET Streams :
          \E ev \in [S -> SUBSET {"IN", "OUT", "DONE"} \ {{}}] :
            /\ \A f \in S : ev[f] \subseteq d[f].watch \cup {"DONE"}
            /\ batch' = {[fd |-> f, ev |-> IF f \in S THEN ev[f] ELSE {"IN"},
                         stale |-> FALSE] : f \in T \cup L \cup S}
    BY DEF loopOnce
  <1>3. PICK ev \in [S -> SUBSET {"IN", "OUT", "DONE"} \ {{}}] :
            /\ \A f \in S : ev[f] \subseteq d[f].watch \cup {"DONE"}
            /\ batch' = {[fd |-> f, ev |-> IF f \in S THEN ev[f] ELSE {"IN"},
                         stale |-> FALSE] : f \in T \cup L \cup S}
    BY <1>2
  <1>4. d' = d /\ stopping' = stopping /\ aborted' = aborted /\ misled' = misled /\ ~stopping
    BY DEF loopOnce
  <1>5. /\ T \cup L \cup S \subseteq Fds
        /\ \A f \in S : d[f].reg /\ d[f].kind = "stream"
        /\ \A f \in T : d[f].reg
        /\ \A f \in L : d[f].kind = "server"
    BY DEF Expired, Streams
  <1>6. \A f \in T \cup L \cup S : d[f].kind # "closed"
    <2>1. \A f \in Fds : d[f].reg => d[f].kind # "closed"
      BY <1>1, GoodIsTidy DEF Tidy, Closed
    <2> QED
      BY <1>5, <2>1
  <1>7. ASSUME NEW x \in batch'
        PROVE  /\ x \in [fd : Fds, ev : SUBSET {"IN", "OUT", "DONE"}, stale : BOOLEAN]
               /\ x = [fd |-> x.fd, ev |-> IF x.fd \in S THEN ev[x.fd] ELSE {"IN"}, stale |-> FALSE]
               /\ d[x.fd].kind # "closed"
               /\ d[x.fd].kind # "stream" => x.ev = {"IN"}
               /\ "OUT" \in x.ev => d[x.fd].barrier # "future"
    <2>1. PICK f \in T \cup L \cup S :
            x = [fd |-> f, ev |-> IF f \in S THEN ev[f] ELSE {"IN"}, stale |-> FALSE]
      BY <1>3
    <2>2. PICK v \in SUBSET {"IN", "OUT", "DONE"} : v = IF f \in S THEN ev[f] ELSE {"IN"}
      BY <1>3
    <2>3. x = [fd |-> f, ev |-> v, stale |-> FALSE] /\ f \in Fds
      BY <1>5, <2>1, <2>2
    <2>4. /\ x \in [fd : Fds, ev : SUBSET {"IN", "OUT", "DONE"}, stale : BOOLEAN]
          /\ x.fd = f /\ x.ev = v
      BY <2>3
    <2>5. d[f].kind # "stream" => v = {"IN"}
      BY <1>5, <2>2
    <2>6. ASSUME "OUT" \in v
          PROVE  d[f].barrier # "future"
      <3>1. f \in S /\ v = ev[f]
        BY <2>2, <2>6
      <3>2. "OUT" \in d[f].watch
        BY <1>3, <2>6, <3>1
      <3>3. Waits(d, f)
        BY <1>1, <2>3, GoodIsTidy DEF Tidy
      <3> QED
        BY <3>2, <3>3 DEF Waits
    <2> QED
      BY <1>6, <2>1, <2>4, <2>5, <2>6
  <1>8. BatchInOrder'
    <2>1. ASSUME NEW x \in batch', NEW y \in batch', x.fd = y.fd
          PROVE  x = y
      <3>1. x = [fd |-> x.fd, ev |-> IF x.fd \in S THEN ev[x.fd] ELSE {"IN"}, stale |-> FALSE]
        BY <1>7
      <3>2. y = [fd |-> y.fd, ev |-> IF y.fd \in S THEN ev[y.fd] ELSE {"IN"}, stale |-> FALSE]
        BY <1>7
      <3> QED
        BY <2>1, <3>1, <3>2
    <2>2. \A x \in batch' : /\ d'[x.fd].kind # "closed"
                            /\ d'[x.fd].kind # "stream" => x.ev = {"IN"}
                            /\ "OUT" \in x.ev => d'[x.fd].barrier # "future"
      BY <1>4, <1>7
    <2> QED
      BY <1>4, <2>1, <2>2 DEF BatchInOrder
  <1>9. RestTyped'
    <2>1. batch' \subseteq [fd : Fds, ev : SUBSET {"IN", "OUT", "DONE"}, stale : BOOLEAN]
      BY <1>7
    <2> QED
      BY <1>1, <1>4, <2>1 DEF RestTyped
  <1> QED
    BY <1>1, <1>4, <1>8, <1>9 DEF Parts

\* The table changes between two events, and what is left of the batch stays in order.
LEMMA TableChanges ==
  ASSUME Parts, Good(d'), ~stopping' /\ ~misled' => Watched(d'),
         \A x \in Fds : /\ d[x].kind # "closed" => d'[x].kind = d[x].kind
                        /\ d'[x].barrier = "future" => d[x].barrier = "future",
         UNCHANGED <<batch, stopping, aborted, misled>>
  PROVE  Parts'
  <1>1. RestTyped /\ BatchInOrder
    BY DEF Parts
  <1>2. RestTyped'
    BY <1>1 DEF RestTyped
  <1>3. BatchInOrder'
    <2>1. \A x \in batch : x.fd \in Fds
      BY <1>1 DEF RestTyped
    <2>2. ASSUME NEW x \in batch, ~x.stale
          PROVE  /\ d'[x.fd].kind # "closed"
                 /\ d'[x.fd].kind # "stream" => x.ev = {"IN"}
                 /\ "OUT" \in x.ev => d'[x.fd].barrier # "future"
      <3>1. /\ d[x.fd].kind # "closed"
            /\ d[x.fd].kind # "stream" => x.ev = {"IN"}
            /\ "OUT" \in x.ev => d[x.fd].barrier # "future"
        BY <1>1, <2>2 DEF BatchInOrder
      <3> QED
        BY <2>1, <3>1
    <2>3. \A x, y \in batch : x.fd = y.fd => x = y
      BY <1>1 DEF BatchInOrder
    <2> QED
      BY <1>1, <2>2, <2>3 DEF BatchInOrder
  <1> QED
    BY <1>2, <1>3 DEF Parts

\* A barrier passes.
LEMMA barrierPassesKeeps ==
  ASSUME Parts, NEW f \in Fds, barrierPasses(f)
  PROVE  Parts'
  <1>1. Good(d) /\ d \in [Fds -> FdType] /\ d[f] \in FdType
    BY DEF Parts, Good
  <1>2. /\ d[f].barrier = "future" /\ d' = [d EXCEPT ![f].barrier = "past"]
        /\ UNCHANGED <<batch, stopping, aborted, misled>>
    BY DEF barrierPasses
  <1>3. d[f].kind = "stream"
    BY <1>1, <1>2, GoodIsTidy DEF Tidy, Waits
  <1>4. PICK E : E = d'
    OBVIOUS
  <1>5. /\ E[f] = [d[f] EXCEPT !.barrier = "past"] /\ (\A x \in Fds \ {f} : E[x] = d[x])
        /\ E = [x \in Fds |-> E[x]]
    BY <1>1, <1>2, <1>4
  <1>6. Sets(d, E, f, "past", d[f].watch)
    <2>1. /\ E[f] \in FdType /\ E[f].kind = d[f].kind /\ E[f].reg = d[f].reg
          /\ E[f].refs = d[f].refs /\ E[f].defer = d[f].defer /\ E[f].trefs = d[f].trefs
          /\ E[f].owner = d[f].owner /\ E[f].barrier = "past" /\ E[f].watch = d[f].watch
      BY <1>1, <1>5 DEF FdType
    <2>2. \A x \in Fds : E[x] \in FdType
      BY <1>1, <1>5, <2>1
    <2>3. E \in [Fds -> FdType]
      BY <1>5, <2>2
    <2>4. SameCounts(d, E)
      BY <1>3, <1>5, <2>1 DEF SameCounts
    <2> QED
      BY <1>5, <2>1, <2>3, <2>4 DEF Sets
  <1>7. Good(E) /\ (Watched(d) => Watched(E))
    BY <1>1, <1>3, <1>6, SetsKeeps
  <1>8. \A x \in Fds : /\ E[x].kind = d[x].kind
                       /\ E[x].barrier = "future" => d[x].barrier = "future"
    BY <1>2, <1>6 DEF Sets, SameCounts
  <1>9. ~stopping' /\ ~misled' => Watched(d')
    BY <1>2, <1>4, <1>7 DEF Parts
  <1> QED
    BY <1>2, <1>4, <1>7, <1>8, <1>9, TableChanges

\* A timer expires, and a defer timer only when the barrier has passed.
LEMMA expireKeeps ==
  ASSUME Parts, NEW t \in Fds, expire(t)
  PROVE  Parts'
  <1>1. Good(d) /\ d \in [Fds -> FdType] /\ d[t] \in FdType
    BY DEF Parts, Good
  <1>2. /\ d[t].armed = "armed" /\ d' = [d EXCEPT ![t].armed = "expired"]
        /\ d[t].kind = "defer" => d[d[t].owner].barrier # "future"
        /\ UNCHANGED <<batch, stopping, aborted, misled>>
    BY DEF expire
  <1>3. d[t].kind # "closed"
    BY <1>1, <1>2, GoodIsTidy DEF Tidy, Closed
  <1>4. PICK E : E = d'
    OBVIOUS
  <1>5. /\ E[t] = [d[t] EXCEPT !.armed = "expired"] /\ (\A x \in Fds \ {t} : E[x] = d[x])
        /\ E = [x \in Fds |-> E[x]]
    BY <1>1, <1>2, <1>4
  <1>6. /\ E[t] \in FdType /\ E[t].kind = d[t].kind /\ E[t].reg = d[t].reg
        /\ E[t].refs = d[t].refs /\ E[t].defer = d[t].defer /\ E[t].trefs = d[t].trefs
        /\ E[t].owner = d[t].owner /\ E[t].barrier = d[t].barrier /\ E[t].watch = d[t].watch
    BY <1>1, <1>5 DEF FdType
  <1>7. E \in [Fds -> FdType]
    <2>1. \A x \in Fds : E[x] \in FdType
      BY <1>1, <1>5, <1>6
    <2> QED
      BY <1>5, <2>1
  <1>8. SameCounts(d, E)
    BY <1>3, <1>5, <1>6 DEF SameCounts
  <1>9. \A x \in Fds : E[x].barrier = d[x].barrier /\ E[x].watch = d[x].watch
    BY <1>5, <1>6
  <1>10. ASSUME NEW x \in Fds
         PROVE  Waits(E, x)
    <2> SUFFICES ASSUME E[x].barrier = "future"
                 PROVE  Waits(E, x)
      BY DEF Waits
    <2>1. Waits(d, x)
      BY <1>1, GoodIsTidy DEF Tidy
    <2>2. ASSUME NEW u \in Fds, Serves(E, u, x)
          PROVE  E[u].armed # "expired"
      <3>1. Serves(d, u, x)
        BY <1>8, <2>2 DEF SameCounts, Serves
      <3>2. u # t
        BY <1>2, <1>9, <3>1 DEF Serves
      <3> QED
        BY <1>5, <1>9, <2>1, <3>1, <3>2 DEF Waits
    <2> QED
      BY <1>8, <1>9, <2>1, <2>2 DEF Waits, SameCounts
  <1>11. Good(E) /\ (Watched(d) => Watched(E))
    BY <1>1, <1>7, <1>8, <1>10, SetKeeps
  <1>12. \A x \in Fds : E[x].kind = d[x].kind
    BY <1>8 DEF SameCounts
  <1>13. ~stopping' /\ ~misled' => Watched(d')
    BY <1>2, <1>4, <1>11 DEF Parts
  <1> QED
    BY <1>2, <1>4, <1>9, <1>11, <1>12, <1>13, TableChanges

\* The table of children is destroyed, one child after the other.
LEMMA destroyKeeps ==
  ASSUME Parts, NEW f \in Fds, destroy(f)
  PROVE  Parts'
  <1>1. Good(d) /\ RestTyped /\ BatchInOrder
    BY DEF Parts
  <1>2. /\ stopping /\ d[f].reg /\ d' = HashTableDestroy(d, f)
        /\ batch' = batch /\ stopping' = stopping /\ aborted' = aborted /\ misled' = misled
    BY DEF destroy
  <1>3. PICK E : E = HashTableDestroy(d, f)
    OBVIOUS
  <1>4. Good(E)
    BY <1>1, <1>2, <1>3, DestroyKeeps
  <1>5. RestTyped'
    BY <1>1, <1>2 DEF RestTyped
  <1>6. BatchInOrder'
    BY <1>1, <1>2 DEF BatchInOrder
  <1> QED
    BY <1>2, <1>3, <1>4, <1>5, <1>6 DEF Parts

\* The table of children begins to be destroyed.
LEMMA shutdownIOKeeps ==
  ASSUME Parts, shutdownIO
  PROVE  Parts'
  <1>1. Good(d) /\ RestTyped
    BY DEF Parts
  <1>2. /\ batch = {} /\ stopping' = TRUE
        /\ d' = d /\ batch' = batch /\ aborted' = aborted /\ misled' = misled
    BY DEF shutdownIO
  <1>3. RestTyped'
    BY <1>1, <1>2 DEF RestTyped
  <1>4. BatchInOrder'
    BY <1>2 DEF BatchInOrder
  <1> QED
    BY <1>1, <1>2, <1>3, <1>4 DEF Parts
-----------------------------------------------------------------------------
(* The theorems.                                                            *)

\* The table that tgendriver_new leaves is in order.
LEMMA InitHolds == Init => Parts
  <1> SUFFICES ASSUME Init
               PROVE  Parts
    OBVIOUS
  <1>1. PICK A : A = [f \in Fds |-> Closed]
    OBVIOUS
  <1>2. Good(A) /\ Watched(A)
    <2>1. A \in [Fds -> FdType] /\ \A f \in Fds : A[f] = Closed
      BY <1>1, Records
    <2>2. Closed.kind = "closed" /\ Closed.barrier = "none"
      BY DEF Closed
    <2>3. \A t, f \in Fds : ~Serves(A, t, f)
      BY <2>1, <2>2 DEF Serves
    <2>4. \A f \in Fds : Tidy(A, f)
      BY <2>1, <2>2, <2>3 DEF Tidy, OnlyOne, Waits
    <2> QED
      BY <2>1, <2>2, <2>4, TidyIsGood DEF Watched
  <1>3. {"heartbeat", "server", "timer"} \subseteq Kinds
    BY DEF Kinds
  <1>4. PICK B : B = OpenIf(A, Timeouts, "heartbeat")
    OBVIOUS
  <1>5. Good(B) /\ Watched(B)
    BY <1>2, <1>3, <1>4, OpenIfKeeps
  <1>6. PICK C : C = OpenIf(B, HasServer, "server")
    OBVIOUS
  <1>7. Good(C) /\ Watched(C)
    BY <1>3, <1>5, <1>6, OpenIfKeeps
  <1>8. d = Open(C, "timer")
    BY <1>1, <1>4, <1>6 DEF Init
  <1>9. Good(d) /\ Watched(d)
    BY <1>3, <1>7, <1>8, OpenKeeps
  <1>10. RestTyped /\ BatchInOrder
    BY DEF Init, RestTyped, BatchInOrder
  <1> QED
    BY <1>9, <1>10 DEF Parts

\* Every step keeps the table in order.
LEMMA NextKeeps == Parts /\ [Next]_vars => Parts'
  <1> SUFFICES ASSUME Parts, [Next]_vars
               PROVE  Parts'
    OBVIOUS
  <1>1. CASE UNCHANGED vars
    <2>1. /\ d' = d /\ batch' = batch /\ stopping' = stopping /\ aborted' = aborted
          /\ misled' = misled
      BY <1>1 DEF vars
    <2> QED
      BY <2>1 DEF Parts, RestTyped, BatchInOrder
  <1>2. CASE loopOnce
    BY <1>2, loopOnceKeeps
  <1>3. CASE shutdownIO
    BY <1>3, shutdownIOKeeps
  <1>4. CASE \E e \in batch : handle(e)
    BY <1>4, handleKeeps
  <1>5. CASE \E f \in Fds : barrierPasses(f) \/ expire(f) \/ destroy(f)
    BY <1>5, barrierPassesKeeps, expireKeeps, destroyKeeps
  <1>6. CASE over
    BY <1>1, <1>6 DEF over
  <1> QED
    BY <1>1, <1>2, <1>3, <1>4, <1>5, <1>6 DEF Next

\* The I/O loop keeps its table in order (IOInv), for any number of descriptors and events,
\* and also when events reach children that they were not reported for: children and defer
\* timers count each other, deferred writes wait for their barrier, and an event that is not
\* out of date is one that its child can handle.
THEOREM TableInOrder == Spec => []IOInv
  <1>1. Init => Parts
    BY InitHolds
  <1>2. Parts /\ [Next]_vars => Parts'
    BY NextKeeps
  <1>3. Parts => IOInv
    BY PartsGiveInv
  <1> QED
    BY <1>1, <1>2, <1>3, PTL DEF Spec

\* When the table has been destroyed, in whatever order its children were, nothing is left
\* open (AllReleased): _tgeniochild_hashTableDestroy breaks the cycle of references between
\* a stream's child and its defer timer.
THEOREM EverythingIsReleased == Spec => []AllReleased
  <1>1. IOInv => AllReleased
    <2> SUFFICES ASSUME IOInv, \A f \in Fds : ~d[f].reg, NEW f \in Fds
                 PROVE  d[f].kind = "closed"
      BY DEF AllReleased
    <2>1. Good(d) /\ \A x \in Fds : Tidy(d, x)
      BY InvHasParts, GoodIsTidy DEF Parts
    <2>2. d[f] \in FdType
      BY <2>1 DEF Good
    <2>3. \A t \in Fds : d[t].kind # "defer"
      <3> SUFFICES ASSUME NEW t \in Fds, d[t].kind = "defer"
                   PROVE  FALSE
        OBVIOUS
      <3>1. TidyTimer(d, t)
        BY <2>1 DEF Tidy
      <3>2. d[t].owner \in Fds /\ d[d[t].owner].kind = "stream" /\ d[d[t].owner].defer = t
        BY <3>1 DEF TidyTimer, Held, Forgotten, Orphaned
      <3>3. TidyStream(d, d[t].owner)
        BY <2>1, <3>2 DEF Tidy
      <3> QED
        BY <3>2, <3>3, FdFacts DEF TidyStream, Plain, Deferring, Outlived
    <2>4. d[f].kind # "stream"
      BY <2>1, <2>3 DEF Tidy, TidyStream, Plain, Deferring, Outlived, Serves
    <2>5. d[f].kind \notin {"server", "timer", "heartbeat"}
      BY <2>1 DEF Tidy, TidyOther
    <2> QED
      BY <2>2, <2>3, <2>4, <2>5 DEF FdType
  <1> QED
    BY <1>1, TableInOrder, PTL


\* An event that reaches the wrong child is seen to have done so.
LEMMA AbortsMisled ==
  ASSUME NEW e, NEW why, Aborts(e, why), Trusted(e) => why = "no timer",
         misled \in BOOLEAN
  PROVE  AssertionsHoldInTime'
  BY DEF Aborts, Meets, Trusted, AssertionsHoldInTime

\* An event that was handled has failed no assertion.
LEMMA HandledFine ==
  ASSUME NEW e, NEW D, Handled(e, D), aborted = "no"
  PROVE  AssertionsHoldInTime'
  BY DEF Handled, AssertionsHoldInTime

\* The assertion of onDeferTimerExpired holds when the event may be trusted.
LEMMA DeferTimerFine ==
  ASSUME Parts, aborted = "no", NEW e \in batch, onDeferTimerExpired(e)
  PROVE  AssertionsHoldInTime'
  <1>1. misled \in BOOLEAN /\ e.fd \in Fds /\ d[e.fd].reg /\ d[e.fd].kind = "defer"
    BY DEF Parts, RestTyped, onDeferTimerExpired
  <1>2. PICK f : f = d[e.fd].owner
    OBVIOUS
  <1>3. CASE ~d[f].reg \/ d[f].defer # e.fd
    <2>1. Aborts(e, "not the child")
      BY <1>2, <1>3 DEF onDeferTimerExpired
    <2>2. ~Trusted(e)
      <3> SUFFICES ASSUME Trusted(e)
                   PROVE  FALSE
        OBVIOUS
      <3>1. Watched(d) /\ Good(d)
        BY <1>1, TrustedEvents
      <3>2. TidyTimer(d, e.fd)
        BY <1>1, <3>1, GoodIsTidy DEF Tidy
      <3>3. f \in Fds /\ d[f].reg
        BY <1>2, <3>1, <3>2 DEF TidyTimer, Watched
      <3> QED
        BY <1>1, <1>2, <1>3, <3>2, <3>3 DEF TidyTimer, Held, Forgotten, Orphaned
    <2> QED
      BY <1>1, <2>1, <2>2, AbortsMisled
  <1>4. CASE ~(~d[f].reg \/ d[f].defer # e.fd)
    <2>1. \E D : Handled(e, D)
      BY <1>2, <1>4 DEF onDeferTimerExpired, HandledUnlessDone
    <2> QED
      BY <2>1, HandledFine
  <1> QED
    BY <1>3, <1>4

\* The assertions of setDeferTimer and of the write barrier do too.
LEMMA StreamFine ==
  ASSUME Parts, aborted = "no", NEW e \in batch, streamGoesOn(e)
  PROVE  AssertionsHoldInTime'
  <1>1. misled \in BOOLEAN /\ Good(d)
    BY DEF Parts, RestTyped
  <1>2. PICK f : f = e.fd
    OBVIOUS
  <1>3. f \in Fds /\ d[f].reg /\ d[f].kind = "stream" /\ d \in [Fds -> FdType]
    BY <1>1, <1>2 DEF Parts, RestTyped, streamGoesOn, Good
  <1>4. CASE "OUT" \in e.ev /\ d[f].barrier = "future"
    <2>1. Aborts(e, "wrote before the barrier")
      BY <1>2, <1>4 DEF streamGoesOn
    <2>2. ~Trusted(e)
      BY <1>2, <1>3, <1>4, TrustedEvents
    <2> QED
      BY <1>1, <2>1, <2>2, AbortsMisled
  <1>5. CASE ~("OUT" \in e.ev /\ d[f].barrier = "future")
    <2>1. \/ \E D : Handled(e, D)
          \/ \E w \in SUBSET {"IN"} :
               setDeferTimer(e, [d EXCEPT ![f].barrier = "future", ![f].watch = w])
      BY <1>2, <1>5 DEF streamGoesOn
    <2>2. CASE \E D : Handled(e, D)
      BY <2>2, HandledFine
    <2>3. CASE \E w \in SUBSET {"IN"} :
                 setDeferTimer(e, [d EXCEPT ![f].barrier = "future", ![f].watch = w])
      <3>1. PICK w \in SUBSET {"IN"} :
              setDeferTimer(e, [d EXCEPT ![f].barrier = "future", ![f].watch = w])
        BY <2>3
      <3>2. PICK B : B = [d EXCEPT ![f].barrier = "future", ![f].watch = w]
        OBVIOUS
      <3>3. Sets(d, B, f, "future", w)
        <4>1. "future" \in {"none", "future", "past"} /\ w \in SUBSET {"IN", "OUT"}
          OBVIOUS
        <4> QED
          BY <1>3, <3>2, <4>1, SetsForm
      <3>4. setDeferTimer(e, B)
        BY <3>1, <3>2
      <3>5. CASE B[f].defer # None /\ ~B[B[f].defer].reg
        <4>1. Aborts(e, "timer is not registered")
          BY <1>2, <3>4, <3>5 DEF setDeferTimer
        <4>2. SameCounts(d, B)
          BY <3>3 DEF Sets
        <4>3. d[f].defer = B[f].defer
          BY <1>3, <4>2 DEF SameCounts
        <4>4. Deferring(d, f)
          BY <1>1, <1>3, <3>5, <4>3, GoodIsTidy DEF Tidy, TidyStream, Plain, Outlived
        <4>5. PICK t \in Fds : t = d[f].defer /\ d[t].kind = "defer"
          BY <1>1, <1>3, <4>4, DeferringPair
        <4>6. ~d[t].reg
          BY <3>5, <4>2, <4>3, <4>5 DEF SameCounts
        <4>7. ~Trusted(e)
          BY <1>2, <1>3, <4>5, <4>6, TrustedEvents DEF Watched
        <4> QED
          BY <1>1, <4>1, <4>7, AbortsMisled
      <3>6. CASE ~(B[f].defer # None /\ ~B[B[f].defer].reg)
        <4>1. Aborts(e, "no timer") \/ \E D : Handled(e, D)
          BY <1>2, <3>4, <3>6 DEF setDeferTimer
        <4> QED
          BY <1>1, <4>1, HandledFine, AbortsMisled
      <3> QED
        BY <3>5, <3>6
    <2> QED
      BY <2>1, <2>2, <2>3
  <1> QED
    BY <1>4, <1>5

\* No assertion fails unless an event was handed to the wrong child before, or now.
LEMMA handleFine ==
  ASSUME Parts, aborted = "no", NEW e \in batch, handle(e)
  PROVE  AssertionsHoldInTime'
  <1>1. CASE notReadable(e)
    <2>1. Aborts(e, "not readable") /\ ReadOnly(e) /\ "IN" \notin e.ev /\ misled \in BOOLEAN
      BY <1>1 DEF notReadable, Parts, RestTyped
    <2>2. ~Trusted(e)
      BY <2>1, TrustedEvents DEF ReadOnly
    <2> QED
      BY <2>1, <2>2, AbortsMisled
  <1>2. CASE streamGoesOn(e)
    BY <1>2, StreamFine
  <1>3. CASE onDeferTimerExpired(e)
    BY <1>3, DeferTimerFine
  <1>4. CASE \/ noChild(e) \/ streamCompletes(e) \/ timerNotReady(e) \/ timerExpires(e)
             \/ onHeartbeat(e) \/ acceptPeer(e)
    <2>1. \E D : Handled(e, D)
      BY <1>4 DEF noChild, streamCompletes, timerNotReady, timerExpires, onHeartbeat, acceptPeer,
                  HandledUnlessDone
    <2> QED
      BY <2>1, HandledFine
  <1> QED
    BY <1>1, <1>2, <1>3, <1>4 DEF handle

\* The assertions of the timers, of the server and of the write barrier hold
\* (AssertionsHoldInTime), however the events of a batch and the calls of their handlers
\* interleave, until a descriptor is used again within a batch or there is none for a timer.
THEOREM AssertionsHoldUntilMisled == Spec => []AssertionsHoldInTime
  <1>1. Init => Parts /\ AssertionsHoldInTime
    BY InitHolds DEF Init, AssertionsHoldInTime
  <1>2. Parts /\ AssertionsHoldInTime /\ [Next]_vars => Parts' /\ AssertionsHoldInTime'
    <2> SUFFICES ASSUME Parts, AssertionsHoldInTime, [Next]_vars
                 PROVE  AssertionsHoldInTime'
      BY NextKeeps
    <2>1. CASE aborted' = aborted /\ misled' = misled
      BY <2>1 DEF AssertionsHoldInTime
    <2>2. CASE Running /\ \E e \in batch : handle(e)
      BY <2>2, handleFine DEF Running
    <2>3. \/ aborted' = aborted /\ misled' = misled
          \/ Running /\ \E e \in batch : handle(e)
      BY DEF Next, loopOnce, shutdownIO, barrierPasses, expire, destroy, over, vars
    <2> QED
      BY <2>1, <2>2, <2>3
  <1> QED
    BY <1>1, <1>2, PTL DEF Spec
=============================================================================
