-------------------------- MODULE TGenDriverProofs --------------------------
(***************************************************************************)
(* Proofs about TGenDriver, for every action graph, any number of slots    *)
(* and all bounds: DriverInv is inductive, and with it the walk through a  *)
(* graph without dead ends is never lost.                                  *)
(***************************************************************************)
EXTENDS TGenDriver, TGenInduction, SequenceTheorems

EdgesToFollow == [src : Actions, to : Actions]
AllSlots == Slots \cup {Server}
NoDeadEnds == \A a \in Actions : Out[a] # <<>>
-----------------------------------------------------------------------------
(* The graph.                                                               *)

\* The loop that collects the edges without weight yields edges, and at least one if the
\* action has edges and none of them has a weight.
LEMMA UnweightedEdges ==
  ASSUME NEW a \in Actions
  PROVE  /\ Unweighted(a) \in Seq(Edge)
         /\ (\A i \in 1 .. Len(Out[a]) : Out[a][i].weight = Unset) /\ Out[a] # <<>>
              => Unweighted(a) # <<>>
<1> DEFINE N == Len(Out[a])
           E(i) == Out[a][i]
           Q == Seq(Edge)
           Solves(r) == r = [i \in 0 .. N |->
                               IF i = 0 THEN <<>>
                               ELSE IF E(i).weight = Unset THEN Append(r[i - 1], E(i))
                               ELSE r[i - 1]]
           result == CHOOSE r : Solves(r)
<1>1. N \in Nat /\ \A i \in 1 .. N : E(i) \in Edge
  BY GraphAssumption
<1>2. Unweighted(a) = result[N]
  BY DEF Unweighted
<1>3. <<>> \in Q /\ \A q \in Q, e \in Edge : Append(q, e) \in Q /\ Append(q, e) # <<>>
  BY AppendProperties, EmptySeq
<1>4. Out[a] # <<>> => N > 0
  BY GraphAssumption
<1> HIDE DEF N, E, Q
<1>5. \E r : Solves(r) /\ r \in [0 .. N -> Q]
  <2> DEFINE c == <<>>
             g == [i \in Nat |-> [q \in Q |->
                    IF i \in 1 .. N /\ E(i).weight = Unset THEN Append(q, E(i)) ELSE q]]
  <2>1. g \in [Nat -> [Q -> Q]]
    BY <1>1, <1>3
  <2>2. c \in Q
    BY <1>3
  <2>3. PICK h \in [0 .. N -> Q] : h[0] = c /\ \A i \in 1 .. N : h[i] = g[i][h[i - 1]]
    <3> HIDE DEF g, c
    <3>1. PICK h : DefinedBy(h, N, Q, c, g)
      BY <1>1, <2>1, <2>2, RecursionExists
    <3> QED
      BY <3>1 DEF DefinedBy
  <2>4. ASSUME NEW i \in 1 .. N
        PROVE  h[i] = IF E(i).weight = Unset THEN Append(h[i - 1], E(i)) ELSE h[i - 1]
    <3>1. i - 1 \in 0 .. N /\ i \in Nat
      BY <1>1
    <3>2. h[i - 1] \in Q
      BY <2>3, <3>1
    <3> QED
      BY <2>3, <3>1, <3>2
  <2>5. Solves(h)
    <3> DEFINE k == [i \in 0 .. N |-> IF i = 0 THEN <<>>
                                      ELSE IF E(i).weight = Unset THEN Append(h[i - 1], E(i))
                                      ELSE h[i - 1]]
    <3>1. ASSUME NEW i \in 0 .. N PROVE h[i] = k[i]
      <4>1. CASE i = 0
        BY <2>3, <4>1
      <4>2. CASE i # 0
        <5>1. i \in 1 .. N
          BY <1>1, <4>2
        <5> QED
          BY <2>4, <4>2, <5>1
      <4> QED
        BY <4>1, <4>2
    <3>2. h = [i \in 0 .. N |-> h[i]] /\ k = [i \in 0 .. N |-> k[i]]
      BY <2>3
    <3> HIDE DEF k
    <3>3. h = k
      BY <3>1, <3>2
    <3> QED
      BY <3>3 DEF k
  <2> QED
    BY <2>3, <2>5
<1>6. Solves(result)
  BY <1>5
<1> HIDE DEF result
<1>7. /\ result[0] = <<>>
      /\ \A i \in 1 .. N :
           result[i] = IF E(i).weight = Unset THEN Append(result[i - 1], E(i)) ELSE result[i - 1]
  <2>1. 0 \in 0 .. N /\ \A i \in 1 .. N : i \in 0 .. N /\ i # 0
    BY <1>1
  <2> QED
    BY <1>6, <2>1
<1>8. \A i \in 0 .. N : result[i] \in Q
  <2> DEFINE P == {i \in Nat : i \in 0 .. N => result[i] \in Q}
  <2>1. 0 \in P
    BY <1>3, <1>7
  <2>2. ASSUME NEW i \in Nat, i \in P PROVE i + 1 \in P
    <3> SUFFICES ASSUME i + 1 \in 0 .. N PROVE result[i + 1] \in Q
      OBVIOUS
    <3>1. i \in 0 .. N /\ i + 1 \in 1 .. N /\ (i + 1) - 1 = i
      BY <1>1
    <3>2. result[i] \in Q /\ E(i + 1) \in Edge
      BY <1>1, <2>2, <3>1
    <3> QED
      BY <1>3, <1>7, <3>1, <3>2
  <2>3. \A i \in Nat : i \in P
    <3> HIDE DEF P
    <3> QED
      BY <2>1, <2>2, NatInductionSet
  <2> QED
    BY <1>1, <2>3
<1>9. Unweighted(a) \in Q
  BY <1>1, <1>2, <1>8
<1>10. ASSUME \A i \in 1 .. N : E(i).weight = Unset, Out[a] # <<>>
       PROVE  Unweighted(a) # <<>>
  <2>1. N \in 1 .. N /\ N - 1 \in 0 .. N
    BY <1>1, <1>4, <1>10
  <2>2. result[N] = Append(result[N - 1], E(N))
    BY <1>7, <1>10, <2>1
  <2> QED
    BY <1>1, <1>2, <1>3, <1>8, <2>1, <2>2
<1> QED
  BY <1>9, <1>10 DEF Q, N, E

\* What may follow an action are edges that leave it, and in a graph without dead ends
\* there is one.
LEMMA NextEdges ==
  ASSUME NEW a \in Actions, NEW next \in NextActionIDs(a)
  PROVE  /\ next \in Seq(EdgesToFollow)
         /\ Out[a] # <<>> => next # <<>>
<1>1. \A q \in Seq(Edge) : /\ Follow(a, q) \in Seq(EdgesToFollow)
                           /\ Len(Follow(a, q)) = Len(q)
  <2> SUFFICES ASSUME NEW q \in Seq(Edge) PROVE Follow(a, q) \in Seq(EdgesToFollow)
                                                /\ Len(Follow(a, q)) = Len(q)
    OBVIOUS
  <2>1. \A i \in 1 .. Len(q) : [src |-> a, to |-> q[i].to] \in EdgesToFollow
    <3> SUFFICES ASSUME NEW i \in 1 .. Len(q)
                 PROVE  [src |-> a, to |-> q[i].to] \in EdgesToFollow
      OBVIOUS
    <3>1. q[i] \in Edge
      BY ElementOfSeq
    <3> QED
      BY <3>1 DEF Edge, EdgesToFollow
  <2>2. Follow(a, q) \in [1 .. Len(q) -> EdgesToFollow] /\ Len(q) \in Nat
    BY <2>1 DEF Follow
  <2> QED
    BY <2>2
<1> DEFINE choices == {i \in 1 .. Len(Out[a]) : Out[a][i].weight # Unset}
<1>2. Out[a] \in Seq(Edge) /\ \A i \in 1 .. Len(Out[a]) : Out[a][i] \in Edge
  BY GraphAssumption
<1>3. CASE choices = {}
  <2>1. next = Follow(a, Unweighted(a))
    BY <1>3 DEF NextActionIDs
  <2>2. next \in Seq(EdgesToFollow)
    BY <1>1, <2>1, UnweightedEdges
  <2>3. ASSUME Out[a] # <<>> PROVE next # <<>>
    <3>1. Unweighted(a) # <<>> /\ Unweighted(a) \in Seq(Edge)
      BY <1>3, <2>3, UnweightedEdges
    <3>2. Len(next) # 0
      BY <1>1, <2>1, <3>1, EmptySeq
    <3> QED
      BY <2>2, <3>2, EmptySeq
  <2> QED
    BY <2>2, <2>3
<1>4. CASE choices # {}
  <2>1. PICK i \in choices : next = Follow(a, Append(Unweighted(a), Out[a][i]))
    BY <1>4 DEF NextActionIDs
  <2> DEFINE q == Append(Unweighted(a), Out[a][i])
  <2>2. Out[a][i] \in Edge /\ Unweighted(a) \in Seq(Edge)
    BY <1>2, UnweightedEdges
  <2>3. q \in Seq(Edge) /\ Len(q) = Len(Unweighted(a)) + 1 /\ Len(Unweighted(a)) \in Nat
    BY <2>2, AppendProperties
  <2>4. next = Follow(a, q)
    BY <2>1
  <2> HIDE DEF q
  <2>5. next \in Seq(EdgesToFollow) /\ Len(next) = Len(q)
    BY <1>1, <2>3, <2>4
  <2>6. Len(next) # 0
    BY <2>3, <2>5
  <2> QED
    BY <2>5, <2>6, EmptySeq
<1> QED
  BY <1>3, <1>4

\* continueNextActions puts edges before those that the callers have left.
LEMMA ContinueKeeps ==
  ASSUME NEW a \in Actions, NEW ended \in BOOLEAN, NEW rest \in Seq(EdgesToFollow),
         ContinueNextActions(a, ended, rest)
  PROVE  /\ agenda' \in Seq(EdgesToFollow)
         /\ NoDeadEnds /\ ~ended => agenda' # <<>>
<1>1. CASE ended
  BY <1>1 DEF ContinueNextActions
<1>2. CASE ~ended
  <2>1. PICK next \in NextActionIDs(a) : agenda' = next \o rest
    BY <1>2 DEF ContinueNextActions
  <2>2. next \in Seq(EdgesToFollow) /\ (NoDeadEnds => next # <<>>)
    BY NextEdges DEF NoDeadEnds
  <2>3. agenda' \in Seq(EdgesToFollow) /\ Len(agenda') = Len(next) + Len(rest)
    BY <2>1, <2>2, ConcatProperties
  <2>4. ASSUME NoDeadEnds PROVE agenda' # <<>>
    <3>1. Len(next) # 0 /\ Len(next) \in Nat /\ Len(rest) \in Nat
      BY <2>2, <2>4, EmptySeq
    <3>2. Len(agenda') # 0
      BY <2>3, <3>1
    <3> QED
      BY <2>3, <3>2, EmptySeq
  <2> QED
    BY <2>3, <2>4
<1> QED
  BY <1>1, <1>2
-----------------------------------------------------------------------------
(* Steps, in parts.  The invariant that is kept is DriverInv with WalkAlive. *)

WalkInv == DriverInv /\ WalkAlive

\* The first edge leads to an action, and the rest are edges.
LEMMA HeadEdge ==
  ASSUME TypeOK, agenda # <<>>
  PROVE  Head(agenda).to \in Actions /\ Tail(agenda) \in Seq(EdgesToFollow)
<1>1. agenda \in Seq(EdgesToFollow)
  BY DEF TypeOK, EdgesToFollow
<1>2. Head(agenda) \in EdgesToFollow /\ Tail(agenda) \in Seq(EdgesToFollow)
  BY <1>1, HeadTailProperties
<1> QED
  BY <1>2 DEF EdgesToFollow

\* What is counted stays a count, and is in the next heartbeat.
LEMMA CountKeeps ==
  ASSUME TypeOK, HeartbeatsAddUp,
         CountCreated \/ CountCompleted \/ UNCHANGED counts
  PROVE  /\ {total, beat, logged}' \subseteq StreamCounts
         /\ bytes' \in [sent : Nat, received : Nat]
         /\ HeartbeatsAddUp'
<1>1. total \in StreamCounts /\ beat \in StreamCounts /\ logged \in StreamCounts
  BY DEF TypeOK
<1>2. CASE UNCHANGED counts
  BY <1>2 DEF counts, TypeOK, HeartbeatsAddUp
<1>3. CASE CountCreated
  <2>1. \A c \in StreamCounts : /\ [c EXCEPT !.created = @ + 1] \in StreamCounts
                                /\ [c EXCEPT !.created = @ + 1].created = c.created + 1
                                /\ [c EXCEPT !.created = @ + 1].completed = c.completed
                                /\ c.created \in Nat /\ c.completed \in Nat
    BY DEF StreamCounts
  <2>2. /\ total' = [total EXCEPT !.created = @ + 1]
        /\ beat' = [beat EXCEPT !.created = @ + 1]
        /\ logged' = logged /\ bytes' = bytes
    BY <1>3 DEF CountCreated
  <2>3. total' \in StreamCounts /\ beat' \in StreamCounts /\ logged' \in StreamCounts
    BY <1>1, <2>1, <2>2
  <2>4. HeartbeatsAddUp'
    <3>1. /\ \A c \in {total, beat, logged} : c.created \in Nat /\ c.completed \in Nat
          /\ total.created = logged.created + beat.created
          /\ total.completed = logged.completed + beat.completed
      BY <1>1, <2>1 DEF HeartbeatsAddUp
    <3> QED
      BY <1>1, <2>1, <2>2, <3>1 DEF HeartbeatsAddUp
  <2> QED
    BY <2>2, <2>3, <2>4 DEF TypeOK
<1>4. CASE CountCompleted
  <2>1. \A c \in StreamCounts : /\ [c EXCEPT !.completed = @ + 1] \in StreamCounts
                                /\ [c EXCEPT !.completed = @ + 1].completed = c.completed + 1
                                /\ [c EXCEPT !.completed = @ + 1].created = c.created
                                /\ c.created \in Nat /\ c.completed \in Nat
    BY DEF StreamCounts
  <2>2. /\ total' = [total EXCEPT !.completed = @ + 1]
        /\ beat' = [beat EXCEPT !.completed = @ + 1]
        /\ logged' = logged /\ bytes' = bytes
    BY <1>4 DEF CountCompleted
  <2>3. total' \in StreamCounts /\ beat' \in StreamCounts /\ logged' \in StreamCounts
    BY <1>1, <2>1, <2>2
  <2>4. HeartbeatsAddUp'
    <3>1. /\ \A c \in {total, beat, logged} : c.created \in Nat /\ c.completed \in Nat
          /\ total.created = logged.created + beat.created
          /\ total.completed = logged.completed + beat.completed
      BY <1>1, <2>1 DEF HeartbeatsAddUp
    <3> QED
      BY <1>1, <2>1, <2>2, <3>1 DEF HeartbeatsAddUp
  <2> QED
    BY <2>2, <2>3, <2>4 DEF TypeOK
<1> QED
  BY <1>2, <1>3, <1>4

\* The initial states.
LEMMA InitWalk == Init => WalkInv
<1> SUFFICES ASSUME Init PROVE WalkInv
  OBVIOUS
<1>1. {clientHasEnded, serverHasEnded, stopped, startTimer, sweep} \subseteq BOOLEAN
  <2>1. clientHasEnded \in BOOLEAN
    BY DEF Init
  <2>2. startTimer \in BOOLEAN /\ serverHasEnded \in BOOLEAN
    BY DEF Init
  <2> QED
    BY <2>1, <2>2 DEF Init
<1>2. acts \in [AllSlots -> SlotType]
  <2>1. NoAction \in SlotType /\ [NoAction EXCEPT !.more = HasServer] \in SlotType
    BY BoundsAssumption DEF SlotType, NoAction
  <2> QED
    BY <2>1 DEF Init, AllSlots
<1>3. TypeOK
  BY <1>1, <1>2 DEF Init, TypeOK, AllSlots, StreamCounts, NoStreams, NoBytes
<1>4. HeartbeatsAddUp
  BY DEF Init, HeartbeatsAddUp, NoStreams
<1>5. SlotsInOrder
  BY SlotsAssumption DEF Init, SlotsInOrder, NoAction
<1>6. WalkAlive
  BY GraphAssumption DEF Init, WalkAlive
<1> QED
  BY <1>3, <1>4, <1>5, <1>6 DEF WalkInv, DriverInv

\* A step that leaves the slots alone, and after which an edge is to be followed or a
\* timer or a pause holds the walk.
LEMMA WalkStep ==
  ASSUME WalkInv, UNCHANGED <<stopped, startTimer, acts, sweep>>,
         UNCHANGED counts \/ CountCreated \/ CountCompleted,
         {clientHasEnded, serverHasEnded}' \subseteq BOOLEAN,
         startTime' \in Nat, now' \in Nat,
         agenda' \in Seq(EdgesToFollow),
         pauses' \in [Actions -> Nat], visited' \in [Actions -> Nat],
         NoDeadEnds /\ ~clientHasEnded' =>
           agenda' # <<>> \/ \E a \in Actions : pauses'[a] > 0 \/ visited'[a] > 0
  PROVE  WalkInv'
<1>1. TypeOK'
  BY CountKeeps DEF WalkInv, DriverInv, TypeOK, EdgesToFollow
<1>2. HeartbeatsAddUp'
  BY CountKeeps DEF WalkInv, DriverInv
<1>3. SlotsInOrder'
  BY DEF WalkInv, DriverInv, SlotsInOrder
<1>4. WalkAlive'
  BY DEF WalkAlive, NoDeadEnds
<1> QED
  BY <1>1, <1>2, <1>3, <1>4 DEF WalkInv, DriverInv

\* A record of a slot.
LEMMA SlotFacts ==
  ASSUME WalkInv, NEW s \in AllSlots
  PROVE  /\ acts[s] \in SlotType
         /\ acts[s].open \in Nat /\ acts[s].stuck \in Nat /\ acts[s].stuck <= acts[s].open
         /\ s # Server /\ (acts[s].open > 0 \/ acts[s].more) => acts[s].action \in Actions
         /\ s # Server /\ acts[s].action \in Actions => acts[s].open > 0 \/ acts[s].more
<1>1. acts[s] \in SlotType /\ acts[s].stuck <= acts[s].open
  BY DEF WalkInv, DriverInv, TypeOK, SlotsInOrder, AllSlots
<1>2. acts[s].open \in Nat /\ acts[s].stuck \in Nat
  BY <1>1 DEF SlotType
<1>3. NoAction.open = 0 /\ ~NoAction.more /\ NoAction.action \notin Actions
  BY GraphAssumption DEF NoAction
<1>4. s # Server => \/ acts[s] = NoAction
                    \/ acts[s].action \in Actions /\ (acts[s].open > 0 \/ acts[s].more)
  BY DEF WalkInv, DriverInv, SlotsInOrder, AllSlots
<1> QED
  BY <1>1, <1>2, <1>3, <1>4

\* A step that changes one slot to r, which is in order, and does nothing to the walk but
\* take an edge that leads to the slot's action.
LEMMA SlotStep ==
  ASSUME WalkInv, NEW s \in AllSlots, NEW r \in SlotType,
         acts' = [acts EXCEPT ![s] = r], r.stuck <= r.open,
         s # Server => r.action \in Actions /\ (r.open > 0 \/ r.more),
         s = Server => agenda' = agenda,
         agenda' \in Seq(EdgesToFollow),
         UNCHANGED counts \/ CountCreated \/ CountCompleted,
         UNCHANGED <<clientHasEnded, serverHasEnded, stopped, startTimer, startTime, now,
                     pauses, visited, sweep>>
  PROVE  WalkInv'
<1>1. acts \in [AllSlots -> SlotType]
  BY DEF WalkInv, DriverInv, TypeOK, AllSlots
<1>2. acts' \in [AllSlots -> SlotType] /\ acts'[s] = r
      /\ \A x \in AllSlots \ {s} : acts'[x] = acts[x]
  BY <1>1
<1>3. TypeOK'
  BY <1>2, CountKeeps DEF WalkInv, DriverInv, TypeOK, EdgesToFollow, AllSlots
<1>4. HeartbeatsAddUp'
  BY CountKeeps DEF WalkInv, DriverInv
<1>5. SlotsInOrder'
  <2>1. Slots \subseteq AllSlots /\ Server \notin Slots
    BY SlotsAssumption DEF AllSlots
  <2>2. ASSUME NEW x \in Slots
        PROVE  \/ acts'[x] = NoAction
               \/ acts'[x].action \in Actions /\ (acts'[x].open > 0 \/ acts'[x].more)
    BY <1>2, <2>1 DEF WalkInv, DriverInv, SlotsInOrder
  <2>3. ASSUME NEW x \in AllSlots PROVE acts'[x].stuck <= acts'[x].open
    BY <1>2 DEF WalkInv, DriverInv, SlotsInOrder, AllSlots
  <2> QED
    BY <2>2, <2>3 DEF SlotsInOrder, AllSlots, NoAction
<1>6. WalkAlive'
  <2>1. CASE s = Server
    <3>1. \A x \in Slots : acts'[x] = acts[x]
      BY <1>2, <2>1, SlotsAssumption DEF AllSlots
    <3> QED
      BY <2>1, <3>1 DEF WalkInv, WalkAlive
  <2>2. CASE s # Server
    BY <1>2, <2>2, GraphAssumption DEF WalkAlive, AllSlots
  <2> QED
    BY <2>1, <2>2
<1> QED
  BY <1>3, <1>4, <1>5, <1>6 DEF WalkInv, DriverInv

\* A slot in its new state r, which ends if it has and will have no streams.
LEMMA UpdateKeeps ==
  ASSUME WalkInv, NEW s \in AllSlots, NEW r \in SlotType, Update(s, r),
         r.stuck <= r.open, s # Server => r.action \in Actions,
         UNCHANGED counts \/ CountCompleted,
         UNCHANGED <<clientHasEnded, serverHasEnded, stopped, startTimer, startTime, now,
                     pauses, visited, sweep>>
  PROVE  WalkInv'
<1>0. agenda \in Seq(EdgesToFollow) /\ clientHasEnded \in BOOLEAN
  BY DEF WalkInv, DriverInv, TypeOK, EdgesToFollow
<1>1. CASE ~(r.open = 0 /\ ~r.more /\ s # Server)
  <2>1. acts' = [acts EXCEPT ![s] = r] /\ agenda' = agenda
    BY <1>1 DEF Update
  <2>2. r.open \in Nat
    BY DEF SlotType
  <2>3. s # Server => r.action \in Actions /\ (r.open > 0 \/ r.more)
    BY <1>1, <2>2
  <2> QED
    BY <1>0, <2>1, <2>3, SlotStep
<1>2. CASE r.open = 0 /\ ~r.more /\ s # Server
  <2>1. /\ acts' = [acts EXCEPT ![s] = NoAction]
        /\ ContinueNextActions(r.action, clientHasEnded, agenda)
    BY <1>2 DEF Update
  <2>2. agenda' \in Seq(EdgesToFollow) /\ (NoDeadEnds /\ ~clientHasEnded => agenda' # <<>>)
    BY <1>0, <1>2, <2>1, ContinueKeeps
  <2>3. NoAction \in SlotType /\ NoAction.stuck <= NoAction.open
    BY DEF NoAction, SlotType
  <2>4. /\ acts' \in [AllSlots -> SlotType] /\ acts'[s] = NoAction
        /\ \A x \in AllSlots \ {s} : acts'[x] = acts[x]
    BY <2>1, <2>3 DEF WalkInv, DriverInv, TypeOK, AllSlots
  <2>5. TypeOK'
    BY <2>2, <2>4, CountKeeps DEF WalkInv, DriverInv, TypeOK, EdgesToFollow, AllSlots
  <2>6. HeartbeatsAddUp'
    BY CountKeeps DEF WalkInv, DriverInv
  <2>7. SlotsInOrder'
    BY <2>3, <2>4 DEF WalkInv, DriverInv, SlotsInOrder, AllSlots, NoAction
  <2>8. WalkAlive'
    BY <2>2 DEF WalkAlive, NoDeadEnds
  <2> QED
    BY <2>5, <2>6, <2>7, <2>8 DEF WalkInv, DriverInv
<1> QED
  BY <1>1, <1>2
-----------------------------------------------------------------------------
(* processAction.                                                           *)

\* An action that is passed at once: the walk goes on behind it.
LEMMA PassKeeps ==
  ASSUME WalkInv, agenda # <<>>,
         ContinueNextActions(Head(agenda).to, clientHasEnded, Tail(agenda)),
         UNCHANGED <<clientHasEnded, serverHasEnded, stopped, startTimer, startTime, now,
                     pauses, acts, counts, sweep>>,
         visited' \in [Actions -> Nat]
  PROVE  WalkInv'
<1>1. TypeOK /\ Head(agenda).to \in Actions /\ Tail(agenda) \in Seq(EdgesToFollow)
  BY HeadEdge DEF WalkInv, DriverInv
<1>2. clientHasEnded \in BOOLEAN
  BY <1>1 DEF TypeOK
<1>3. agenda' \in Seq(EdgesToFollow) /\ (NoDeadEnds /\ ~clientHasEnded => agenda' # <<>>)
  BY <1>1, <1>2, ContinueKeeps
<1> QED
  BY <1>1, <1>3, WalkStep DEF TypeOK

\* A start action on the way.
LEMMA ProcessStartKeeps == WalkInv /\ processStart => WalkInv'
<1> SUFFICES ASSUME WalkInv, processStart PROVE WalkInv'
  OBVIOUS
<1>1. visited' \in [Actions -> Nat]
  BY DEF processStart, WalkInv, DriverInv, TypeOK
<1> QED
  BY <1>1, PassKeeps DEF processStart, Arrived

\* A stream action takes a slot, or fails.
LEMMA InitiateStreamKeeps == WalkInv /\ initiateStream => WalkInv'
<1> SUFFICES ASSUME WalkInv, initiateStream PROVE WalkInv'
  OBVIOUS
<1> DEFINE a == Head(agenda).to
<1>0. /\ agenda # <<>>
      /\ UNCHANGED <<clientHasEnded, serverHasEnded, stopped, startTimer, startTime, now,
                     pauses, visited, sweep>>
  BY DEF initiateStream, Arrived
<1>1. a \in Actions /\ Tail(agenda) \in Seq(EdgesToFollow)
  BY <1>0, HeadEdge DEF WalkInv, DriverInv
<1>2. ASSUME NEW s \in Slots, acts[s] = NoAction, CountCreated, agenda' = Tail(agenda),
             acts' = [acts EXCEPT ![s] = [@ EXCEPT !.action = a, !.open = 1]]
      PROVE  WalkInv'
  <2> DEFINE r == [NoAction EXCEPT !.action = a, !.open = 1]
  <2>1. r \in SlotType /\ r.stuck <= r.open /\ r.action \in Actions /\ r.open > 0
    <3>1. NoAction \in SlotType /\ NoAction.open = 0 /\ NoAction.stuck = 0
      BY DEF SlotType, NoAction
    <3> HIDE DEF a
    <3>2. r \in SlotType /\ r.action = a /\ r.stuck = 0 /\ r.open = 1
      BY <1>1, <3>1 DEF SlotType
    <3> QED
      BY <1>1, <3>2
  <2>2. acts' = [acts EXCEPT ![s] = r]
    BY <1>2
  <2>3. s \in AllSlots /\ s # Server
    BY SlotsAssumption DEF AllSlots
  <2> HIDE DEF r
  <2> QED
    BY <1>0, <1>1, <1>2, <2>1, <2>2, <2>3, SlotStep
<1>3. ASSUME ContinueNextActions(a, clientHasEnded, Tail(agenda)), UNCHANGED <<acts, counts>>
      PROVE  WalkInv'
  BY <1>0, <1>3, PassKeeps DEF WalkInv, DriverInv, TypeOK
<1> QED
  BY <1>2, <1>3 DEF initiateStream

\* A flow action takes a slot, or fails.
LEMMA InitiateFlowKeeps == WalkInv /\ initiateFlow => WalkInv'
<1> SUFFICES ASSUME WalkInv, initiateFlow PROVE WalkInv'
  OBVIOUS
<1> DEFINE a == Head(agenda).to
<1>0. /\ agenda # <<>>
      /\ UNCHANGED <<clientHasEnded, serverHasEnded, stopped, startTimer, startTime, now,
                     pauses, visited, counts, sweep>>
  BY DEF initiateFlow, Arrived
<1>1. a \in Actions /\ Tail(agenda) \in Seq(EdgesToFollow)
  BY <1>0, HeadEdge DEF WalkInv, DriverInv
<1>2. ASSUME NEW s \in Slots, acts[s] = NoAction, agenda' = Tail(agenda),
             acts' = [acts EXCEPT ![s] = [@ EXCEPT !.action = a, !.more = TRUE]]
      PROVE  WalkInv'
  <2> DEFINE r == [NoAction EXCEPT !.action = a, !.more = TRUE]
  <2>1. r \in SlotType /\ r.stuck <= r.open /\ r.action \in Actions /\ r.more
    <3>1. NoAction \in SlotType /\ NoAction.open = 0 /\ NoAction.stuck = 0
      BY DEF SlotType, NoAction
    <3> HIDE DEF a
    <3>2. r \in SlotType /\ r.action = a /\ r.stuck = 0 /\ r.more = TRUE /\ r.open = 0
      BY <1>1, <3>1 DEF SlotType
    <3> QED
      BY <1>1, <3>2
  <2>2. acts' = [acts EXCEPT ![s] = r]
    BY <1>2
  <2>3. s \in AllSlots /\ s # Server
    BY SlotsAssumption DEF AllSlots
  <2> HIDE DEF r
  <2> QED
    BY <1>0, <1>1, <1>2, <2>1, <2>2, <2>3, SlotStep
<1>3. ASSUME ContinueNextActions(a, clientHasEnded, Tail(agenda)), UNCHANGED acts
      PROVE  WalkInv'
  BY <1>0, <1>3, PassKeeps DEF WalkInv, DriverInv, TypeOK
<1> QED
  BY <1>2, <1>3 DEF initiateFlow

\* A pause with times arms a timer, or is passed.
LEMMA InitiatePauseKeeps == WalkInv /\ initiatePause => WalkInv'
<1> SUFFICES ASSUME WalkInv, initiatePause PROVE WalkInv'
  OBVIOUS
<1> DEFINE a == Head(agenda).to
<1>0. /\ agenda # <<>>
      /\ UNCHANGED <<clientHasEnded, serverHasEnded, stopped, startTimer, startTime, now,
                     visited, acts, counts, sweep>>
  BY DEF initiatePause, Arrived
<1>1. TypeOK /\ a \in Actions /\ Tail(agenda) \in Seq(EdgesToFollow)
  BY <1>0, HeadEdge DEF WalkInv, DriverInv
<1>2. CASE ContinueNextActions(a, clientHasEnded, Tail(agenda)) /\ UNCHANGED pauses
  BY <1>0, <1>1, <1>2, PassKeeps DEF TypeOK
<1>3. CASE pauses' = [pauses EXCEPT ![a] = @ + 1] /\ agenda' = Tail(agenda)
  <2> HIDE DEF a
  <2>0. pauses \in [Actions -> Nat] /\ pauses[a] \in Nat
    BY <1>1 DEF TypeOK
  <2>1. pauses' \in [Actions -> Nat] /\ pauses'[a] > 0
    BY <1>1, <1>3, <2>0
  <2>2. \E x \in Actions : pauses'[x] > 0 \/ visited'[x] > 0
    BY <1>1, <2>1
  <2>3. /\ {clientHasEnded, serverHasEnded}' \subseteq BOOLEAN /\ startTime' \in Nat
        /\ now' \in Nat /\ pauses' \in [Actions -> Nat] /\ visited' \in [Actions -> Nat]
    BY <1>0, <1>1, <2>1 DEF TypeOK
  <2> QED
    BY <1>0, <1>1, <1>3, <2>2, <2>3, WalkStep
<1> QED
  BY <1>2, <1>3 DEF initiatePause

\* A pause without times counts a visit, or is passed.
LEMMA IncrementPauseVisitedKeeps == WalkInv /\ incrementPauseVisited => WalkInv'
<1> SUFFICES ASSUME WalkInv, incrementPauseVisited PROVE WalkInv'
  OBVIOUS
<1> DEFINE a == Head(agenda).to
<1>0. /\ agenda # <<>>
      /\ UNCHANGED <<clientHasEnded, serverHasEnded, stopped, startTimer, startTime, now,
                     pauses, acts, counts, sweep>>
  BY DEF incrementPauseVisited, Arrived
<1>1. TypeOK /\ a \in Actions /\ Tail(agenda) \in Seq(EdgesToFollow)
  BY <1>0, HeadEdge DEF WalkInv, DriverInv
<1>2. CASE /\ visited' = [visited EXCEPT ![a] = 0]
           /\ ContinueNextActions(a, clientHasEnded, Tail(agenda))
  <2>1. visited' \in [Actions -> Nat]
    BY <1>1, <1>2 DEF TypeOK
  <2> QED
    BY <1>0, <1>2, <2>1, PassKeeps
<1>3. CASE visited' = [visited EXCEPT ![a] = @ + 1] /\ agenda' = Tail(agenda)
  <2> HIDE DEF a
  <2>0. visited \in [Actions -> Nat] /\ visited[a] \in Nat
    BY <1>1 DEF TypeOK
  <2>1. visited' \in [Actions -> Nat] /\ visited'[a] > 0
    BY <1>1, <1>3, <2>0
  <2>2. \E x \in Actions : pauses'[x] > 0 \/ visited'[x] > 0
    BY <1>1, <2>1
  <2>3. /\ {clientHasEnded, serverHasEnded}' \subseteq BOOLEAN /\ startTime' \in Nat
        /\ now' \in Nat /\ pauses' \in [Actions -> Nat] /\ visited' \in [Actions -> Nat]
    BY <1>0, <1>1, <2>1 DEF TypeOK
  <2> QED
    BY <1>0, <1>1, <1>3, <2>2, <2>3, WalkStep
<1> QED
  BY <1>2, <1>3 DEF incrementPauseVisited

\* An end action ends the client and the server, or is passed.
LEMMA CheckEndConditionsKeeps == WalkInv /\ checkEndConditions => WalkInv'
<1> SUFFICES ASSUME WalkInv, checkEndConditions PROVE WalkInv'
  OBVIOUS
<1> DEFINE a == Head(agenda).to
<1>0. /\ agenda # <<>> /\ ContinueNextActions(a, clientHasEnded', Tail(agenda))
      /\ clientHasEnded' \in BOOLEAN /\ serverHasEnded' \in BOOLEAN
      /\ UNCHANGED <<stopped, startTimer, startTime, now, pauses, visited, acts, counts, sweep>>
  BY DEF checkEndConditions, Arrived
<1>1. TypeOK /\ a \in Actions /\ Tail(agenda) \in Seq(EdgesToFollow)
  BY <1>0, HeadEdge DEF WalkInv, DriverInv
<1>2. agenda' \in Seq(EdgesToFollow) /\ (NoDeadEnds /\ ~clientHasEnded' => agenda' # <<>>)
  BY <1>0, <1>1, ContinueKeeps
<1> QED
  BY <1>0, <1>1, <1>2, WalkStep DEF TypeOK
-----------------------------------------------------------------------------
(* Events.                                                                  *)

\* The client's timer starts the walk.
LEMMA StartTimerKeeps == WalkInv /\ onStartClientTimerExpired => WalkInv'
<1> SUFFICES ASSUME WalkInv, onStartClientTimerExpired PROVE WalkInv'
  OBVIOUS
<1>0. /\ startTimer' = FALSE /\ startTime' = now
      /\ ContinueNextActions(Start, clientHasEnded, <<>>)
      /\ UNCHANGED <<clientHasEnded, serverHasEnded, stopped, now, pauses, visited, acts,
                     counts, sweep>>
  BY DEF onStartClientTimerExpired
<1>1. TypeOK /\ Start \in Actions /\ <<>> \in Seq(EdgesToFollow) /\ clientHasEnded \in BOOLEAN
  BY GraphAssumption, EmptySeq DEF WalkInv, DriverInv, TypeOK
<1>2. agenda' \in Seq(EdgesToFollow) /\ (NoDeadEnds /\ ~clientHasEnded => agenda' # <<>>)
  BY <1>0, <1>1, ContinueKeeps
<1>3. TypeOK' /\ HeartbeatsAddUp'
  BY <1>0, <1>1, <1>2, CountKeeps DEF WalkInv, DriverInv, TypeOK, EdgesToFollow
<1>4. SlotsInOrder' /\ WalkAlive'
  BY <1>0, <1>2 DEF WalkInv, DriverInv, SlotsInOrder, WalkAlive, NoDeadEnds
<1> QED
  BY <1>3, <1>4 DEF WalkInv, DriverInv

\* The timer of a pause continues the walk.
LEMMA PauseTimerKeeps ==
  ASSUME WalkInv, NEW a \in Actions, onPauseTimerExpired(a)
  PROVE  WalkInv'
<1>0. /\ pauses[a] > 0 /\ pauses' = [pauses EXCEPT ![a] = @ - 1]
      /\ ContinueNextActions(a, clientHasEnded, <<>>)
      /\ UNCHANGED <<clientHasEnded, serverHasEnded, stopped, startTimer, startTime, now,
                     visited, acts, counts, sweep>>
  BY DEF onPauseTimerExpired
<1>1. TypeOK /\ <<>> \in Seq(EdgesToFollow) /\ clientHasEnded \in BOOLEAN
  BY EmptySeq DEF WalkInv, DriverInv, TypeOK
<1>2. agenda' \in Seq(EdgesToFollow) /\ (NoDeadEnds /\ ~clientHasEnded => agenda' # <<>>)
  BY <1>0, <1>1, ContinueKeeps
<1>3. pauses' \in [Actions -> Nat]
  BY <1>0, <1>1 DEF TypeOK
<1> QED
  BY <1>0, <1>1, <1>2, <1>3, WalkStep DEF TypeOK

\* A slot with other counts of streams.
LEMMA SlotRecords ==
  ASSUME NEW r \in SlotType
  PROVE  /\ \A n \in Nat : /\ [r EXCEPT !.open = n] \in SlotType
                           /\ [r EXCEPT !.open = n].action = r.action
                           /\ [r EXCEPT !.open = n].open = n
                           /\ [r EXCEPT !.open = n].stuck = r.stuck
         /\ \A k \in Nat : /\ [r EXCEPT !.stuck = k] \in SlotType
                           /\ [r EXCEPT !.stuck = k].action = r.action
                           /\ [r EXCEPT !.stuck = k].open = r.open
                           /\ [r EXCEPT !.stuck = k].stuck = k
         /\ r.open - 1 \in Nat /\ r.stuck - 1 \in Nat =>
              /\ [r EXCEPT !.open = @ - 1, !.stuck = @ - 1] \in SlotType
              /\ [r EXCEPT !.open = @ - 1, !.stuck = @ - 1].action = r.action
              /\ [r EXCEPT !.open = @ - 1, !.stuck = @ - 1].open = r.open - 1
              /\ [r EXCEPT !.open = @ - 1, !.stuck = @ - 1].stuck = r.stuck - 1
         /\ [r EXCEPT !.more = FALSE] \in SlotType
         /\ [r EXCEPT !.more = FALSE].action = r.action
         /\ [r EXCEPT !.more = FALSE].open = r.open
         /\ [r EXCEPT !.more = FALSE].stuck = r.stuck
BY DEF SlotType

\* A flow or a peer creates a stream.
LEMMA CreateKeeps ==
  ASSUME WalkInv, NEW s \in AllSlots, create(s)
  PROVE  WalkInv'
<1> DEFINE r == [acts[s] EXCEPT !.open = @ + 1]
<1>1. /\ acts[s].more /\ acts' = [acts EXCEPT ![s] = r] /\ CountCreated
      /\ UNCHANGED <<clientHasEnded, serverHasEnded, stopped, startTimer, startTime, now,
                     agenda, pauses, visited, sweep>>
  BY DEF create, walk, WalkInv, DriverInv, TypeOK, AllSlots
<1>2. /\ r \in SlotType /\ r.stuck <= r.open /\ r.open > 0
      /\ s # Server => r.action \in Actions
  <2>1. acts[s].open + 1 \in Nat /\ acts[s] \in SlotType
    BY SlotFacts
  <2>2. /\ r \in SlotType /\ r.action = acts[s].action
        /\ r.open = acts[s].open + 1 /\ r.stuck = acts[s].stuck
    BY <2>1, SlotRecords
  <2> HIDE DEF r
  <2> QED
    BY <1>1, <2>2, SlotFacts
<1>3. agenda' \in Seq(EdgesToFollow)
  BY <1>1 DEF WalkInv, DriverInv, TypeOK, EdgesToFollow
<1> HIDE DEF r
<1> QED
  BY <1>1, <1>2, <1>3, SlotStep

\* A stream stalls.
LEMMA StallKeeps ==
  ASSUME WalkInv, NEW s \in AllSlots, stall(s)
  PROVE  WalkInv'
<1> DEFINE r == [acts[s] EXCEPT !.stuck = @ + 1]
<1>1. /\ acts[s].open > acts[s].stuck /\ acts' = [acts EXCEPT ![s] = r] /\ UNCHANGED counts
      /\ UNCHANGED <<clientHasEnded, serverHasEnded, stopped, startTimer, startTime, now,
                     agenda, pauses, visited, sweep>>
  BY DEF stall, walk, WalkInv, DriverInv, TypeOK, AllSlots
<1>2. /\ r \in SlotType /\ r.stuck <= r.open /\ r.open > 0
      /\ s # Server => r.action \in Actions
  <2>1. acts[s].stuck + 1 \in Nat /\ acts[s] \in SlotType
    BY SlotFacts
  <2>2. /\ r \in SlotType /\ r.action = acts[s].action
        /\ r.open = acts[s].open /\ r.stuck = acts[s].stuck + 1
    BY <2>1, SlotRecords
  <2> HIDE DEF r
  <2> QED
    BY <1>1, <2>2, SlotFacts
<1>3. agenda' \in Seq(EdgesToFollow)
  BY <1>1 DEF WalkInv, DriverInv, TypeOK, EdgesToFollow
<1> HIDE DEF r
<1> QED
  BY <1>1, <1>2, <1>3, SlotStep

\* A flow ends its models, a stream completes, or the heartbeat gives up on a stream.
LEMMA EventKeeps ==
  ASSUME WalkInv, NEW s \in AllSlots, event(s)
  PROVE  WalkInv'
<1> DEFINE r1 == [acts[s] EXCEPT !.more = FALSE]
           r2 == [acts[s] EXCEPT !.open = @ - 1]
           r3 == [acts[s] EXCEPT !.open = @ - 1, !.stuck = @ - 1]
<1>0. UNCHANGED <<clientHasEnded, serverHasEnded, stopped, startTimer, startTime, now,
                  pauses, visited, sweep>>
  BY DEF event, complete, noMore, checkTimeout
<1>1. CASE noMore(s)
  <2>1. s # Server /\ acts[s].more /\ Update(s, r1) /\ UNCHANGED counts
    BY <1>1 DEF noMore
  <2>2. r1 \in SlotType /\ r1.stuck <= r1.open /\ r1.action \in Actions
    BY <2>1, SlotFacts, SlotRecords
  <2> HIDE DEF r1
  <2> QED
    BY <1>0, <2>1, <2>2, UpdateKeeps
<1>2. CASE complete(s)
  <2>1. acts[s].open > acts[s].stuck /\ Update(s, r2) /\ CountCompleted
    BY <1>2 DEF complete
  <2>2. r2 \in SlotType /\ r2.stuck <= r2.open /\ (s # Server => r2.action \in Actions)
    <3>1. acts[s].open - 1 \in Nat /\ acts[s] \in SlotType
      BY <2>1, SlotFacts
    <3>2. /\ r2 \in SlotType /\ r2.action = acts[s].action
          /\ r2.open = acts[s].open - 1 /\ r2.stuck = acts[s].stuck
      BY <3>1, SlotRecords
    <3> HIDE DEF r2
    <3> QED
      BY <2>1, <3>2, SlotFacts
  <2> HIDE DEF r2
  <2> QED
    BY <1>0, <2>1, <2>2, UpdateKeeps
<1>3. CASE checkTimeout(s)
  <2>1. acts[s].stuck > 0 /\ Update(s, r3) /\ CountCompleted
    BY <1>3 DEF checkTimeout
  <2>2. r3 \in SlotType /\ r3.stuck <= r3.open /\ (s # Server => r3.action \in Actions)
    <3>1. acts[s].open - 1 \in Nat /\ acts[s].stuck - 1 \in Nat /\ acts[s] \in SlotType
      BY <2>1, SlotFacts
    <3>2. /\ r3 \in SlotType /\ r3.action = acts[s].action
          /\ r3.open = acts[s].open - 1 /\ r3.stuck = acts[s].stuck - 1
      BY <3>1, SlotRecords
    <3> HIDE DEF r3
    <3> QED
      BY <2>1, <3>2, SlotFacts
  <2> HIDE DEF r3
  <2> QED
    BY <1>0, <2>1, <2>2, UpdateKeeps
<1> QED
  BY <1>1, <1>2, <1>3 DEF event

\* Bytes are counted.
LEMMA BytesKeep ==
  ASSUME WalkInv, NEW s \in AllSlots, onBytesTransferred(s)
  PROVE  WalkInv'
<1>1. PICK way \in {"sent", "received"} : bytes' = [bytes EXCEPT ![way] = @ + 1]
  BY DEF onBytesTransferred
<1>2. UNCHANGED <<clientHasEnded, serverHasEnded, stopped, startTimer, startTime, now, agenda,
                  pauses, visited, acts, total, beat, logged, sweep>>
  BY DEF onBytesTransferred, walk
<1>3. bytes' \in [sent : Nat, received : Nat]
  <2>1. bytes \in [sent : Nat, received : Nat]
    BY DEF WalkInv, DriverInv, TypeOK
  <2>2. CASE way = "sent"
    BY <1>1, <2>1, <2>2
  <2>3. CASE way = "received"
    BY <1>1, <2>1, <2>3
  <2> QED
    BY <2>2, <2>3
<1>4. TypeOK'
  BY <1>2, <1>3 DEF WalkInv, DriverInv, TypeOK
<1> QED
  BY <1>2, <1>4 DEF WalkInv, DriverInv, HeartbeatsAddUp, SlotsInOrder, WalkAlive

\* The heartbeat moves the counts of the beat to those that were logged.
LEMMA LogHeartbeatKeeps == WalkInv /\ logHeartbeat => WalkInv'
<1> SUFFICES ASSUME WalkInv, logHeartbeat PROVE WalkInv'
  OBVIOUS
<1>1. UNCHANGED <<clientHasEnded, serverHasEnded, stopped, startTimer, startTime, now, agenda,
                  pauses, visited, acts, total, bytes>>
  BY DEF logHeartbeat, walk
<1>2. /\ logged' = [created   |-> logged.created + beat.created,
                    completed |-> logged.completed + beat.completed]
      /\ beat' = NoStreams /\ sweep' = FALSE
  BY DEF logHeartbeat
<1>3. /\ total \in StreamCounts /\ beat \in StreamCounts /\ logged \in StreamCounts
      /\ \A c \in StreamCounts : c.created \in Nat /\ c.completed \in Nat
  BY DEF WalkInv, DriverInv, TypeOK, StreamCounts
<1>4. logged' \in StreamCounts /\ beat' \in StreamCounts
  BY <1>2, <1>3 DEF StreamCounts, NoStreams
<1>5. TypeOK'
  BY <1>1, <1>2, <1>3, <1>4 DEF WalkInv, DriverInv, TypeOK
<1>6. HeartbeatsAddUp'
  <2>1. /\ logged'.created = logged.created + beat.created
        /\ logged'.completed = logged.completed + beat.completed
        /\ beat'.created = 0 /\ beat'.completed = 0 /\ total' = total
    BY <1>1, <1>2 DEF NoStreams
  <2>2. /\ \A c \in {logged, beat} : c.created \in Nat /\ c.completed \in Nat
        /\ total.created = logged.created + beat.created
        /\ total.completed = logged.completed + beat.completed
    BY <1>3 DEF WalkInv, DriverInv, HeartbeatsAddUp
  <2> QED
    BY <2>1, <2>2 DEF HeartbeatsAddUp
<1> QED
  BY <1>1, <1>5, <1>6 DEF WalkInv, DriverInv, SlotsInOrder, WalkAlive

\* Steps that change neither the walk nor the slots nor the counts.
LEMMA OtherStepsKeep ==
  WalkInv /\ (onHeartbeat \/ tick \/ stop \/ UNCHANGED vars) => WalkInv'
<1> SUFFICES ASSUME WalkInv, onHeartbeat \/ tick \/ stop \/ UNCHANGED vars PROVE WalkInv'
  OBVIOUS
<1>1. UNCHANGED <<clientHasEnded, serverHasEnded, startTimer, startTime, agenda, pauses,
                  visited, acts, total, beat, logged, bytes>>
  BY DEF onHeartbeat, tick, stop, vars, walk, counts
<1>2. now' \in Nat /\ sweep' \in BOOLEAN /\ stopped' \in BOOLEAN
  <2>1. TypeOK
    BY DEF WalkInv, DriverInv
  <2>2. now \in Nat /\ sweep \in BOOLEAN /\ stopped \in BOOLEAN
    BY <2>1 DEF TypeOK
  <2>3. CASE onHeartbeat
    BY <2>2, <2>3 DEF onHeartbeat
  <2>4. CASE tick
    BY <2>2, <2>4 DEF tick
  <2>5. CASE stop
    BY <2>2, <2>5 DEF stop
  <2>6. CASE UNCHANGED vars
    BY <2>2, <2>6 DEF vars
  <2> QED
    BY <2>3, <2>4, <2>5, <2>6
<1>3. TypeOK'
  BY <1>1, <1>2 DEF WalkInv, DriverInv, TypeOK
<1> QED
  BY <1>1, <1>3 DEF WalkInv, DriverInv, HeartbeatsAddUp, SlotsInOrder, WalkAlive

\* Every step keeps the invariant.
LEMMA NextKeeps == WalkInv /\ [Next]_vars => WalkInv'
<1> SUFFICES ASSUME WalkInv, [Next]_vars PROVE WalkInv'
  OBVIOUS
<1>1. CASE processAction
  BY <1>1, ProcessStartKeeps, InitiateStreamKeeps, InitiateFlowKeeps, InitiatePauseKeeps,
     IncrementPauseVisitedKeeps, CheckEndConditionsKeeps DEF processAction
<1>2. CASE \E s \in Slots \cup {Server} :
             event(s) \/ create(s) \/ stall(s) \/ onBytesTransferred(s)
  BY <1>2, EventKeeps, CreateKeeps, StallKeeps, BytesKeep DEF AllSlots
<1>3. CASE onHeartbeat \/ tick \/ stop \/ over \/ UNCHANGED vars
  BY <1>3, OtherStepsKeep DEF over
<1> QED
  BY <1>1, <1>2, <1>3, StartTimerKeeps, PauseTimerKeeps, LogHeartbeatKeeps DEF Next
-----------------------------------------------------------------------------
(* The theorems.                                                            *)

\* The invariant with which both theorems are proved.
LEMMA WalkInvHolds == Spec => []WalkInv
<1>1. Init => WalkInv
  BY InitWalk
<1>2. WalkInv /\ [Next]_vars => WalkInv'
  BY NextKeeps
<1> QED
  BY <1>1, <1>2, PTL DEF Spec

\* For every action graph, with any number of actions under way: the driver's variables
\* have their types, every stream that was created or completed is in exactly one
\* heartbeat, and an action is under way as long as it has streams, or may have.
THEOREM DriverInOrder == Spec => []DriverInv
<1>1. WalkInv => DriverInv
  BY DEF WalkInv
<1> QED
  BY <1>1, WalkInvHolds, PTL

\* For every action graph without dead ends, the walk of tgen-driver.c is never lost: until
\* the client has ended, an edge is to be followed, an action is under way, a timer is
\* armed, or a pause waits for more visits.
THEOREM WalkNeverLost == Spec => []WalkAlive
<1>1. WalkInv => WalkAlive
  BY DEF WalkInv
<1> QED
  BY <1>1, WalkInvHolds, PTL
=============================================================================
