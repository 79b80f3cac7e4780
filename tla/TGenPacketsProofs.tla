-------------------------- MODULE TGenPacketsProofs --------------------------
(***************************************************************************)
(* Proofs about TGenPackets, and about the walks over a Markov model that  *)
(* it is built from: for every model, every packet size, every limit of    *)
(* the write buffer and all sizes.                                         *)
(***************************************************************************)
EXTENDS TGenPackets, TGenInduction

-----------------------------------------------------------------------------
(* Numbers and sets.                                                       *)

\* The smaller of two numbers.
LEMMA MinPair ==
  ASSUME NEW a \in Int, NEW b \in Int
  PROVE  /\ Min({a, b}) \in {a, b} /\ Min({a, b}) <= a /\ Min({a, b}) <= b
<1>1. \E x \in {a, b} : \A y \in {a, b} : x <= y
  OBVIOUS
<1> QED
  BY <1>1 DEF Min

\* The larger of two numbers.
LEMMA MaxPair ==
  ASSUME NEW a \in Int, NEW b \in Int
  PROVE  /\ Max({a, b}) \in {a, b} /\ Max({a, b}) >= a /\ Max({a, b}) >= b
<1>1. \E x \in {a, b} : \A y \in {a, b} : x >= y
  OBVIOUS
<1> QED
  BY <1>1 DEF Max

\* A set of indices that is not empty has a largest one.
LEMMA LastIndex ==
  ASSUME NEW n \in Nat, NEW S \in SUBSET (1 .. n), S # {}
  PROVE  Max(S) \in S
<1> DEFINE Has(k) == \A T \in SUBSET (1 .. k) : T # {} => \E x \in T : \A y \in T : x >= y
           P == {k \in Nat : Has(k)}
<1>1. 0 \in P
  <2>1. 1 .. 0 = {}
    OBVIOUS
  <2>2. Has(0)
    BY <2>1
  <2> QED
    BY <2>2
<1>2. ASSUME NEW k \in Nat, k \in P PROVE k + 1 \in P
  <2>1. Has(k)
    BY <1>2
  <2>2. ASSUME NEW T \in SUBSET (1 .. k + 1), T # {} PROVE \E x \in T : \A y \in T : x >= y
    <3>1. CASE k + 1 \in T
      <4>1. \A y \in T : k + 1 >= y
        BY <2>2
      <4> QED
        BY <3>1, <4>1
    <3>2. CASE k + 1 \notin T
      <4>1. T \in SUBSET (1 .. k)
        BY <2>2, <3>2
      <4> QED
        BY <2>1, <2>2, <4>1
    <3> QED
      BY <3>1, <3>2
  <2> QED
    BY <2>2
<1> HIDE DEF P
<1>3. n \in P
  BY <1>1, <1>2, NatInductionSet
<1>4. \E x \in S : \A y \in S : x >= y
  BY <1>3 DEF P
<1> QED
  BY <1>4 DEF Max

\* What is in a sequence.
LEMMA Element ==
  ASSUME NEW S, NEW s \in Seq(S)
  PROVE  \A i \in DOMAIN s : s[i] \in S
OBVIOUS

-----------------------------------------------------------------------------
(* What a Markov model generates.                                          *)

Position(g) == [state : DOMAIN g.vertices, ended : BOOLEAN]

Draw(g) == [obs : {"TO_SERVER", "TO_ORIGIN", "END"}, delay : 0 .. 2, walk : Position(g)]

EdgeOf(g) ==
  [from : DOMAIN g.vertices, to : DOMAIN g.vertices, type : EdgeTypes,
   weight : (Doubles \ {-2, 3}) \cup {NaN}, dist : Dists,
   a : Doubles \cup {NaN}, b : Doubles \cup {NaN}]

\* The indices of a graph's vertices and edges.
LEMMA GraphIndices ==
  ASSUME NEW g, IsGraph(g)
  PROVE  /\ g.vertices \in Seq([name : Names, type : VertexTypes])
         /\ DOMAIN g.vertices = 1 .. Len(g.vertices) /\ Len(g.vertices) \in Nat
         /\ \A i \in DOMAIN g.edges : g.edges[i] \in EdgeOf(g)
         /\ \A i \in DOMAIN g.vertices : g.vertices[i] \in [name : Names, type : VertexTypes]
<1>1. g.vertices \in Seq([name : Names, type : VertexTypes]) /\ g.edges \in Seq(EdgeOf(g))
  BY DEF IsGraph, EdgeOf
<1> HIDE DEF EdgeOf
<1>2. \A i \in DOMAIN g.edges : g.edges[i] \in EdgeOf(g)
  BY <1>1
<1>3. \A i \in DOMAIN g.vertices : g.vertices[i] \in [name : Names, type : VertexTypes]
  BY <1>1, Element, Zenon
<1>4. DOMAIN g.vertices = 1 .. Len(g.vertices) /\ Len(g.vertices) \in Nat
  BY <1>1
<1> QED
  BY <1>1, <1>2, <1>3, <1>4

\* The walk over a valid model starts at one of its vertices.
LEMMA StartVertex ==
  ASSUME NEW g, IsGraph(g), Valid(g)
  PROVE  startVertexIndex(g) \in DOMAIN g.vertices
<1>1. PICK n \in Nat : n = Len(g.vertices) /\ DOMAIN g.vertices = 1 .. n
  BY GraphIndices
<1>2. Starts(g) \in SUBSET (1 .. n) /\ Starts(g) # {}
  BY <1>1 DEF Starts, Valid, validateVertices
<1>3. Max(Starts(g)) \in Starts(g)
  BY <1>2, LastIndex
<1> QED
  BY <1>1, <1>2, <1>3 DEF startVertexIndex

\* The values that the distributions of a valid edge generate are numbers, or not a number
\* in the two cases that validation does not exclude.
NaNEdge(e) ==
  \/ e.dist \in {"normal", "lognormal"} /\ e.a = PlusInf /\ e.b = PlusInf
  \/ e.dist = "pareto" /\ e.a = 0 /\ e.b = 1

\* A normal or lognormal draw is a number, unless both parameters are infinite.
LEMMA NormalGenerates ==
  ASSUME NEW a \in 0 .. 3, NEW b \in 0 .. 3, NEW v \in NormalValues(a, b)
  PROVE  v \in Doubles \/ (v = NaN /\ a = PlusInf /\ b = PlusInf)
BY DEF NormalValues, Doubles, PlusInf, MinusInf

\* A Pareto draw is a number, unless its scale is 0 and its shape lets the power underflow.
LEMMA ParetoGenerates ==
  ASSUME NEW a \in 0 .. 3, NEW b \in 1 .. 3, NEW v \in ParetoValues(a, b)
  PROVE  v \in Doubles \/ (v = NaN /\ a = 0 /\ b = 1)
BY DEF ParetoValues, Doubles, PlusInf

\* The exponential of a number is a number.
LEMMA ExpGenerates ==
  ASSUME NEW x \in Doubles, NEW v \in ExpValues(x)
  PROVE  v \in Doubles
BY NaNAssumption DEF ExpValues, Doubles, PlusInf, MinusInf

\* What is generated on an edge that passed validation.
LEMMA Generates ==
  ASSUME NEW e, e.dist \in Dists, e.a \in Doubles \cup {NaN}, e.b \in Doubles \cup {NaN},
         checkParams(e)
  PROVE  /\ DelayAsserts(e)
         /\ \A v \in GeneratedValues(e) : v \in Doubles \/ (v = NaN /\ NaNEdge(e))
<1>1. CASE e.dist \in {"normal", "lognormal"}
  <2>1. e.a \in 0 .. 3 /\ e.b \in 0 .. 3
    BY <1>1 DEF checkParams, NonNegative, Exists, Doubles
  <2>2. DelayAsserts(e)
    BY <1>1 DEF checkParams, DelayAsserts
  <2>3. CASE e.dist = "normal"
    <3>1. GeneratedValues(e) = NormalValues(e.a, e.b)
      BY <2>3 DEF GeneratedValues
    <3> QED
      BY <2>1, <2>2, <2>3, <3>1, NormalGenerates DEF NaNEdge
  <2>4. CASE e.dist = "lognormal"
    <3>1. GeneratedValues(e) = UNION {ExpValues(x) : x \in NormalValues(e.a, e.b)}
      BY <2>4 DEF GeneratedValues
    <3>2. ASSUME NEW v \in GeneratedValues(e) PROVE v \in Doubles \/ (v = NaN /\ NaNEdge(e))
      <4>1. PICK x \in NormalValues(e.a, e.b) : v \in ExpValues(x)
        BY <3>1, <3>2
      <4>2. CASE x \in Doubles
        BY <4>1, <4>2, ExpGenerates
      <4>3. CASE x = NaN /\ e.a = PlusInf /\ e.b = PlusInf
        <5>1. v = NaN
          BY <4>1, <4>3, NaNAssumption DEF ExpValues, Doubles, PlusInf, MinusInf
        <5> QED
          BY <2>4, <4>3, <5>1 DEF NaNEdge
      <4> QED
        BY <2>1, <4>2, <4>3, NormalGenerates
    <3> QED
      BY <2>2, <3>2
  <2> QED
    BY <1>1, <2>3, <2>4
<1>2. CASE e.dist = "exponential"
  <2>1. e.a \in 1 .. 3
    BY <1>2 DEF checkParams, Positive, Exists, Doubles
  <2>2. DelayAsserts(e)
    BY <1>2 DEF checkParams, DelayAsserts
  <2>3. GeneratedValues(e) = 0 .. (PlusInf - e.a)
    BY <1>2 DEF GeneratedValues
  <2> QED
    BY <2>1, <2>2, <2>3 DEF Doubles, PlusInf
<1>3. CASE e.dist = "pareto"
  <2>1. e.a \in 0 .. 3 /\ e.b \in 1 .. 3
    BY <1>3 DEF checkParams, NonNegative, Positive, Exists, Doubles
  <2>2. DelayAsserts(e)
    BY <1>3 DEF checkParams, DelayAsserts
  <2>3. GeneratedValues(e) = ParetoValues(e.a, e.b)
    BY <1>3 DEF GeneratedValues
  <2> QED
    BY <1>3, <2>1, <2>2, <2>3, ParetoGenerates DEF NaNEdge
<1>4. CASE e.dist = "uniform"
  <2>1. e.a \in -1 .. 2 /\ e.b \in -1 .. 2 /\ e.a <= e.b /\ e.a # NaN /\ e.b # NaN
    BY <1>4 DEF checkParams, Finite, Exists, Doubles, PlusInf, MinusInf
  <2>2. DelayAsserts(e)
    BY <1>4, <2>1 DEF DelayAsserts, Exists, PlusInf, MinusInf
  <2>3. GeneratedValues(e) = e.a .. e.b
    BY <1>4 DEF GeneratedValues
  <2> QED
    BY <2>1, <2>2, <2>3 DEF Doubles
<1>5. CASE e.dist \in {"other", "none"}
  BY <1>5 DEF checkParams
<1> QED
  BY <1>1, <1>2, <1>3, <1>4, <1>5 DEF Dists

\* A delay is rounded and clamped to a number, unless there is none.
LEMMA DelayBounds ==
  ASSUME NEW e, e.dist \in Dists, e.a \in Doubles \cup {NaN}, e.b \in Doubles \cup {NaN},
         checkParams(e), NEW d \in Delays(e)
  PROVE  d \in 0 .. 2 \/ (d = NaN /\ NaNEdge(e))
<1>1. PICK v \in GeneratedValues(e) : d = IF v = NaN THEN NaN ELSE Max({0, Min({v, 2})})
  BY Generates DEF Delays
<1>2. CASE v = NaN
  <2>1. v \notin Doubles
    BY <1>2, NaNAssumption
  <2> QED
    BY <1>1, <1>2, <2>1, Generates
<1>3. CASE v # NaN
  <2>1. v \in Int
    BY <1>3, Generates DEF Doubles
  <2>2. PICK m : m = Min({v, 2})
    OBVIOUS
  <2>3. m \in Int /\ m <= 2
    <3>1. 2 \in Int
      OBVIOUS
    <3>2. Min({v, 2}) \in {v, 2} /\ Min({v, 2}) <= 2
      BY <2>1, <3>1, MinPair, Zenon
    <3> QED
      BY <2>1, <2>2, <3>2
  <2>4. d = Max({0, m}) /\ d \in {0, m} /\ d >= 0
    BY <1>1, <1>3, <2>2, <2>3, MaxPair
  <2> QED
    BY <2>3, <2>4
<1> QED
  BY <1>2, <1>3

\* An edge is chosen among those that leave a state with the wanted type.
LEMMA ChosenEdge ==
  ASSUME NEW g, NEW v, NEW type, NEW i \in chooseEdge(g, v, type)
  PROVE  i \in DOMAIN g.edges /\ g.edges[i].type = type
<1>1. i \in Incident(g, v, type)
  BY Zenon DEF chooseEdge
<1> QED
  BY <1>1 DEF Incident

\* What is wrong with a valid model on which an assertion fails.
Tripping(g) ==
  \E i \in DOMAIN g.edges :
    g.edges[i].type = "emission"
      /\ (g.vertices[g.edges[i].to].type # "observation" \/ NaNEdge(g.edges[i]))

\* An END without an end state is an observation.
LEMMA PrematureDraw ==
  ASSUME NEW g, NEW w \in Position(g), NEW o, o = Premature(w)
  PROVE  o \in Draw(g) /\ o.obs = "END" /\ o.walk = w
BY DEF Premature, Outcome, Draw

\* An emission is an observation, unless an assertion fails.
LEMMA EmissionDraw ==
  ASSUME NEW g, IsGraph(g), Valid(g), NEW s \in DOMAIN g.vertices,
         NEW i \in chooseEdge(g, s, "emission"), NEW o \in EmissionOutcomes(g, s, i)
  PROVE  \/ o \in Draw(g) /\ (o.walk.ended => o.obs = "END")
         \/ o.obs = "ABORT" /\ Tripping(g)
<1>1. i \in DOMAIN g.edges /\ g.edges[i].type = "emission"
  BY ChosenEdge
<1>2. PICK e : e = g.edges[i]
  OBVIOUS
<1>3. /\ e.dist \in Dists /\ e.a \in Doubles \cup {NaN} /\ e.b \in Doubles \cup {NaN}
      /\ e.to \in DOMAIN g.vertices
  <2>1. e \in EdgeOf(g)
    BY <1>1, <1>2, GraphIndices
  <2> QED
    BY <2>1 DEF EdgeOf
<1>4. checkParams(e)
  <2>1. checkEdgeAttributes(g, e)
    BY <1>1, <1>2 DEF Valid, validateEdges
  <2> QED
    BY <1>1, <1>2, <2>1 DEF checkEdgeAttributes
<1>5. PICK obs : obs = Observation(g.vertices[e.to].name)
  OBVIOUS
<1>6. obs \in {"TO_SERVER", "TO_ORIGIN", "END"}
  BY <1>5 DEF Observation
<1>7. PICK d \in Delays(e) :
        o = IF g.vertices[e.to].type # "observation" \/ d = NaN
            THEN Outcome("ABORT", 0, [state |-> s, ended |-> FALSE])
            ELSE Outcome(obs, d, [state |-> s, ended |-> obs = "END"])
  BY <1>2, <1>5 DEF EmissionOutcomes
<1>8. d \in 0 .. 2 \/ (d = NaN /\ NaNEdge(e))
  BY <1>3, <1>4, DelayBounds
<1>9. CASE g.vertices[e.to].type # "observation" \/ d = NaN
  <2>1. o.obs = "ABORT"
    BY <1>7, <1>9 DEF Outcome
  <2>2. d \in 0 .. 2 => d # NaN
    BY NaNAssumption DEF Doubles
  <2>3. g.vertices[g.edges[i].to].type # "observation" \/ NaNEdge(g.edges[i])
    BY <1>2, <1>8, <1>9, <2>2
  <2> QED
    BY <1>1, <2>1, <2>3 DEF Tripping
<1>10. CASE ~(g.vertices[e.to].type # "observation" \/ d = NaN)
  <2>1. PICK w : w = [state |-> s, ended |-> obs = "END"]
    OBVIOUS
  <2>2. w \in Position(g) /\ (w.ended => obs = "END")
    BY <2>1 DEF Position
  <2>3. o = [obs |-> obs, delay |-> d, walk |-> w] /\ d \in 0 .. 2
    BY <1>7, <1>8, <1>10, <2>1 DEF Outcome
  <2> QED
    BY <1>6, <2>2, <2>3 DEF Draw
<1> QED
  BY <1>9, <1>10

\* Every call of getNextObservation on a valid model returns an observation, and leaves the
\* walk at a vertex, unless an assertion fails.
LEMMA NextDraw ==
  ASSUME NEW g, IsGraph(g), Valid(g), NEW w \in Position(g), NEW o \in getNextObservation(g, w)
  PROVE  \/ o \in Draw(g) /\ (o.walk.ended => o.obs = "END")
         \/ o.obs = "ABORT" /\ Tripping(g)
<1>1. CASE w.ended \/ chooseEdge(g, w.state, "transition") = {}
  <2>1. o = Premature(w)
    BY <1>1 DEF getNextObservation
  <2> QED
    BY <2>1, PrematureDraw
<1>2. CASE ~(w.ended \/ chooseEdge(g, w.state, "transition") = {})
  <2>1. PICK t \in chooseEdge(g, w.state, "transition") :
          LET s == g.edges[t].to
              emissions == chooseEdge(g, s, "emission")
          IN o \in IF emissions = {} THEN {Premature([w EXCEPT !.state = s])}
                   ELSE UNION {EmissionOutcomes(g, s, i) : i \in emissions}
    BY <1>2, Zenon DEF getNextObservation
  <2>2. PICK s : s = g.edges[t].to
    OBVIOUS
  <2>3. s \in DOMAIN g.vertices
    <3>1. t \in DOMAIN g.edges
      BY ChosenEdge
    <3> QED
      BY <2>2, <3>1, GraphIndices DEF EdgeOf
  <2>4. CASE chooseEdge(g, s, "emission") = {}
    <3>1. PICK u : u = [w EXCEPT !.state = s]
      OBVIOUS
    <3>2. u \in Position(g)
      BY <2>3, <3>1 DEF Position
    <3>3. o = Premature(u)
      BY <2>1, <2>2, <2>4, <3>1
    <3> QED
      BY <3>2, <3>3, PrematureDraw
  <2>5. CASE chooseEdge(g, s, "emission") # {}
    <3>1. PICK i \in chooseEdge(g, s, "emission") : o \in EmissionOutcomes(g, s, i)
      BY <2>1, <2>2, <2>5
    <3> QED
      BY <2>3, <3>1, EmissionDraw
  <2> QED
    BY <2>4, <2>5
<1> QED
  BY <1>1, <1>2

-----------------------------------------------------------------------------
(* Counting packets on a tape.                                             *)

Packets(t, dir, n) == Cardinality({i \in 1 .. n : t[i].obs = dir})

\* The packets that the first n observations announce are a number.
LEMMA PacketsNat ==
  ASSUME NEW t, NEW dir, NEW n \in Nat
  PROVE  /\ Packets(t, dir, n) \in Nat
         /\ IsFiniteSet({i \in 1 .. n : t[i].obs = dir})
<1>1. IsFiniteSet(1 .. n)
  BY FS_Interval
<1>2. {i \in 1 .. n : t[i].obs = dir} \subseteq 1 .. n
  OBVIOUS
<1>3. IsFiniteSet({i \in 1 .. n : t[i].obs = dir})
  BY <1>1, <1>2, FS_Subset
<1> QED
  BY <1>3, FS_CardinalityType DEF Packets

\* One more observation.
LEMMA PacketsNext ==
  ASSUME NEW t, NEW dir, NEW n \in Nat
  PROVE  Packets(t, dir, n + 1) = Packets(t, dir, n) + (IF t[n + 1].obs = dir THEN 1 ELSE 0)
<1> DEFINE S == {i \in 1 .. n : t[i].obs = dir}
           T == {i \in 1 .. n + 1 : t[i].obs = dir}
<1>0. Packets(t, dir, n) = Cardinality(S) /\ Packets(t, dir, n + 1) = Cardinality(T)
  BY DEF Packets
<1>1. IsFiniteSet(S) /\ Cardinality(S) \in Nat
  BY PacketsNat DEF Packets
<1>2. CASE t[n + 1].obs = dir
  <2>1. T = S \cup {n + 1} /\ n + 1 \notin S
    BY <1>2
  <2>2. Cardinality(T) = Cardinality(S) + 1
    BY <1>1, <2>1, FS_AddElement
  <2> QED
    BY <1>0, <1>2, <2>2
<1>3. CASE t[n + 1].obs # dir
  <2>1. T = S
    BY <1>3
  <2> HIDE DEF S, T
  <2> QED
    BY <1>0, <1>1, <1>3, <2>1
<1> QED
  BY <1>2, <1>3

\* More observations do not announce fewer packets.
LEMMA PacketsMonotone ==
  ASSUME NEW t, NEW dir, NEW n \in Nat, NEW m \in 0 .. n
  PROVE  Packets(t, dir, m) <= Packets(t, dir, n)
<1>1. {i \in 1 .. m : t[i].obs = dir} \subseteq {i \in 1 .. n : t[i].obs = dir}
  OBVIOUS
<1>2. IsFiniteSet({i \in 1 .. n : t[i].obs = dir})
  BY PacketsNat
<1> QED
  BY <1>1, <1>2, FS_Subset DEF Packets

\* Equal observations announce equally many packets.
LEMMA PacketsEqual ==
  ASSUME NEW t, NEW u, NEW dir, NEW n \in Nat, \A i \in 1 .. n : t[i] = u[i]
  PROVE  Packets(t, dir, n) = Packets(u, dir, n)
<1>1. {i \in 1 .. n : t[i].obs = dir} = {i \in 1 .. n : u[i].obs = dir}
  OBVIOUS
<1> QED
  BY <1>1 DEF Packets

\* A packet more is PacketSize bytes more.
LEMMA Times ==
  ASSUME NEW p \in Nat, NEW k \in Nat, NEW n \in Nat, k <= n
  PROVE  p * k \in Nat /\ p * (k + 1) = p * k + p /\ p * k <= p * n
<1>1. PICK d \in Nat : n = k + d
  <2>1. n - k \in Nat /\ n = k + (n - k)
    OBVIOUS
  <2> QED
    BY <2>1
<1>2. p * k \in Nat /\ p * d \in Nat
  OBVIOUS
<1>3. p * (k + d) = p * k + p * d
  OBVIOUS
<1>4. p * (k + 1) = p * k + p
  OBVIOUS
<1> QED
  BY <1>1, <1>2, <1>3, <1>4

\* The two ends.
LEMMA TwoEnds ==
  ASSUME NEW e \in Ends
  PROVE  /\ Peer(e) \in Ends /\ Peer(e) # e /\ Peer(Peer(e)) = e
         /\ \A x \in Ends : x # e => x = Peer(e)
         /\ Own(e) # "END" /\ Own(e) # Own(Peer(e))
BY DEF Ends, Peer, Own

WalkType ==
  [state : 0 .. Len(graph.vertices), ended : BOOLEAN, first : BOOLEAN, pos : 0 .. Len(tape)]

LoopType == [on : BOOLEAN, limit : 0 .. WriteMax, size : Nat, delay : Nat]

\* The types of one end's counters.
LEMMA EndTypes ==
  ASSUME TypeOK, NEW x \in Ends
  PROVE  /\ walk[x] \in WalkType /\ loop[x] \in LoopType
         /\ walk[x].pos \in 0 .. Len(tape) /\ walk[x].ended \in BOOLEAN
         /\ walk[x].first \in BOOLEAN
         /\ loop[x].on \in BOOLEAN /\ loop[x].limit \in 0 .. WriteMax
         /\ loop[x].size \in Nat /\ loop[x].delay \in Nat
         /\ sent[x] \in Nat /\ got[x] \in Nat
         /\ expected[x] \in 0 .. MaxExpected /\ expected[x] \in Nat
         /\ want[x].bytes \in Nat /\ want[x].zero \in BOOLEAN
<1>1. walk[x] \in WalkType
  BY DEF TypeOK, WalkType
<1>2. walk[x].pos \in 0 .. Len(tape) /\ walk[x].ended \in BOOLEAN /\ walk[x].first \in BOOLEAN
  BY <1>1 DEF WalkType
<1>3. loop[x] \in LoopType
  BY DEF TypeOK, LoopType
<1>4. /\ loop[x].on \in BOOLEAN /\ loop[x].limit \in 0 .. WriteMax
      /\ loop[x].size \in Nat /\ loop[x].delay \in Nat
  BY <1>3 DEF LoopType
<1>5. /\ sent[x] \in Nat /\ got[x] \in Nat
      /\ expected[x] \in 0 .. MaxExpected /\ expected[x] \in Nat
  BY PacketsAssumption DEF TypeOK
<1>6. want[x].bytes \in Nat /\ want[x].zero \in BOOLEAN
  BY DEF TypeOK
<1> QED
  BY <1>1, <1>2, <1>3, <1>4, <1>5, <1>6

\* What a loop without sizes is at the end of: the tape that both ends have.
LEMMA Sums ==
  TypeOK /\ WalksInOrder /\ (\A x \in Ends : SendingInOrder(x)) /\ WalkedTogether /\ Unsized
    => \A e \in Ends : payload[e] =>
         /\ walk[e].pos = Len(tape)
         /\ expected[e] \in Nat /\ sent[Peer(e)] <= expected[e]
         /\ payload[Peer(e)] => sent[Peer(e)] = expected[e]
<1> SUFFICES ASSUME TypeOK, WalksInOrder, \A x \in Ends : SendingInOrder(x),
                    WalkedTogether, Unsized, NEW e \in Ends, payload[e]
             PROVE  /\ walk[e].pos = Len(tape)
                    /\ expected[e] \in Nat /\ sent[Peer(e)] <= expected[e]
                    /\ payload[Peer(e)] => sent[Peer(e)] = expected[e]
  OBVIOUS
<1>1. Len(tape) \in Nat /\ DOMAIN tape = 1 .. Len(tape)
  BY DEF WalksInOrder
<1>2. ASSUME NEW x \in Ends
      PROVE  /\ walk[x].pos \in 0 .. Len(tape) /\ sent[x] \in Nat /\ loop[x].size \in Nat
             /\ expected[x] \in Nat /\ want[x].bytes \in Nat
  BY EndTypes
<1>3. ASSUME NEW x \in Ends, payload[x]
      PROVE  walk[x].pos = Len(tape) /\ loop[x].size = 0
  <2>1. doneSending(x) /\ ~loop[x].on /\ loop[x].size = 0
    BY <1>3 DEF SendingInOrder
  <2>2. ~Sized(x)
    BY DEF Unsized
  <2>3. walk[x].ended
    BY <1>2, <2>1, <2>2 DEF Sized, IsSized, doneSending
  <2>4. walk[x].pos # 0 /\ Here(x) = tape[walk[x].pos].walk
    BY <2>3 DEF WalkedTogether
  <2>5. tape[walk[x].pos].walk.ended
    BY <2>3, <2>4 DEF Here
  <2>6. walk[x].pos \in DOMAIN tape
    BY <1>1, <1>2, <2>4
  <2> QED
    BY <2>1, <2>5, <2>6 DEF WalkedTogether
<1> DEFINE p == Peer(e)
<1>4. p \in Ends /\ Peer(p) = e
  BY TwoEnds
<1> HIDE DEF p
<1>5. /\ expected[e] = PacketSize * Packets(tape, Own(p), Len(tape))
      /\ sent[p] + loop[p].size = PacketSize * Packets(tape, Own(p), walk[p].pos)
  BY <1>3, <1>4 DEF p, WalkedTogether, Emitted, Packets
<1>6. PICK k, n : k = Packets(tape, Own(p), walk[p].pos) /\ n = Packets(tape, Own(p), Len(tape))
  OBVIOUS
<1>7. k \in Nat /\ n \in Nat /\ k <= n
  <2>1. walk[p].pos \in 0 .. Len(tape) /\ walk[p].pos \in Nat
    BY <1>1, <1>2, <1>4
  <2> QED
    BY <1>1, <1>6, <2>1, PacketsNat, PacketsMonotone
<1>8. PacketSize * k <= PacketSize * n /\ PacketSize * k \in Nat /\ PacketSize * n \in Nat
  BY <1>7, Times, PacketsAssumption
<1>9. sent[p] <= expected[e]
  <2>1. sent[p] \in Nat /\ loop[p].size \in Nat
    BY <1>2, <1>4
  <2> QED
    BY <1>5, <1>6, <1>8, <2>1
<1>10. ASSUME payload[p] PROVE sent[p] = expected[e]
  <2>1. walk[p].pos = Len(tape) /\ loop[p].size = 0 /\ sent[p] \in Nat
    BY <1>2, <1>3, <1>4, <1>10
  <2> QED
    BY <1>5, <2>1
<1> QED
  BY <1>2, <1>3, <1>9, <1>10 DEF p

\* The same in the next state.
LEMMA SumsNext ==
  (TypeOK /\ WalksInOrder /\ (\A x \in Ends : SendingInOrder(x)) /\ WalkedTogether /\ Unsized)'
    => (\A e \in Ends : payload[e] =>
          /\ walk[e].pos = Len(tape)
          /\ expected[e] \in Nat /\ sent[Peer(e)] <= expected[e]
          /\ payload[Peer(e)] => sent[Peer(e)] = expected[e])'
BY Sums, PTL

-----------------------------------------------------------------------------
(* The initial states.                                                     *)

\* The sizes that the options of an action stand for.
LEMMA NewSizesType ==
  ASSUME NEW o, o.sendsize \in Nat \cup {Unset}, o.recvsize \in Nat \cup {Unset}
  PROVE  /\ NewSizes(o).send \in [bytes : Nat, zero : BOOLEAN]
         /\ NewSizes(o).recv \in [bytes : Nat, zero : BOOLEAN]
         /\ NewSizes(o).send.zero => NewSizes(o).send.bytes = 0
         /\ NewSizes(o).recv.zero => NewSizes(o).recv.bytes = 0
<1>1. /\ (IF o.sendsize = Unset THEN 0 ELSE o.sendsize) \in Nat
      /\ (IF o.recvsize = Unset THEN 0 ELSE o.recvsize) \in Nat
  OBVIOUS
<1>2. NewSizes(o).send = [bytes |-> IF o.sendsize = Unset THEN 0 ELSE o.sendsize,
                          zero |-> o.sendsize = 0 /\ o.recvsize # Unset]
  BY DEF NewSizes
<1>3. NewSizes(o).recv = [bytes |-> IF o.recvsize = Unset THEN 0 ELSE o.recvsize,
                          zero |-> o.recvsize = 0]
  BY DEF NewSizes
<1>4. 0 # Unset
  BY PacketsAssumption
<1>5. ASSUME NEW b \in Nat, NEW z \in BOOLEAN, NEW s, s = [bytes |-> b, zero |-> z], z => b = 0
      PROVE  s \in [bytes : Nat, zero : BOOLEAN] /\ (s.zero => s.bytes = 0)
  BY <1>5
<1>6. (o.sendsize = 0 /\ o.recvsize # Unset) \in BOOLEAN /\ (o.recvsize = 0) \in BOOLEAN
  OBVIOUS
<1>7. /\ NewSizes(o).send \in [bytes : Nat, zero : BOOLEAN]
      /\ NewSizes(o).send.zero => NewSizes(o).send.bytes = 0
  BY <1>1, <1>2, <1>4, <1>5, <1>6
<1>8. /\ NewSizes(o).recv \in [bytes : Nat, zero : BOOLEAN]
      /\ NewSizes(o).recv.zero => NewSizes(o).recv.bytes = 0
  BY <1>1, <1>3, <1>4, <1>5, <1>6
<1> QED
  BY <1>7, <1>8

\* A size that the header carries is read as the same size, unless the reader's own zero
\* stays in force.
LEMMA ReadSizeSame ==
  ASSUME NEW own \in [bytes : Nat, zero : BOOLEAN], NEW size \in [bytes : Nat, zero : BOOLEAN],
         size.zero => size.bytes = 0
  PROVE  /\ ReadSize(own, size) \in [bytes : Nat, zero : BOOLEAN]
         /\ ReadSize(own, size).bytes = size.bytes
         /\ \/ IsSized(ReadSize(own, size)) = IsSized(size)
            \/ ~IsSized(size) /\ ReadSize(own, size).zero
<1>1. CASE size.zero
  <2>1. ReadSize(own, size) = [bytes |-> 0, zero |-> TRUE]
    BY <1>1 DEF ReadSize
  <2> QED
    BY <1>1, <2>1 DEF IsSized
<1>2. CASE ~size.zero
  <2>1. ReadSize(own, size) = [bytes |-> size.bytes, zero |-> own.zero]
    BY <1>2 DEF ReadSize
  <2> QED
    BY <1>2, <2>1 DEF IsSized
<1> QED
  BY <1>1, <1>2

\* The sizes of both ends at the start.
LEMMA SizesStart ==
  ASSUME NEW c \in Cases, InitSizes(c)
  PROVE  /\ want \in [Ends -> [bytes : Nat, zero : BOOLEAN]]
         /\ awaits \in [Ends -> [bytes : Nat, zero : BOOLEAN]]
         /\ SizesAgree
<1>1. PICK s, r, os, rr :
        /\ s = NewSizes(c.client).send /\ r = NewSizes(c.client).recv
        /\ os = NewSizes(c.server).send /\ rr = NewSizes(c.server).recv
  OBVIOUS
<1>2. /\ s \in [bytes : Nat, zero : BOOLEAN] /\ (s.zero => s.bytes = 0)
      /\ r \in [bytes : Nat, zero : BOOLEAN] /\ (r.zero => r.bytes = 0)
      /\ os \in [bytes : Nat, zero : BOOLEAN] /\ rr \in [bytes : Nat, zero : BOOLEAN]
  BY <1>1, NewSizesType, PacketsAssumption
<1>3. PICK ws, as : ws = ReadSize(os, r) /\ as = ReadSize(rr, s)
  OBVIOUS
<1>4. /\ ws \in [bytes : Nat, zero : BOOLEAN] /\ ws.bytes = r.bytes
      /\ IsSized(ws) = IsSized(r) \/ (~IsSized(r) /\ ws.zero)
  BY <1>2, <1>3, ReadSizeSame
<1>5. /\ as \in [bytes : Nat, zero : BOOLEAN] /\ as.bytes = s.bytes
      /\ IsSized(as) = IsSized(s) \/ (~IsSized(s) /\ as.zero)
  BY <1>2, <1>3, ReadSizeSame
<1>6. /\ want = [e \in Ends |-> IF e = "client" THEN s ELSE ws]
      /\ awaits = [e \in Ends |-> IF e = "client" THEN r ELSE as]
  BY <1>1, <1>3 DEF InitSizes
<1>7. /\ want \in [Ends -> [bytes : Nat, zero : BOOLEAN]]
      /\ awaits \in [Ends -> [bytes : Nat, zero : BOOLEAN]]
  BY <1>2, <1>4, <1>5, <1>6
<1>8. want["client"] = s /\ want["server"] = ws /\ awaits["client"] = r /\ awaits["server"] = as
  BY <1>6 DEF Ends
<1>9. SizesAgree
  <2>1. CASE IsSized(ws) = IsSized(r) /\ IsSized(as) = IsSized(s)
    <3>1. \A e \in Ends : /\ want[e].bytes = awaits[Peer(e)].bytes
                          /\ IsSized(want[e]) = IsSized(awaits[Peer(e)])
      BY <1>4, <1>5, <1>8, <2>1 DEF Ends, Peer
    <3> QED
      BY <3>1 DEF SizesAgree, Agree
  <2>2. CASE (~IsSized(r) /\ ws.zero) \/ (~IsSized(s) /\ as.zero)
    BY <1>8, <2>2 DEF SizesAgree
  <2> QED
    BY <1>4, <1>5, <2>1, <2>2
<1> QED
  BY <1>7, <1>9

\* The invariant holds at first.
LEMMA PacketsStart == Init => PacketsInv /\ ExactTransfer /\ AssertionsHold
<1> SUFFICES ASSUME Init PROVE PacketsInv /\ ExactTransfer /\ AssertionsHold
  OBVIOUS
<1>1. PICK c \in Cases : file = c.file /\ InitSizes(c)
  BY DEF Init
<1>2. IsGraph(graph) /\ Len(graph.vertices) \in Nat
  BY <1>1, PacketsAssumption, GraphIndices DEF graph
<1>3. Len(tape) = 0 /\ tape = <<>>
  BY DEF Init
<1>4. \A e \in Ends : walk[e] = [state |-> 0, ended |-> FALSE, first |-> TRUE, pos |-> 0]
  BY DEF Init
<1>5. walk \in [Ends -> WalkType]
  BY <1>2, <1>3 DEF Init, WalkType
<1>6. NoLoop \in LoopType /\ ~NoLoop.on /\ NoLoop.size = 0
  BY PacketsAssumption DEF NoLoop, LoopType
<1>7. loop = [e \in Ends |-> NoLoop]
  BY DEF Init
<1>8. TypeOK
  <2>1. loop \in [Ends -> LoopType]
    BY <1>6, <1>7
  <2>2. expected \in [Ends -> 0 .. MaxExpected] /\ sent \in [Ends -> Nat] /\ got \in [Ends -> Nat]
    BY PacketsAssumption DEF Init
  <2>3. /\ waiting \in [Ends -> BOOLEAN] /\ payload \in [Ends -> BOOLEAN]
        /\ closed \in [Ends -> BOOLEAN] /\ promise = {} /\ stage = "load"
    BY DEF Init
  <2> QED
    BY <1>1, <1>5, <2>1, <2>2, <2>3, SizesStart DEF TypeOK, WalkType, LoopType
<1>9. SizesAgree
  BY <1>1, SizesStart
<1>10. WalksInOrder
  <2>1. stage = "load" /\ DOMAIN tape = {}
    BY <1>3 DEF Init
  <2>2. tape \in Seq([obs : {"TO_SERVER", "TO_ORIGIN", "END"}, delay : 0 .. 2, walk : Positions])
    BY <1>3
  <2> QED
    BY <1>2, <1>3, <2>1, <2>2 DEF WalksInOrder
<1>11. ASSUME NEW e \in Ends PROVE SendingInOrder(e) /\ ClosingInOrder(e)
  <2>1. /\ loop[e] = NoLoop /\ ~payload[e] /\ ~closed[e] /\ sent[e] = 0 /\ got[e] = 0
        /\ sent[Peer(e)] = 0
    BY <1>7, TwoEnds DEF Init
  <2>2. want[e].bytes \in Nat
    BY <1>8, EndTypes
  <2> QED
    BY <1>6, <2>1, <2>2 DEF SendingInOrder, ClosingInOrder
<1>12. WalkedTogether
  <2>1. ASSUME NEW dir PROVE Emitted(dir, 0) = 0
    <3>1. {i \in 1 .. 0 : tape[i].obs = dir} = {}
      OBVIOUS
    <3>2. Cardinality({i \in 1 .. 0 : tape[i].obs = dir}) = 0
      BY <3>1, FS_EmptySet
    <3> QED
      BY <3>2, PacketsAssumption DEF Emitted
  <2>2. ASSUME NEW e \in Ends
        PROVE  /\ walk[e].first /\ walk[e].pos = 0 /\ ~walk[e].ended
               /\ sent[e] = 0 /\ loop[e].size = 0 /\ expected[e] = 0
    BY <1>4, <1>6, <1>7 DEF Init
  <2>3. DOMAIN tape = {}
    BY <1>3
  <2> QED
    BY <2>1, <2>2, <2>3 DEF WalkedTogether
<1>13. ExactTransfer /\ AssertionsHold
  BY DEF Init, ExactTransfer, AssertionsHold
<1> QED
  BY <1>8, <1>9, <1>10, <1>11, <1>12, <1>13 DEF PacketsInv

-----------------------------------------------------------------------------
(* The steps.                                                              *)

Inv == PacketsInv /\ ExactTransfer /\ AssertionsHold

\* The sizes that the ends mean do not change.
LEMMA SizesStay ==
  ASSUME UNCHANGED <<want, awaits>>
  PROVE  /\ SizesAgree => SizesAgree'
         /\ \A x \in Ends : (Sized(x)' <=> Sized(x)) /\ want'[x] = want[x]
         /\ Unsized' <=> Unsized
<1>1. Agree' <=> Agree
  BY DEF Agree
<1>2. SizesAgree => SizesAgree'
  BY <1>1 DEF SizesAgree
<1>3. \A x \in Ends : (Sized(x)' <=> Sized(x)) /\ want'[x] = want[x]
  BY DEF Sized
<1>4. Unsized' <=> Unsized
  BY DEF Unsized, Sized
<1> QED
  BY <1>2, <1>3, <1>4

\* An end that sends nothing stays as it is.
LEMMA SendingStays ==
  ASSUME NEW x \in Ends, SendingInOrder(x), want' = want, sent'[x] = sent[x],
         loop'[x] = loop[x], walk'[x] = walk[x], payload'[x] = payload[x]
  PROVE  SendingInOrder(x)'
<1>1. doneSending(x)' <=> doneSending(x)
  BY DEF doneSending
<1> QED
  BY <1>1 DEF SendingInOrder

\* The walks stay as they are when nobody walks and what is sent or about to be sent stays.
LEMMA WalkedStays ==
  ASSUME WalkedTogether, UNCHANGED <<want, awaits, walk, tape, expected>>,
         \A x \in Ends : sent'[x] = sent[x] /\ loop'[x].size = loop[x].size
  PROVE  WalkedTogether'
<1>1. Unsized' <=> Unsized
  BY SizesStay
<1>2. \A dir, n : Emitted(dir, n)' = Emitted(dir, n)
  BY DEF Emitted
<1>3. \A x : Here(x)' = Here(x)
  BY DEF Here
<1> QED
  BY <1>1, <1>2, <1>3 DEF WalkedTogether

\* The model and the observations stay as they are.
LEMMA WalksStay ==
  ASSUME WalksInOrder, UNCHANGED <<file, tape>>, stage' = stage \/ (stage = "run" /\ stage' = "aborted")
  PROVE  WalksInOrder'
<1>1. graph' = graph /\ Positions' = Positions
  BY DEF graph, Positions
<1>2. stage' \in {"run", "aborted"} => stage \in {"run", "aborted"}
  OBVIOUS
<1>3. stage' = "load" => stage = "load"
  OBVIOUS
<1> QED
  BY <1>1, <1>2, <1>3 DEF WalksInOrder

\* A deferred write becomes due.
LEMMA ResumeKeeps ==
  ASSUME Inv, NEW e \in Ends, Resume(e)
  PROVE  Inv'
<1>1. /\ UNCHANGED <<file, stage, want, awaits, walk, loop, tape, sent, got, expected, payload,
                     closed, promise>>
      /\ waiting' = [waiting EXCEPT ![e] = FALSE]
  BY DEF Resume
<1>2. TypeOK'
  BY <1>1 DEF Inv, PacketsInv, TypeOK, graph
<1>3. SizesAgree' /\ WalksInOrder' /\ WalkedTogether'
  BY <1>1, SizesStay, WalksStay, WalkedStays DEF Inv, PacketsInv
<1>4. ASSUME NEW x \in Ends PROVE SendingInOrder(x)' /\ ClosingInOrder(x)'
  <2>1. SendingInOrder(x)'
    BY <1>1, SendingStays DEF Inv, PacketsInv
  <2>2. ClosingInOrder(x)'
    BY <1>1 DEF Inv, PacketsInv, ClosingInOrder, Sized
  <2> QED
    BY <2>1, <2>2
<1>5. ExactTransfer' /\ AssertionsHold'
  BY <1>1, SizesStay DEF Inv, ExactTransfer, AssertionsHold, graph
<1> QED
  BY <1>2, <1>3, <1>4, <1>5 DEF Inv, PacketsInv

\* A call of writePayload finds that all is sent, or starts its loop.
LEMMA BeginPayloadKeeps ==
  ASSUME Inv, NEW e \in Ends, BeginPayload(e)
  PROVE  Inv'
<1>1. /\ UNCHANGED <<file, stage, want, awaits, walk, tape, sent, got, expected, waiting, closed,
                     promise>>
      /\ ~loop[e].on /\ ~closed[e] /\ ~payload[e]
  BY DEF BeginPayload, Sending
<1>2. SizesAgree' /\ WalksInOrder'
  BY <1>1, SizesStay, WalksStay DEF Inv, PacketsInv
<1>3. ExactTransfer' /\ AssertionsHold'
  BY <1>1, SizesStay DEF Inv, ExactTransfer, AssertionsHold, graph
<1>4. TypeOK /\ \A x \in Ends : SendingInOrder(x) /\ ClosingInOrder(x)
  BY DEF Inv, PacketsInv
<1>5. payload \in [Ends -> BOOLEAN] /\ loop \in [Ends -> LoopType]
  BY <1>4 DEF TypeOK, LoopType
<1>6. CASE doneSending(e)
  <2>1. payload' = [payload EXCEPT ![e] = TRUE] /\ loop' = loop
    BY <1>6 DEF BeginPayload
  <2>2. payload' \in [Ends -> BOOLEAN] /\ payload'[e]
        /\ \A x \in Ends : x # e => payload'[x] = payload[x]
    BY <1>5, <2>1
  <2>3. TypeOK'
    BY <1>1, <1>4, <2>1, <2>2 DEF TypeOK, graph
  <2>4. WalkedTogether'
    BY <1>1, <2>1, WalkedStays DEF Inv, PacketsInv
  <2>5. ASSUME NEW x \in Ends PROVE SendingInOrder(x)' /\ ClosingInOrder(x)'
    <3>1. x # e => SendingInOrder(x)'
      BY <1>1, <1>4, <2>1, <2>2, SendingStays
    <3>2. SendingInOrder(e)'
      <4>1. doneSending(e)'
        BY <1>1, <1>6 DEF doneSending
      <4> QED
        BY <1>1, <1>4, <2>1, <4>1 DEF SendingInOrder
    <3>3. ClosingInOrder(x)'
      <4>1. payload[x] => payload'[x]
        BY <2>2
      <4>2. payload[Peer(x)] => payload'[Peer(x)]
        BY <2>2, TwoEnds
      <4> QED
        BY <1>1, <1>4, <4>1, <4>2 DEF ClosingInOrder, Sized
    <3> QED
      BY <3>1, <3>2, <3>3
  <2> QED
    BY <1>2, <1>3, <2>3, <2>4, <2>5 DEF Inv, PacketsInv
<1>7. CASE ~doneSending(e)
  <2>1. PICK lim : lim = IF want[e].bytes > 0 THEN Min({want[e].bytes - sent[e], WriteMax})
                         ELSE WriteMax
    OBVIOUS
  <2>2. /\ want[e].bytes \in Nat /\ sent[e] \in Nat /\ WriteMax \in Nat
        /\ want[e].bytes > 0 => want[e].bytes - sent[e] \in Nat
    BY <1>4, <1>7, EndTypes, PacketsAssumption DEF doneSending
  <2>3. lim \in 0 .. WriteMax /\ (want[e].bytes > 0 => sent[e] + lim <= want[e].bytes)
    <3>1. CASE want[e].bytes > 0
      <4>1. PICK a \in Nat : a = want[e].bytes - sent[e]
        BY <2>2, <3>1
      <4>2. lim = Min({a, WriteMax}) /\ a \in Int /\ WriteMax \in Int
        BY <2>1, <2>2, <3>1, <4>1
      <4>3. lim \in {a, WriteMax} /\ lim <= a /\ lim <= WriteMax
        BY <4>2, MinPair
      <4> QED
        BY <2>2, <4>1, <4>3
    <3>2. CASE ~(want[e].bytes > 0)
      BY <2>1, <2>2, <3>2
    <3> QED
      BY <3>1, <3>2
  <2>4. PICK n : n = [on |-> TRUE, limit |-> lim, size |-> 0, delay |-> 0]
    OBVIOUS
  <2>5. n \in LoopType /\ n.on /\ n.limit = lim /\ n.size = 0
    BY <2>3, <2>4 DEF LoopType
  <2>6. loop' = [loop EXCEPT ![e] = n] /\ payload' = payload
    BY <1>7, <2>1, <2>4 DEF BeginPayload, NoLoop
  <2>7. loop' \in [Ends -> LoopType] /\ loop'[e] = n /\ \A x \in Ends : x # e => loop'[x] = loop[x]
    BY <1>5, <2>5, <2>6
  <2>8. TypeOK'
    BY <1>1, <1>4, <2>6, <2>7 DEF TypeOK, graph, LoopType
  <2>9. loop[e].size = 0
    BY <1>1, <1>4 DEF SendingInOrder
  <2>10. WalkedTogether'
    <3>1. \A x \in Ends : sent'[x] = sent[x] /\ loop'[x].size = loop[x].size
      BY <1>1, <2>5, <2>7, <2>9
    <3> QED
      BY <1>1, <3>1, WalkedStays DEF Inv, PacketsInv
  <2>11. ASSUME NEW x \in Ends PROVE SendingInOrder(x)' /\ ClosingInOrder(x)'
    <3>1. x # e => SendingInOrder(x)'
      BY <1>1, <1>4, <2>6, <2>7, SendingStays
    <3>2. SendingInOrder(e)'
      <4>1. ~doneSending(e)'
        BY <1>1, <1>7 DEF doneSending
      <4> QED
        BY <1>1, <1>4, <2>3, <2>5, <2>6, <2>7, <4>1 DEF SendingInOrder
    <3>3. ClosingInOrder(x)'
      BY <1>1, <1>4, <2>6 DEF ClosingInOrder, Sized
    <3> QED
      BY <3>1, <3>2, <3>3
  <2> QED
    BY <1>2, <1>3, <2>8, <2>10, <2>11 DEF Inv, PacketsInv
<1> QED
  BY <1>6, <1>7

\* Bytes that were sent are read.
LEMMA ReadPayloadKeeps ==
  ASSUME Inv, NEW e \in Ends, readPayload(e)
  PROVE  Inv'
<1>1. /\ UNCHANGED <<file, stage, want, awaits, walk, loop, tape, sent, expected, waiting, payload,
                     closed, promise>>
      /\ ~closed[e]
  BY DEF readPayload
<1>2. TypeOK /\ \A x \in Ends : SendingInOrder(x) /\ ClosingInOrder(x)
  BY DEF Inv, PacketsInv
<1>3. /\ got[e] \in Nat /\ sent[Peer(e)] \in Nat /\ want[Peer(e)].bytes \in Nat
      /\ got \in [Ends -> Nat] /\ got[e] <= sent[Peer(e)]
  BY <1>2, EndTypes, TwoEnds DEF TypeOK, ClosingInOrder
<1>4. PICK n \in 1 .. Remaining(e) : got' = [got EXCEPT ![e] = @ + n]
  BY DEF readPayload
<1>5. Remaining(e) \in Int /\ Remaining(e) <= sent[Peer(e)] - got[e]
  <2>1. PICK a, b : a = sent[Peer(e)] - got[e] /\ b = want[Peer(e)].bytes - got[e]
    OBVIOUS
  <2>2. a \in Int /\ b \in Int
    BY <1>3, <2>1
  <2>3. Min({a, b}) \in {a, b} /\ Min({a, b}) <= a
    BY <2>2, MinPair
  <2>4. Remaining(e) \in {a, Min({a, b})}
    BY <2>1 DEF Remaining
  <2> QED
    BY <2>1, <2>2, <2>3, <2>4
<1>6. /\ got' \in [Ends -> Nat] /\ got'[e] <= sent[Peer(e)]
      /\ \A x \in Ends : x # e => got'[x] = got[x]
  <2>1. n \in Nat /\ got[e] + n <= sent[Peer(e)] /\ got[e] + n \in Nat
    BY <1>3, <1>4, <1>5
  <2> QED
    BY <1>3, <1>4, <2>1
<1>7. TypeOK'
  BY <1>1, <1>2, <1>6 DEF TypeOK, graph
<1>8. SizesAgree' /\ WalksInOrder' /\ WalkedTogether'
  BY <1>1, SizesStay, WalksStay, WalkedStays DEF Inv, PacketsInv
<1>9. ASSUME NEW x \in Ends PROVE SendingInOrder(x)' /\ ClosingInOrder(x)'
  <2>1. SendingInOrder(x)'
    BY <1>1, <1>2, SendingStays
  <2>2. got'[x] <= sent[Peer(x)]
    BY <1>2, <1>6 DEF ClosingInOrder
  <2>3. ClosingInOrder(x)'
    BY <1>1, <1>2, <2>2 DEF ClosingInOrder, Sized
  <2> QED
    BY <2>1, <2>3
<1>10. ExactTransfer' /\ AssertionsHold'
  BY <1>1, <1>6, SizesStay DEF Inv, ExactTransfer, AssertionsHold, graph
<1> QED
  BY <1>7, <1>8, <1>9, <1>10 DEF Inv, PacketsInv

\* What an end has got that finds it has sent and received all.
LEMMA ClosingIsExact ==
  ASSUME Inv, NEW e \in Ends, sendDone(e), recvDone(e)
  PROVE  /\ payload[e]
         /\ Sized(Peer(e)) => payload[Peer(e)]
         /\ Sized(e) /\ ~Sized(Peer(e)) => closed[Peer(e)]
         /\ got[e] = sent[Peer(e)]
         /\ Unsized => got[e] = expected[e]
<1> DEFINE p == Peer(e)
<1>1. p \in Ends /\ p # e /\ Peer(p) = e /\ \A x \in Ends : x = e \/ x = p
  BY TwoEnds
<1>2. TypeOK /\ \A x \in Ends : SendingInOrder(x) /\ ClosingInOrder(x)
  BY DEF Inv, PacketsInv
<1>3. payload[e] /\ (Sized(e) => PayloadRead(e))
  BY DEF sendDone
<1>4. got[e] \in Nat /\ sent[p] \in Nat /\ want[p].bytes \in Nat /\ got[e] <= sent[p]
  BY <1>1, <1>2, EndTypes DEF ClosingInOrder
<1>5. CASE Sized(p)
  <2>1. got[e] >= want[p].bytes /\ payload[p]
    BY <1>5 DEF recvDone, PayloadRead, sendDone
  <2>2. sent[p] <= want[p].bytes
    <3>1. CASE want[p].bytes > 0
      BY <1>1, <1>2, <3>1 DEF SendingInOrder
    <3>2. CASE ~(want[p].bytes > 0)
      <4>1. want[p].bytes = 0 /\ want[p].zero
        BY <1>4, <1>5, <3>2 DEF Sized, IsSized
      <4> QED
        BY <1>1, <1>2, <4>1 DEF SendingInOrder
    <3> QED
      BY <3>1, <3>2
  <2>3. got[e] = sent[p]
    BY <1>4, <2>1, <2>2
  <2>4. ~Unsized
    BY <1>1, <1>5 DEF Unsized
  <2> QED
    BY <1>3, <1>5, <2>1, <2>3, <2>4
<1>6. CASE ~Sized(p) /\ Sized(e)
  <2>1. closed[p] /\ got[e] = sent[p]
    BY <1>3, <1>6 DEF PayloadRead
  <2>2. ~Unsized
    BY <1>6 DEF Unsized
  <2> QED
    BY <1>3, <1>6, <2>1, <2>2
<1>7. CASE ~Sized(p) /\ ~Sized(e)
  <2>1. Unsized
    BY <1>1, <1>7 DEF Unsized
  <2>2. /\ expected[e] \in Nat /\ sent[p] <= expected[e]
        /\ payload[p] => sent[p] = expected[e]
    BY <1>2, <1>3, <2>1, Sums DEF Inv, PacketsInv
  <2>3. PayloadRead(e) \/ got[e] >= expected[e]
    BY <1>7 DEF recvDone
  <2>4. CASE PayloadRead(e)
    <3>1. closed[p] /\ got[e] = sent[p]
      BY <1>7, <2>4 DEF PayloadRead
    <3>2. payload[p]
      BY <1>1, <1>2, <3>1 DEF ClosingInOrder
    <3> QED
      BY <1>3, <1>7, <2>2, <3>1, <3>2
  <2>5. CASE got[e] >= expected[e]
    <3>1. got[e] = sent[p] /\ got[e] = expected[e]
      BY <1>4, <2>2, <2>5
    <3> QED
      BY <1>3, <1>7, <3>1
  <2> QED
    BY <2>3, <2>4, <2>5
<1> QED
  BY <1>5, <1>6, <1>7

\* A stream succeeds and is closed.
LEMMA CloseKeeps ==
  ASSUME Inv, NEW e \in Ends, Close(e)
  PROVE  Inv'
<1>1. /\ UNCHANGED <<file, stage, want, awaits, walk, loop, tape, sent, got, expected, waiting,
                     payload, promise>>
      /\ closed' = [closed EXCEPT ![e] = TRUE] /\ sendDone(e) /\ recvDone(e)
  BY DEF Close
<1>2. TypeOK /\ \A x \in Ends : SendingInOrder(x) /\ ClosingInOrder(x)
  BY DEF Inv, PacketsInv
<1>3. /\ closed' \in [Ends -> BOOLEAN] /\ closed'[e]
      /\ \A x \in Ends : /\ x # e => closed'[x] = closed[x]
                         /\ closed[x] => closed'[x]
  BY <1>1, <1>2 DEF TypeOK
<1>4. TypeOK'
  BY <1>1, <1>2, <1>3 DEF TypeOK, graph
<1>5. SizesAgree' /\ WalksInOrder' /\ WalkedTogether'
  BY <1>1, SizesStay, WalksStay, WalkedStays DEF Inv, PacketsInv
<1>6. /\ payload[e]
      /\ Sized(Peer(e)) => payload[Peer(e)]
      /\ Sized(e) /\ ~Sized(Peer(e)) => closed[Peer(e)]
      /\ got[e] = sent[Peer(e)]
      /\ Unsized => got[e] = expected[e]
  BY <1>1, ClosingIsExact
<1>7. ASSUME NEW x \in Ends PROVE SendingInOrder(x)' /\ ClosingInOrder(x)'
  <2>1. SendingInOrder(x)'
    BY <1>1, <1>2, SendingStays
  <2>2. Peer(x) \in Ends
    BY TwoEnds
  <2>3. x # e => ClosingInOrder(x)'
    BY <1>1, <1>2, <1>3, <2>2 DEF ClosingInOrder, Sized
  <2>4. x = e => ClosingInOrder(x)'
    BY <1>1, <1>2, <1>3, <1>6, <2>2 DEF ClosingInOrder, Sized
  <2> QED
    BY <2>1, <2>3, <2>4
<1>8. AssertionsHold'
  BY <1>1 DEF Inv, AssertionsHold, graph
<1>9. ExactTransfer'
  BY <1>1, <1>3, <1>6, SizesStay DEF Inv, ExactTransfer
<1> QED
  BY <1>4, <1>5, <1>7, <1>8, <1>9 DEF Inv, PacketsInv

\* A model is loaded, or not.
LEMMA LoadKeeps ==
  ASSUME Inv, Load
  PROVE  Inv'
<1>1. /\ UNCHANGED <<file, want, awaits, loop, tape, sent, got, expected, waiting, payload, closed>>
      /\ stage = "load"
  BY DEF Load
<1>2. TypeOK /\ \A x \in Ends : SendingInOrder(x) /\ ClosingInOrder(x)
  BY DEF Inv, PacketsInv
<1>3. IsGraph(graph) /\ tape = <<>> /\ WalksInOrder /\ graph' = graph /\ Positions' = Positions
  BY <1>1 DEF Inv, PacketsInv, WalksInOrder, graph, Positions
<1>4. \A x \in Ends : walk[x] \in WalkType /\ walk[x].pos = 0
  <2>1. Len(tape) = 0
    BY <1>3
  <2> QED
    BY <1>2, <2>1, EndTypes
<1>5. walk \in [Ends -> WalkType]
  BY <1>2 DEF TypeOK, WalkType
<1>6. /\ stage' \in {"rejected", "differ", "run"} /\ promise' \subseteq {"productive", "ending"}
      /\ stage' = "run" => Valid(graph)
      /\ walk' \in [Ends -> WalkType]
      /\ stage' = "run" => \A x \in Ends : walk'[x].state \in DOMAIN graph.vertices
      /\ \A x \in Ends : /\ walk'[x].ended = walk[x].ended /\ walk'[x].pos = walk[x].pos
                         /\ walk'[x].first = walk[x].first
  <2>1. CASE newFrom(file)
    <3>1. Valid(graph)
      BY <2>1 DEF newFrom, graph
    <3>2. PICK s \in DOMAIN graph.vertices : s = startVertexIndex(graph)
      BY <1>3, <3>1, StartVertex
    <3>3. /\ stage' \in {"differ", "run"} /\ promise' = Promises(graph)
          /\ walk' = [x \in Ends |-> [walk[x] EXCEPT !.state = s]]
      BY <2>1, <3>2 DEF Load
    <3>4. s \in 0 .. Len(graph.vertices)
      BY <1>3, GraphIndices
    <3>5. ASSUME NEW x \in Ends
          PROVE  /\ walk'[x] \in WalkType /\ walk'[x].state = s
                 /\ walk'[x].ended = walk[x].ended /\ walk'[x].pos = walk[x].pos
                 /\ walk'[x].first = walk[x].first
      <4>1. walk'[x] = [walk[x] EXCEPT !.state = s] /\ walk[x] \in WalkType
        BY <1>4, <3>3
      <4> QED
        BY <3>4, <4>1 DEF WalkType
    <3>6. walk' \in [Ends -> WalkType]
      BY <3>3, <3>5
    <3>7. Promises(graph) \subseteq {"productive", "ending"}
      BY Zenon DEF Promises
    <3> QED
      BY <3>1, <3>2, <3>3, <3>5, <3>6, <3>7
  <2>2. CASE ~newFrom(file)
    <3>1. stage' = "rejected" /\ walk' = walk /\ promise' = promise
      BY <2>2 DEF Load
    <3> QED
      BY <1>2, <1>5, <3>1 DEF TypeOK
  <2> QED
    BY <2>1, <2>2
<1>7. TypeOK'
  BY <1>1, <1>2, <1>3, <1>6 DEF TypeOK, WalkType
<1>8. WalksInOrder'
  <2>1. stage' # "load" /\ stage' # "aborted"
    BY <1>6
  <2> QED
    BY <1>1, <1>3, <1>6, <2>1 DEF WalksInOrder
<1>9. WalkedTogether'
  <2>1. Unsized' <=> Unsized
    BY <1>1, SizesStay
  <2>2. \A dir, n : Emitted(dir, n)' = Emitted(dir, n)
    BY <1>1 DEF Emitted
  <2> QED
    BY <1>1, <1>4, <1>6, <2>1, <2>2 DEF Inv, PacketsInv, WalkedTogether
<1>10. ASSUME NEW x \in Ends PROVE SendingInOrder(x)' /\ ClosingInOrder(x)'
  <2>1. doneSending(x)' <=> doneSending(x)
    BY <1>1, <1>6 DEF doneSending
  <2>2. SendingInOrder(x)'
    BY <1>1, <1>2, <2>1 DEF SendingInOrder
  <2>3. ClosingInOrder(x)'
    BY <1>1, <1>2 DEF ClosingInOrder, Sized
  <2> QED
    BY <2>2, <2>3
<1>11. SizesAgree' /\ ExactTransfer' /\ AssertionsHold'
  BY <1>1, <1>6, SizesStay DEF Inv, PacketsInv, ExactTransfer, AssertionsHold
<1> QED
  BY <1>7, <1>8, <1>9, <1>10, <1>11 DEF Inv, PacketsInv

\* What either end may draw, from the tape or from the model.
LEMMA DrawsInOrder ==
  ASSUME Inv, stage = "run", NEW e \in Ends, NEW o \in Draws(e)
  PROVE  \/ o \in Draw(graph) /\ (o.walk.ended => o.obs = "END")
         \/ o.obs = "ABORT" /\ Tripping(graph)
<1>1. TypeOK /\ WalksInOrder
  BY DEF Inv, PacketsInv
<1>2. CASE Behind(e)
  <2>1. o = tape[walk[e].pos + 1] /\ walk[e].pos < Len(tape)
    BY <1>2 DEF Draws, Behind
  <2>2. tape \in Seq(Draw(graph))
    BY <1>1 DEF WalksInOrder, Draw, Positions, Position
  <2>3. walk[e].pos + 1 \in DOMAIN tape
    <3>1. DOMAIN tape = 1 .. Len(tape) /\ Len(tape) \in Nat
      BY <2>2
    <3>2. walk[e].pos \in 0 .. Len(tape)
      BY <1>1, EndTypes
    <3> QED
      BY <2>1, <3>1, <3>2
  <2>4. o \in Draw(graph)
    BY <2>1, <2>2, <2>3, Element
  <2>5. o.walk.ended => o.obs = "END"
    BY <1>1, <2>1, <2>3 DEF WalksInOrder
  <2> QED
    BY <2>4, <2>5
<1>3. CASE ~Behind(e)
  <2>1. o \in getNextObservation(graph, Here(e))
    BY <1>3 DEF Draws
  <2>2. walk[e].state \in DOMAIN graph.vertices /\ walk[e].ended \in BOOLEAN
    BY <1>1, EndTypes DEF TypeOK
  <2>3. Here(e) \in Position(graph)
    BY <2>2 DEF Here, Position
  <2>4. IsGraph(graph) /\ Valid(graph)
    BY <1>1 DEF WalksInOrder
  <2> QED
    BY <2>1, <2>3, <2>4, NextDraw
<1> QED
  BY <1>2, <1>3

\* An assertion fails.
LEMMA AbortKeeps ==
  ASSUME Inv, NEW e \in Ends, NEW o \in Draws(e), Abort(e, o)
  PROVE  Inv'
<1>1. /\ UNCHANGED <<file, want, awaits, walk, loop, tape, sent, got, expected, waiting, payload,
                     closed, promise>>
      /\ stage = "run" /\ stage' = "aborted" /\ o.obs = "ABORT"
  BY DEF Abort, Sending
<1>2. TypeOK /\ \A x \in Ends : SendingInOrder(x) /\ ClosingInOrder(x)
  BY DEF Inv, PacketsInv
<1>3. TypeOK'
  BY <1>1, <1>2 DEF TypeOK, graph
<1>4. SizesAgree' /\ WalksInOrder' /\ WalkedTogether'
  BY <1>1, SizesStay, WalksStay, WalkedStays DEF Inv, PacketsInv
<1>5. ASSUME NEW x \in Ends PROVE SendingInOrder(x)' /\ ClosingInOrder(x)'
  BY <1>1, <1>2, SendingStays DEF ClosingInOrder, Sized
<1>6. ExactTransfer'
  BY <1>1, SizesStay DEF Inv, ExactTransfer
<1>7. AssertionsHold'
  <2>1. Tripping(graph)
    <3>1. o \in Draw(graph) => o.obs # "ABORT"
      BY DEF Draw
    <3> QED
      BY <1>1, <3>1, DrawsInOrder
  <2>2. graph' = graph
    BY <1>1 DEF graph
  <2> QED
    BY <2>1, <2>2 DEF AssertionsHold, Tripping, NaNEdge
<1> QED
  BY <1>3, <1>4, <1>5, <1>6, <1>7 DEF Inv, PacketsInv

\* What a round of the loop leaves, in terms of the sizes that it computes.
RoundSize(e, o) == loop[e].size + (IF o.obs = Own(e) THEN PacketSize ELSE 0)

RoundStop(e, o) == o.obs = "END" /\ want[e].bytes = 0

Rounds(e, o, over) ==
  /\ RoundSize(e, o) \in Nat /\ NextDelay(e, o) \in Nat
  /\ over \in BOOLEAN /\ (RoundStop(e, o) => over)
  /\ walk' = [walk EXCEPT ![e] = Advance(e, o)]
  /\ tape' = IF Compared(e) /\ ~Behind(e) THEN Append(tape, o) ELSE tape
  /\ expected' = [expected EXCEPT ![e] =
       IF o.obs = Own(Peer(e)) THEN Min({MaxExpected, @ + PacketSize}) ELSE @]
  /\ loop' \in [Ends -> LoopType] /\ sent' \in [Ends -> Nat] /\ waiting' \in [Ends -> BOOLEAN]
  /\ \A x \in Ends : x # e => loop'[x] = loop[x] /\ sent'[x] = sent[x]
  /\ over => /\ ~loop'[e].on /\ loop'[e].size = 0
             /\ sent'[e] = sent[e] + NewBufLen(e, RoundSize(e, o))
  /\ ~over => /\ loop'[e].on /\ loop'[e].size = RoundSize(e, o)
              /\ loop'[e].limit = loop[e].limit /\ sent'[e] = sent[e]
  /\ NewBufLen(e, RoundSize(e, o)) \in Nat
  /\ want[e].bytes > 0 => NewBufLen(e, RoundSize(e, o)) <= loop[e].limit
  /\ want[e].bytes = 0 => NewBufLen(e, RoundSize(e, o)) = RoundSize(e, o)

\* What a round of writePayload makes of the buffer, its limit and its delay.
LEMMA RoundEffects ==
  ASSUME Inv, NEW e \in Ends, NEW o \in Draw(graph), Round(e, o)
  PROVE  \E over : Rounds(e, o, over)
<1>1. TypeOK
  BY DEF Inv, PacketsInv
<1>2. /\ loop[e] \in LoopType /\ loop[e].size \in Nat /\ loop[e].delay \in Nat
      /\ loop[e].limit \in 0 .. WriteMax /\ want[e].bytes \in Nat /\ sent[e] \in Nat
      /\ PacketSize \in Nat /\ WriteMax \in Nat
  BY <1>1, EndTypes, PacketsAssumption
<1>3. o.delay \in Nat
  BY DEF Draw
<1>4. PICK size, delay : size = RoundSize(e, o) /\ delay = NextDelay(e, o)
  OBVIOUS
<1>5. size \in Nat /\ delay \in Nat
  BY <1>2, <1>3, <1>4 DEF RoundSize, NextDelay
<1>6. PICK pause \in BOOLEAN : pause = (~RoundStop(e, o) /\ delay > MicrosAtOnce)
  OBVIOUS
<1>7. PICK over \in BOOLEAN : over = (RoundStop(e, o) \/ pause \/ size >= loop[e].limit)
  OBVIOUS
<1>8. PICK len : len = NewBufLen(e, size)
  OBVIOUS
<1>9. /\ len \in Nat /\ (want[e].bytes > 0 => len <= loop[e].limit)
      /\ want[e].bytes = 0 => len = size
  <2>1. loop[e].limit \in Int /\ size \in Int
    BY <1>2, <1>5
  <2>2. Min({loop[e].limit, size}) \in {loop[e].limit, size} /\ Min({loop[e].limit, size}) <= loop[e].limit
    BY <2>1, MinPair
  <2> QED
    BY <1>2, <1>5, <1>8, <2>2 DEF NewBufLen
<1>10. /\ walk' = [walk EXCEPT ![e] = Advance(e, o)]
       /\ tape' = IF Compared(e) /\ ~Behind(e) THEN Append(tape, o) ELSE tape
       /\ expected' = [expected EXCEPT ![e] =
            IF o.obs = Own(Peer(e)) THEN Min({MaxExpected, @ + PacketSize}) ELSE @]
       /\ waiting' = [waiting EXCEPT ![e] = pause]
       /\ loop' = [loop EXCEPT ![e] =
            IF over THEN NoLoop ELSE [@ EXCEPT !.size = size, !.delay = delay]]
       /\ sent' = [sent EXCEPT ![e] = IF over THEN @ + len ELSE @]
  BY <1>4, <1>6, <1>7, <1>8 DEF Round, RoundSize, RoundStop
<1>11. PICK n : n = IF over THEN NoLoop ELSE [loop[e] EXCEPT !.size = size, !.delay = delay]
  OBVIOUS
<1>12. /\ n \in LoopType
       /\ over => ~n.on /\ n.size = 0
       /\ ~over => n.on = loop[e].on /\ n.size = size /\ n.limit = loop[e].limit
  <2>1. CASE over
    BY <1>2, <1>11, <2>1 DEF LoopType, NoLoop
  <2>2. CASE ~over
    <3>1. n = [loop[e] EXCEPT !.size = size, !.delay = delay]
      BY <1>11, <2>2
    <3> QED
      BY <1>2, <1>5, <2>2, <3>1 DEF LoopType
  <2> QED
    BY <2>1, <2>2
<1>13. loop[e].on
  BY DEF Round
<1>14. loop \in [Ends -> LoopType] /\ sent \in [Ends -> Nat] /\ waiting \in [Ends -> BOOLEAN]
  BY <1>1 DEF TypeOK, LoopType
<1>15. /\ loop' \in [Ends -> LoopType] /\ loop'[e] = n
       /\ \A x \in Ends : x # e => loop'[x] = loop[x]
  <2>1. loop' = [loop EXCEPT ![e] = n]
    BY <1>10, <1>11, <1>14
  <2> QED
    BY <1>12, <1>14, <2>1
<1>16. /\ sent' \in [Ends -> Nat] /\ sent'[e] = IF over THEN sent[e] + len ELSE sent[e]
       /\ \A x \in Ends : x # e => sent'[x] = sent[x]
  BY <1>2, <1>9, <1>10, <1>14
<1>17. waiting' \in [Ends -> BOOLEAN]
  BY <1>10, <1>14
<1>18. Rounds(e, o, over)
  BY <1>4, <1>5, <1>7, <1>8, <1>9, <1>10, <1>12, <1>13, <1>15, <1>16, <1>17 DEF Rounds
<1> QED
  BY <1>18

\* What a round of the loop leaves on the tape: the observation that the end has drawn, if
\* it compares its walk with that of the other end, and all that was there before.
OnTape(e, o) ==
  /\ tape' \in Seq(Draw(graph)) /\ Len(tape') \in Nat /\ Len(tape) <= Len(tape')
  /\ \A i \in 1 .. Len(tape) : tape'[i] = tape[i]
  /\ \A i \in 1 .. Len(tape') : tape'[i].walk.ended => tape'[i].obs = "END"
  /\ Compared(e) => walk[e].pos + 1 <= Len(tape') /\ tape'[walk[e].pos + 1] = o
  /\ Len(tape') # Len(tape) => Len(tape') = Len(tape) + 1 /\ walk[e].pos = Len(tape)

\* A round draws what the other end has drawn at the same place, or extends the tape.
LEMMA RoundTape ==
  ASSUME Inv, NEW e \in Ends, NEW o \in Draw(graph), o.walk.ended => o.obs = "END",
         o \in Draws(e),
         tape' = IF Compared(e) /\ ~Behind(e) THEN Append(tape, o) ELSE tape
  PROVE  OnTape(e, o)
<1>1. TypeOK /\ WalksInOrder
  BY DEF Inv, PacketsInv
<1>2. tape \in Seq(Draw(graph))
  BY <1>1 DEF WalksInOrder, Draw, Positions, Position
<1>3. /\ DOMAIN tape = 1 .. Len(tape) /\ Len(tape) \in Nat
      /\ \A i \in 1 .. Len(tape) : tape[i].walk.ended => tape[i].obs = "END"
  BY <1>1, <1>2 DEF WalksInOrder
<1>4. walk[e].pos \in 0 .. Len(tape)
  BY <1>1, EndTypes
<1>5. PICK D : D = Draw(graph)
  OBVIOUS
<1>6. CASE Compared(e) /\ ~Behind(e)
  <2>1. tape' = Append(tape, o) /\ tape \in Seq(D) /\ o \in D
    BY <1>2, <1>5, <1>6
  <2>2. /\ tape' \in Seq(D) /\ Len(tape') = Len(tape) + 1
        /\ \A i \in 1 .. Len(tape) : tape'[i] = tape[i]
        /\ tape'[Len(tape) + 1] = o
    BY <2>1
  <2>3. walk[e].pos = Len(tape)
    BY <1>3, <1>4, <1>6 DEF Behind
  <2>4. \A i \in 1 .. Len(tape') : tape'[i].walk.ended => tape'[i].obs = "END"
    <3>1. ASSUME NEW i \in 1 .. Len(tape'), tape'[i].walk.ended PROVE tape'[i].obs = "END"
      <4>1. i \in 1 .. Len(tape) \/ i = Len(tape) + 1
        BY <1>3, <2>2, <3>1
      <4> QED
        BY <1>3, <2>2, <3>1, <4>1
    <3> QED
      BY <3>1
  <2> QED
    BY <1>3, <1>5, <2>2, <2>3, <2>4 DEF OnTape
<1>7. CASE ~(Compared(e) /\ ~Behind(e))
  <2>1. tape' = tape
    BY <1>7
  <2>2. Compared(e) => walk[e].pos + 1 <= Len(tape) /\ tape[walk[e].pos + 1] = o
    <3>1. Compared(e) => Behind(e)
      BY <1>7
    <3> QED
      BY <1>3, <1>4, <3>1 DEF Behind, Draws
  <2>3. tape \in Seq(D)
    BY <1>2, <1>5
  <2>4. /\ tape' \in Seq(D) /\ Len(tape') = Len(tape)
        /\ \A i \in 1 .. Len(tape) : tape'[i] = tape[i]
    BY <2>1, <2>3, Zenon
  <2>6. Len(tape) <= Len(tape')
    <3>1. PICK n \in Nat : n = Len(tape)
      BY <1>3
    <3>2. n = Len(tape') /\ n <= n
      BY <2>4, <3>1
    <3> QED
      BY <3>1, <3>2, Zenon
  <2>5. \A i \in 1 .. Len(tape') : tape'[i].walk.ended => tape'[i].obs = "END"
    BY <1>3, <2>1
  <2> QED
    BY <1>3, <1>5, <2>1, <2>2, <2>4, <2>5, <2>6 DEF OnTape
<1> QED
  BY <1>6, <1>7

\* Where a round of the loop leaves the walk.
Advances(e, o) ==
  /\ walk' \in [Ends -> [state : DOMAIN graph.vertices, ended : BOOLEAN, first : BOOLEAN, pos : Nat]]
  /\ \A x \in Ends : x # e => walk'[x] = walk[x]
  /\ walk'[e].pos = IF Compared(e) THEN walk[e].pos + 1 ELSE walk[e].pos
  /\ want[e].bytes = 0 => /\ walk'[e].state = o.walk.state /\ walk'[e].ended = o.walk.ended
                          /\ walk'[e].first = walk[e].first

\* A round moves the walk of its end one observation on, and that of the other end not.
LEMMA RoundAdvances ==
  ASSUME Inv, stage = "run", NEW e \in Ends, NEW o \in Draw(graph),
         walk' = [walk EXCEPT ![e] = Advance(e, o)]
  PROVE  Advances(e, o)
<1>1. TypeOK /\ WalksInOrder /\ IsGraph(graph) /\ Valid(graph)
  BY DEF Inv, PacketsInv, WalksInOrder
<1>2. startVertexIndex(graph) \in DOMAIN graph.vertices
  BY <1>1, StartVertex
<1>3. PICK W : W = [state : DOMAIN graph.vertices, ended : BOOLEAN, first : BOOLEAN, pos : Nat]
  OBVIOUS
<1>4. walk \in [Ends -> W]
  <2>1. \A x \in Ends : walk[x] \in WalkType /\ walk[x].state \in DOMAIN graph.vertices
    BY <1>1, EndTypes DEF TypeOK
  <2>2. Len(tape) \in Nat
    BY <1>1 DEF WalksInOrder
  <2>3. \A x \in Ends : walk[x] \in W
    BY <1>3, <2>1, <2>2 DEF WalkType
  <2>4. walk \in [Ends -> WalkType]
    BY <1>1 DEF TypeOK, WalkType
  <2> QED
    BY <2>3, <2>4
<1>5. o.walk \in Position(graph)
  BY DEF Draw
<1>6. PICK w : w = IF o.obs = "END" /\ Repeats(e) THEN ResetWalk(graph, o.walk) ELSE o.walk
  OBVIOUS
<1>7. w \in Position(graph) /\ (want[e].bytes = 0 => w = o.walk)
  <2>1. ResetWalk(graph, o.walk) \in Position(graph)
    BY <1>2, <1>5 DEF ResetWalk, Position
  <2> QED
    BY <1>5, <1>6, <2>1 DEF Repeats
<1>8. PICK f \in BOOLEAN : f = (walk[e].first /\ ~(o.obs = "END" /\ Repeats(e)))
  OBVIOUS
<1>9. want[e].bytes = 0 => f = walk[e].first
  <2>1. walk[e].first \in BOOLEAN
    BY <1>1, EndTypes
  <2> QED
    BY <1>8, <2>1 DEF Repeats
<1>10. PICK p : p = IF Compared(e) THEN walk[e].pos + 1 ELSE walk[e].pos
  OBVIOUS
<1>11. p \in Nat
  BY <1>3, <1>4, <1>10
<1>12. PICK n : n = [state |-> w.state, ended |-> w.ended, first |-> f, pos |-> p]
  OBVIOUS
<1>13. /\ n \in W /\ n.pos = p /\ n.first = f /\ n.state = w.state /\ n.ended = w.ended
  BY <1>3, <1>7, <1>8, <1>11, <1>12 DEF Position
<1>14. Advance(e, o) = n
  BY <1>6, <1>8, <1>10, <1>12 DEF Advance
<1>15. walk' \in [Ends -> W] /\ walk'[e] = n /\ \A x \in Ends : x # e => walk'[x] = walk[x]
  BY <1>4, <1>13, <1>14
<1> QED
  BY <1>3, <1>7, <1>9, <1>10, <1>13, <1>15 DEF Advances

\* What a round of the loop announces.
Announces(e, o) ==
  /\ expected' \in [Ends -> 0 .. MaxExpected]
  /\ \A x \in Ends : x # e => expected'[x] = expected[x]
  /\ Unsized => expected'[e] = expected[e] + (IF o.obs = Own(Peer(e)) THEN PacketSize ELSE 0)

\* A round adds a packet to what its end expects just when the packet is the peer's.
LEMMA RoundAnnounces ==
  ASSUME Inv, NEW e \in Ends, NEW o, Room(e, o),
         expected' = [expected EXCEPT ![e] =
           IF o.obs = Own(Peer(e)) THEN Min({MaxExpected, @ + PacketSize}) ELSE @]
  PROVE  Announces(e, o)
<1>1. /\ expected \in [Ends -> 0 .. MaxExpected] /\ MaxExpected \in Nat /\ PacketSize \in Nat
      /\ expected[e] \in 0 .. MaxExpected /\ expected[e] \in Nat
  BY EndTypes, PacketsAssumption DEF Inv, PacketsInv, TypeOK
<1>2. PICK s : s = expected[e] + PacketSize
  OBVIOUS
<1>3. s \in Int /\ s \in Nat /\ MaxExpected \in Int
  BY <1>1, <1>2
<1>4. PICK m : m = Min({MaxExpected, s})
  OBVIOUS
<1>5. m \in {MaxExpected, s} /\ m <= MaxExpected /\ m <= s
  BY <1>3, <1>4, MinPair
<1>6. m \in 0 .. MaxExpected /\ (s <= MaxExpected => m = s)
  BY <1>1, <1>3, <1>5
<1>7. PICK n : n = IF o.obs = Own(Peer(e)) THEN m ELSE expected[e]
  OBVIOUS
<1>8. expected' = [expected EXCEPT ![e] = n]
  BY <1>1, <1>2, <1>4, <1>7
<1>9. n \in 0 .. MaxExpected
  BY <1>1, <1>6, <1>7
<1>10. Unsized => n = expected[e] + (IF o.obs = Own(Peer(e)) THEN PacketSize ELSE 0)
  BY <1>1, <1>2, <1>6, <1>7 DEF Room
<1>11. /\ expected' \in [Ends -> 0 .. MaxExpected] /\ expected'[e] = n
       /\ \A x \in Ends : x # e => expected'[x] = expected[x]
  BY <1>1, <1>8, <1>9
<1> QED
  BY <1>10, <1>11 DEF Announces

\* The round leaves the walks in order: both ends have what is on the tape.
LEMMA RoundWalks ==
  ASSUME Inv, NEW e \in Ends, NEW o \in Draw(graph), NEW over, o \in Draws(e),
         o.walk.ended => o.obs = "END", loop[e].on, UNCHANGED <<want, awaits>>,
         Rounds(e, o, over), OnTape(e, o), Advances(e, o), Announces(e, o)
  PROVE  WalkedTogether'
<1>1. TypeOK /\ WalksInOrder /\ WalkedTogether /\ SendingInOrder(e)
  BY DEF Inv, PacketsInv
<1>2. Unsized' <=> Unsized
  BY SizesStay
<1>3. PICK p : p = PacketSize
  OBVIOUS
<1>4. p \in Nat
  BY <1>3, PacketsAssumption
<1>5. /\ \A dir, n : Emitted(dir, n) = p * Packets(tape, dir, n)
      /\ \A dir, n : Emitted(dir, n)' = p * Packets(tape', dir, n)
  BY <1>3 DEF Emitted, Packets
<1> DEFINE Together(x) ==
             /\ walk'[x].first
             /\ sent'[x] + loop'[x].size = p * Packets(tape', Own(x), walk'[x].pos)
             /\ expected'[x] = p * Packets(tape', Own(Peer(x)), walk'[x].pos)
             /\ IF walk'[x].pos = 0 THEN ~walk'[x].ended
                ELSE Here(x)' = tape'[walk'[x].pos].walk
<1> SUFFICES ASSUME Unsized
             PROVE  /\ \A x \in Ends : Together(x)
                    /\ \A i \in DOMAIN tape' : tape'[i].walk.ended => i = Len(tape')
  BY <1>2, <1>5 DEF WalkedTogether
<1>6. /\ DOMAIN tape = 1 .. Len(tape) /\ Len(tape) \in Nat
      /\ DOMAIN tape' = 1 .. Len(tape') /\ Len(tape') \in Nat /\ Len(tape) <= Len(tape')
      /\ \A i \in 1 .. Len(tape) : tape'[i] = tape[i]
  <2>1. tape' \in Seq(Draw(graph))
    BY DEF OnTape
  <2>2. DOMAIN tape' = 1 .. Len(tape')
    BY <2>1
  <2>3. DOMAIN tape = 1 .. Len(tape) /\ Len(tape) \in Nat
    BY <1>1 DEF WalksInOrder
  <2> QED
    BY <2>2, <2>3 DEF OnTape
<1>7. ASSUME NEW x \in Ends
      PROVE  /\ walk[x].first /\ walk[x].pos \in 0 .. Len(tape) /\ walk[x].pos \in Nat
             /\ sent[x] + loop[x].size = p * Packets(tape, Own(x), walk[x].pos)
             /\ expected[x] = p * Packets(tape, Own(Peer(x)), walk[x].pos)
             /\ IF walk[x].pos = 0 THEN ~walk[x].ended ELSE Here(x) = tape[walk[x].pos].walk
             /\ walk[x].ended \in BOOLEAN /\ sent[x] \in Nat /\ loop[x].size \in Nat
             /\ want[x].bytes = 0 /\ ~want[x].zero
  <2>1. /\ walk[x].pos \in 0 .. Len(tape) /\ walk[x].ended \in BOOLEAN /\ sent[x] \in Nat
        /\ loop[x].size \in Nat /\ want[x].bytes \in Nat
    BY <1>1, EndTypes
  <2>2. ~Sized(x)
    BY DEF Unsized
  <2>3. want[x].bytes = 0 /\ ~want[x].zero
    BY <2>1, <2>2 DEF Sized, IsSized
  <2>4. walk[x].pos \in Nat
    BY <1>6, <2>1
  <2> QED
    BY <1>1, <1>5, <2>1, <2>3, <2>4 DEF WalkedTogether
<1>8. ~walk[e].ended
  <2>1. ~doneSending(e)
    BY <1>1 DEF SendingInOrder
  <2> QED
    BY <1>7, <2>1 DEF doneSending
\* What the part of the tape that either end has walked says stays.
<1>9. ASSUME NEW n \in 0 .. Len(tape), NEW dir
      PROVE  Packets(tape', dir, n) = Packets(tape, dir, n)
  <2>1. n \in Nat /\ \A i \in 1 .. n : tape'[i] = tape[i]
    BY <1>6
  <2> QED
    BY <2>1, PacketsEqual
<1>10. ASSUME NEW x \in Ends, x # e
       PROVE  Together(x)
  <2>1. walk'[x] = walk[x] /\ Here(x)' = Here(x)
    BY <1>10 DEF Advances, Here
  <2>2. sent'[x] = sent[x] /\ loop'[x] = loop[x] /\ expected'[x] = expected[x]
    BY <1>10 DEF Rounds, Announces
  <2>3. /\ Packets(tape', Own(x), walk[x].pos) = Packets(tape, Own(x), walk[x].pos)
        /\ Packets(tape', Own(Peer(x)), walk[x].pos) = Packets(tape, Own(Peer(x)), walk[x].pos)
    BY <1>7, <1>9
  <2>4. walk[x].pos # 0 => tape'[walk[x].pos] = tape[walk[x].pos]
    BY <1>6, <1>7
  <2> QED
    BY <1>7, <2>1, <2>2, <2>3, <2>4
<1>11. want[e].bytes = 0
  BY <1>7
<1>12. /\ walk'[e].state = o.walk.state /\ walk'[e].ended = o.walk.ended /\ walk'[e].first
       /\ walk'[e].pos = IF Compared(e) THEN walk[e].pos + 1 ELSE walk[e].pos
  BY <1>7, <1>11 DEF Advances
<1>13. /\ sent'[e] + loop'[e].size = sent[e] + loop[e].size + (IF o.obs = Own(e) THEN p ELSE 0)
       /\ expected'[e] = expected[e] + (IF o.obs = Own(Peer(e)) THEN p ELSE 0)
  <2>1. PICK s : s = RoundSize(e, o)
    OBVIOUS
  <2>2. s \in Nat /\ s = loop[e].size + (IF o.obs = Own(e) THEN p ELSE 0)
    BY <1>3, <2>1 DEF Rounds, RoundSize
  <2>3. over => loop'[e].size = 0 /\ sent'[e] = sent[e] + s
    BY <1>11, <2>1 DEF Rounds
  <2>4. ~over => loop'[e].size = s /\ sent'[e] = sent[e]
    BY <2>1 DEF Rounds
  <2>5. sent'[e] + loop'[e].size = sent[e] + s
    <3>1. sent[e] \in Nat /\ over \in BOOLEAN
      BY <1>7 DEF Rounds
    <3> QED
      BY <2>2, <2>3, <2>4, <3>1
  <2>6. sent[e] + s = sent[e] + loop[e].size + (IF o.obs = Own(e) THEN p ELSE 0)
    BY <1>4, <1>7, <2>2
  <2>7. expected'[e] = expected[e] + (IF o.obs = Own(Peer(e)) THEN p ELSE 0)
    BY <1>3 DEF Announces
  <2> QED
    BY <2>5, <2>6, <2>7
<1>14. o.walk = [state |-> o.walk.state, ended |-> o.walk.ended]
  <2>1. o.walk \in Position(graph)
    BY DEF Draw
  <2> QED
    BY <2>1 DEF Position
<1>15. Here(e)' = o.walk
  BY <1>12, <1>14 DEF Here
<1>16. CASE Compared(e)
  <2>1. PICK n \in Nat : n = walk[e].pos
    BY <1>7
  <2>2. /\ walk'[e].pos = n + 1 /\ n + 1 <= Len(tape') /\ tape'[n + 1] = o /\ n \in 0 .. Len(tape)
        /\ n + 1 # 0
    BY <1>7, <1>12, <1>16, <2>1 DEF OnTape
  <2>3. ASSUME NEW dir
        PROVE  p * Packets(tape', dir, n + 1)
                 = p * Packets(tape, dir, n) + (IF o.obs = dir THEN p ELSE 0)
    <3>1. PICK k : k = Packets(tape, dir, n)
      OBVIOUS
    <3>2. k \in Nat
      BY <3>1, PacketsNat
    <3>3. Packets(tape', dir, n) = k
      BY <1>9, <2>2, <3>1
    <3>4. Packets(tape', dir, n + 1) = k + (IF o.obs = dir THEN 1 ELSE 0)
      BY <2>2, <3>3, PacketsNext
    <3>5. p * (k + 1) = p * k + p /\ p * k \in Nat
      BY <1>4, <3>2, Times
    <3> QED
      BY <1>4, <3>1, <3>2, <3>4, <3>5
  <2>4. /\ sent'[e] + loop'[e].size = p * Packets(tape', Own(e), n + 1)
        /\ expected'[e] = p * Packets(tape', Own(Peer(e)), n + 1)
    BY <1>7, <1>13, <2>1, <2>3
  <2>5. ASSUME NEW i \in DOMAIN tape', tape'[i].walk.ended PROVE i = Len(tape')
    <3>1. CASE Len(tape') = Len(tape)
      BY <1>1, <1>6, <2>5, <3>1 DEF WalkedTogether
    <3>2. CASE Len(tape') # Len(tape)
      <4>1. Len(tape') = Len(tape) + 1 /\ n = Len(tape)
        BY <2>1, <3>2 DEF OnTape
      <4>2. i # Len(tape') => i \in 1 .. Len(tape)
        BY <1>6, <2>5, <4>1
      <4>3. ASSUME i \in 1 .. Len(tape) PROVE FALSE
        <5>1. i \in DOMAIN tape /\ tape[i].walk.ended
          BY <1>6, <2>5, <4>3
        <5>2. i = Len(tape)
          BY <1>1, <5>1 DEF WalkedTogether
        <5>3. walk[e].pos = i /\ walk[e].pos # 0
          BY <1>6, <2>1, <4>1, <4>3, <5>2
        <5>4. Here(e) = tape[i].walk
          BY <1>7, <5>3
        <5> QED
          BY <1>8, <5>1, <5>4 DEF Here
      <4> QED
        BY <4>2, <4>3
    <3> QED
      BY <3>1, <3>2
  <2>6. Together(e)
    BY <1>12, <1>15, <2>2, <2>4
  <2> HIDE DEF Together
  <2> QED
    BY <1>10, <2>5, <2>6
<1>17. CASE ~Compared(e)
  <2>1. ~Bounded
    BY DEF Bounded, Unsized
  <2>2. Rests(e) /\ ~Behind(e)
    BY <1>7, <1>17, <2>1 DEF Compared, Behind
  <2>3. o = Premature(Here(e))
    BY <2>2 DEF Draws, Rests
  <2>4. o.obs = "END" /\ o.walk = Here(e)
    BY <2>3 DEF Premature, Outcome
  <2>5. walk'[e].pos = walk[e].pos /\ Here(e)' = Here(e) /\ walk'[e].ended = walk[e].ended
    BY <1>12, <1>15, <1>17, <2>4 DEF Here
  <2>6. sent'[e] + loop'[e].size = sent[e] + loop[e].size /\ expected'[e] = expected[e]
    <3>1. o.obs # Own(e) /\ o.obs # Own(Peer(e))
      BY <2>4, TwoEnds
    <3>2. sent[e] + loop[e].size \in Nat /\ expected[e] \in Nat
      BY <1>1, <1>7, EndTypes
    <3> QED
      BY <1>13, <3>1, <3>2
  <2>7. tape' = tape
    BY <1>17, <2>2 DEF Rounds
  <2>8. \A i \in DOMAIN tape' : tape'[i].walk.ended => i = Len(tape')
    BY <1>1, <2>7 DEF WalkedTogether
  <2>9. /\ sent'[e] + loop'[e].size = p * Packets(tape', Own(e), walk'[e].pos)
        /\ expected'[e] = p * Packets(tape', Own(Peer(e)), walk'[e].pos)
    BY <1>7, <2>5, <2>6, <2>7
  <2>10. IF walk'[e].pos = 0 THEN ~walk'[e].ended ELSE Here(e)' = tape'[walk'[e].pos].walk
    BY <1>7, <2>5, <2>7
  <2>11. Together(e)
    BY <1>12, <2>9, <2>10
  <2> HIDE DEF Together
  <2> QED
    BY <1>10, <2>8, <2>11
<1> QED
  BY <1>16, <1>17

\* A round of the loop keeps what is sent within the size.
LEMMA RoundSends ==
  ASSUME Inv, NEW e \in Ends, NEW o \in Draw(graph), NEW over,
         o.walk.ended => o.obs = "END", Sending(e), loop[e].on, UNCHANGED <<want, payload>>,
         Rounds(e, o, over), Advances(e, o)
  PROVE  /\ SendingInOrder(e)' /\ sent[e] <= sent'[e]
         /\ \A x \in Ends : x # e => SendingInOrder(x)'
<1>1. TypeOK /\ \A x \in Ends : SendingInOrder(x)
  BY DEF Inv, PacketsInv
<1>2. /\ want[e].bytes \in Nat /\ sent[e] \in Nat /\ loop[e].limit \in Nat /\ over \in BOOLEAN
      /\ ~payload'[e]
  BY <1>1, EndTypes, PacketsAssumption DEF Sending, Rounds
<1>3. PICK b : b = want[e].bytes
  OBVIOUS
<1>4. PICK l : l = loop[e].limit
  OBVIOUS
<1>5. PICK len : len = NewBufLen(e, RoundSize(e, o))
  OBVIOUS
<1>6. /\ len \in Nat /\ (b > 0 => len <= l)
      /\ over => ~loop'[e].on /\ loop'[e].size = 0 /\ sent'[e] = sent[e] + len
      /\ ~over => loop'[e].on /\ loop'[e].limit = l /\ sent'[e] = sent[e]
  BY <1>3, <1>4, <1>5 DEF Rounds
<1>7. /\ ~doneSending(e) /\ (b > 0 => sent[e] + l <= b) /\ b \in Nat /\ l \in Nat
      /\ want'[e] = want[e]
  BY <1>1, <1>2, <1>3, <1>4 DEF SendingInOrder
<1>8. ~(b = 0 /\ want[e].zero)
  BY <1>3, <1>7 DEF doneSending
<1>9. SendingInOrder(e)'
  <2>1. CASE over
    <3>1. b > 0 => sent'[e] <= b
      BY <1>2, <1>6, <1>7, <2>1
    <3> QED
      BY <1>2, <1>3, <1>6, <1>7, <1>8, <2>1, <3>1 DEF SendingInOrder
  <2>2. CASE ~over
    <3>1. ~doneSending(e)'
      <4>1. CASE b > 0
        BY <1>3, <1>6, <1>7, <2>2, <4>1 DEF doneSending
      <4>2. CASE b = 0
        <5>1. ~(o.obs = "END")
          BY <1>3, <2>2, <4>2 DEF Rounds, RoundStop
        <5>2. ~walk'[e].ended
          BY <1>3, <4>2, <5>1 DEF Advances
        <5> QED
          BY <1>3, <1>7, <1>8, <4>2, <5>2 DEF doneSending
      <4> QED
        BY <1>7, <4>1, <4>2
    <3>2. b > 0 => sent'[e] <= b /\ sent'[e] + l <= b
      BY <1>2, <1>6, <1>7, <2>2
    <3> QED
      BY <1>2, <1>3, <1>6, <1>7, <1>8, <2>2, <3>1, <3>2 DEF SendingInOrder
  <2> QED
    BY <1>2, <2>1, <2>2
<1>10. sent[e] <= sent'[e]
  BY <1>2, <1>6
<1>11. ASSUME NEW x \in Ends, x # e PROVE SendingInOrder(x)'
  <2>1. sent'[x] = sent[x] /\ loop'[x] = loop[x] /\ walk'[x] = walk[x] /\ payload'[x] = payload[x]
    BY <1>11 DEF Rounds, Advances
  <2> QED
    BY <1>1, <2>1, SendingStays
<1> QED
  BY <1>9, <1>10, <1>11

\* A round of the loop.
LEMMA RoundKeeps ==
  ASSUME Inv, NEW e \in Ends, NEW o \in Draws(e), Round(e, o)
  PROVE  Inv'
<1>1. /\ UNCHANGED <<file, stage, want, awaits, got, payload, closed, promise>>
      /\ stage = "run" /\ ~closed[e] /\ ~payload[e] /\ Sending(e) /\ loop[e].on
      /\ o.obs # "ABORT" /\ Room(e, o)
  BY DEF Round, Sending
<1>2. TypeOK /\ WalksInOrder /\ SizesAgree /\ \A x \in Ends : SendingInOrder(x) /\ ClosingInOrder(x)
  BY DEF Inv, PacketsInv
<1>3. o \in Draw(graph) /\ (o.walk.ended => o.obs = "END")
  BY <1>1, DrawsInOrder
<1>4. PICK over : Rounds(e, o, over)
  BY <1>3, RoundEffects
<1>5. OnTape(e, o)
  BY <1>3, <1>4, RoundTape DEF Rounds
<1>6. Advances(e, o)
  BY <1>1, <1>3, <1>4, RoundAdvances DEF Rounds
<1>7. Announces(e, o)
  BY <1>1, <1>4, RoundAnnounces DEF Rounds
<1>8. graph' = graph /\ Positions' = Positions
  BY <1>1 DEF graph, Positions
<1>9. TypeOK'
  <2>1. PICK S : S = DOMAIN graph.vertices
    OBVIOUS
  <2>2. S = 1 .. Len(graph.vertices) /\ Len(graph.vertices) \in Nat
    BY <1>2, <2>1, GraphIndices DEF WalksInOrder
  <2>3. walk' \in [Ends -> [state : S, ended : BOOLEAN, first : BOOLEAN, pos : Nat]]
    BY <1>6, <2>1 DEF Advances
  <2>4. ASSUME NEW x \in Ends PROVE walk'[x].pos \in 0 .. Len(tape')
    <3>1. walk[x].pos \in 0 .. Len(tape) /\ Len(tape) \in Nat
      BY <1>2, EndTypes DEF WalksInOrder
    <3>2. Len(tape') \in Nat /\ Len(tape) <= Len(tape')
      BY <1>5 DEF OnTape
    <3>3. x # e => walk'[x].pos = walk[x].pos
      BY <1>6 DEF Advances
    <3>4. walk'[e].pos = IF Compared(e) THEN walk[e].pos + 1 ELSE walk[e].pos
      BY <1>6 DEF Advances
    <3>5. Compared(e) => walk[e].pos + 1 <= Len(tape')
      BY <1>5 DEF OnTape
    <3> QED
      BY <3>1, <3>2, <3>3, <3>4, <3>5
  <2>5. walk' \in [Ends -> [state : 0 .. Len(graph.vertices), ended : BOOLEAN, first : BOOLEAN,
                            pos : 0 .. Len(tape')]]
    <3>1. ASSUME NEW x \in Ends
          PROVE  walk'[x] \in [state : 0 .. Len(graph.vertices), ended : BOOLEAN, first : BOOLEAN,
                               pos : 0 .. Len(tape')]
      <4>1. walk'[x] \in [state : S, ended : BOOLEAN, first : BOOLEAN, pos : Nat]
        BY <2>3
      <4>2. walk'[x].state \in 0 .. Len(graph.vertices)
        BY <2>2, <4>1
      <4> QED
        BY <2>4, <4>1, <4>2
    <3> QED
      BY <2>3, <3>1
  <2>6. \A x \in Ends : walk'[x].state \in DOMAIN graph.vertices
    BY <2>1, <2>3
  <2>7. /\ loop' \in [Ends -> LoopType] /\ sent' \in [Ends -> Nat] /\ waiting' \in [Ends -> BOOLEAN]
        /\ expected' \in [Ends -> 0 .. MaxExpected]
    BY <1>4, <1>7 DEF Rounds, Announces
  <2> QED
    BY <1>1, <1>2, <1>8, <2>5, <2>6, <2>7 DEF TypeOK, LoopType
<1>10. SizesAgree'
  BY <1>1, <1>2, SizesStay
<1>11. WalksInOrder'
  <2>1. tape' \in Seq(Draw(graph))
    BY <1>5 DEF OnTape
  <2>2. tape' \in Seq([obs : {"TO_SERVER", "TO_ORIGIN", "END"}, delay : 0 .. 2, walk : Positions])
    BY <2>1 DEF Draw, Positions, Position
  <2>3. DOMAIN tape' = 1 .. Len(tape')
    BY <2>1
  <2>4. \A i \in DOMAIN tape' : tape'[i].walk.ended => tape'[i].obs = "END"
    BY <1>5, <2>3 DEF OnTape
  <2> QED
    BY <1>1, <1>2, <1>8, <2>2, <2>4 DEF WalksInOrder
<1>12. /\ \A x \in Ends : SendingInOrder(x)'
       /\ sent[e] <= sent'[e]
  BY <1>1, <1>3, <1>4, <1>6, RoundSends
<1>13. WalkedTogether'
  BY <1>1, <1>3, <1>4, <1>5, <1>6, <1>7, RoundWalks
<1>14. ASSUME NEW x \in Ends PROVE ClosingInOrder(x)'
  <2>1. got[x] <= sent[Peer(x)] /\ Peer(x) \in Ends
    BY <1>2, TwoEnds DEF ClosingInOrder
  <2>2. got[x] \in Nat /\ sent[Peer(x)] \in Nat /\ sent'[Peer(x)] \in Nat
    BY <1>2, <1>9, <2>1 DEF TypeOK
  <2>3. sent[Peer(x)] <= sent'[Peer(x)]
    <3>1. Peer(x) # e => sent'[Peer(x)] = sent[Peer(x)]
      BY <1>4, <2>1 DEF Rounds
    <3> QED
      BY <1>12, <2>2, <3>1
  <2>4. got'[x] <= sent'[Peer(x)]
    BY <1>1, <2>1, <2>2, <2>3
  <2> QED
    BY <1>1, <1>2, <2>4 DEF ClosingInOrder, Sized
<1>15. ASSUME NEW x \in Ends, closed'[x]
       PROVE  got'[x] = sent'[Peer(x)] /\ (Unsized' => got'[x] = expected'[x])
  <2>1. closed[x] /\ x # e /\ x = Peer(e) /\ Peer(x) = e
    BY <1>1, <1>15, TwoEnds
  <2>2. payload[x] /\ (Sized(e) => payload[e]) /\ (Sized(x) /\ ~Sized(e) => closed[e])
    BY <1>2, <2>1 DEF ClosingInOrder
  <2>3. ~Sized(e) /\ ~Sized(x)
    BY <1>1, <2>2
  <2>4. Unsized /\ Unsized'
    <3>1. Unsized
      BY <2>1, <2>3, TwoEnds DEF Unsized
    <3> QED
      BY <1>1, <3>1, SizesStay
  <2>5. expected'[x] \in Nat /\ sent'[e] <= expected'[x]
    <3>1. payload'[x]
      BY <1>1, <2>2
    <3> QED
      BY <1>9, <1>11, <1>12, <1>13, <2>1, <2>4, <3>1, SumsNext
  <2>6. expected'[x] = expected[x]
    BY <1>7, <2>1 DEF Announces
  <2>7. got[x] = sent[e] /\ got[x] = expected[x]
    BY <2>1, <2>4 DEF Inv, ExactTransfer
  <2>8. sent[e] \in Nat /\ sent'[e] \in Nat
    BY <1>2, <1>9 DEF TypeOK
  <2> QED
    BY <1>1, <1>12, <2>1, <2>5, <2>6, <2>7, <2>8
<1>16. ExactTransfer'
  BY <1>15 DEF ExactTransfer
<1>17. AssertionsHold'
  BY <1>1 DEF AssertionsHold
<1> QED
  BY <1>9, <1>10, <1>11, <1>12, <1>13, <1>14, <1>16, <1>17 DEF Inv, PacketsInv

\* A step keeps the invariant.
LEMMA StepKeeps == Inv /\ [Next]_vars => Inv'
<1> SUFFICES ASSUME Inv, [Next]_vars PROVE Inv'
  OBVIOUS
<1>1. ASSUME NEW e \in Ends, Process(e) PROVE Inv'
  <2>1. ASSUME getObservation(e) PROVE Inv'
    <3>1. PICK o \in Draws(e) : Round(e, o) \/ Abort(e, o)
      BY <2>1 DEF getObservation
    <3> QED
      BY <3>1, RoundKeeps, AbortKeeps
  <2> QED
    BY <1>1, <2>1, BeginPayloadKeeps, ResumeKeeps, ReadPayloadKeeps, CloseKeeps DEF Process
<1>2. ASSUME UNCHANGED vars PROVE Inv'
  <2>1. UNCHANGED <<file, stage, want, awaits, walk, loop, tape, sent, got, expected, waiting,
                    payload, closed, promise>>
    BY <1>2 DEF vars
  <2>2. TypeOK /\ \A x \in Ends : SendingInOrder(x) /\ ClosingInOrder(x)
    BY DEF Inv, PacketsInv
  <2>3. TypeOK'
    BY <2>1, <2>2 DEF TypeOK, graph
  <2>4. SizesAgree' /\ WalksInOrder' /\ WalkedTogether'
    BY <2>1, SizesStay, WalksStay, WalkedStays DEF Inv, PacketsInv
  <2>5. ASSUME NEW x \in Ends PROVE SendingInOrder(x)' /\ ClosingInOrder(x)'
    BY <2>1, <2>2, SendingStays DEF ClosingInOrder, Sized
  <2>6. ExactTransfer' /\ AssertionsHold'
    BY <2>1, SizesStay DEF Inv, ExactTransfer, AssertionsHold, graph
  <2> QED
    BY <2>3, <2>4, <2>5, <2>6 DEF Inv, PacketsInv
<1> QED
  BY <1>1, <1>2, LoadKeeps DEF Next

\* Types, bounds and walks are in order in every reachable state.
LEMMA InvAlways == Spec => []Inv
<1>1. Init => Inv
  BY PacketsStart DEF Inv
<1> QED
  BY <1>1, StepKeeps, PTL DEF Spec

-----------------------------------------------------------------------------
(* The theorems.                                                           *)

\* The payload of a stream is in order, for every model, every pair of sizes and every
\* packet size: the ends mean the same sizes but for a zero of the server's own, what an
\* end sends stays within its size, the loop of writePayload leaves nothing unsent, and
\* without sizes both ends have sent and expect what their common walk says.
THEOREM PacketsInOrder == Spec => []PacketsInv
<1>1. Inv => PacketsInv
  BY DEF Inv
<1> QED
  BY <1>1, InvAlways, PTL

\* An end that reports success has every byte that the other end sends, then and later,
\* and without sizes this is what its own walk announced.
THEOREM TransferIsExact == Spec => []ExactTransfer
<1>1. Inv => ExactTransfer
  BY DEF Inv
<1> QED
  BY <1>1, InvAlways, PTL

\* A validated model trips an assertion of tgen-markovmodel.c only through an emission edge
\* that leads to no observation or a distribution that generates a NaN.
THEOREM ValidModelsWalk == Spec => []AssertionsHold
<1>1. Inv => AssertionsHold
  BY DEF Inv
<1> QED
  BY <1>1, InvAlways, PTL
=============================================================================
