--------------------------- MODULE TGenMarkovModel ---------------------------
(***************************************************************************)
(* A Markov model: what src/src/tgen-markovmodel.c accepts when it loads   *)
(* one, and what one call of tgenmarkovmodel_getNextObservation may return *)
(* for some state of the pseudorandom generator.                           *)
(*                                                                         *)
(* A graph is a record of vertices and edges.  A name is the class of      *)
(* names that vertexIDIsEqual tells apart: it compares only as many bytes  *)
(* as "start", "+", "-" or "F" has, ignoring case, so "F" stands for every *)
(* name that begins with an F or an f.  A number is a class of doubles:    *)
(*   -2 minus infinity    -1 negative    0 zero    1 small    2 large      *)
(*    3 plus infinity    NaN not a number, or an attribute that is not set *)
(* A delay of 1 is at most TGEN_MMODEL_MICROS_AT_ONCE, and one of 2 more.  *)
(***************************************************************************)
EXTENDS Integers, Sequences, FiniteSetsExt

CONSTANT NaN

Doubles == -2 .. 3

ASSUME NaNAssumption == NaN \notin Doubles

MinusInf == -2
PlusInf == 3

Names == {"start", "+", "-", "F", "other", "none"}
VertexTypes == {"state", "observation", "other", "none"}
EdgeTypes == {"transition", "emission", "other", "none"}
Dists == {"normal", "lognormal", "exponential", "pareto", "uniform", "other", "none"}

\* The two parameters are location and scale, rate, scale and shape, or low and high.
IsGraph(g) ==
  /\ DOMAIN g = {"typeKey", "vertices", "edges"}
  /\ g.typeKey \in BOOLEAN
  /\ g.vertices \in Seq([name : Names, type : VertexTypes])
  /\ g.edges \in Seq([from : DOMAIN g.vertices, to : DOMAIN g.vertices, type : EdgeTypes,
                      weight : (Doubles \ {-2, 3}) \cup {NaN}, dist : Dists,
                      a : Doubles \cup {NaN}, b : Doubles \cup {NaN}])
-----------------------------------------------------------------------------
(* Validation: _tgenmarkovmodel_new.                                       *)

vertexIDIsEmission(name) == name \in {"+", "-", "F"}

checkVertexAttributes(g, v) ==
  /\ v.name # "none"
  /\ g.typeKey
  /\ \/ v.name = "start"
     \/ v.type = "state"
     \/ v.type = "observation" /\ vertexIDIsEmission(v.name)

Starts(g) == {i \in DOMAIN g.vertices : g.vertices[i].name = "start"}

validateVertices(g) ==
  /\ \A i \in DOMAIN g.vertices : checkVertexAttributes(g, g.vertices[i])
  /\ Starts(g) # {}

\* The index that validateVertices leaves in startVertexIndex.
startVertexIndex(g) == Max(Starts(g))

Exists(x) == x # NaN
NonNegative(x) == Exists(x) /\ x >= 0
Positive(x) == Exists(x) /\ x > 0
Finite(x) == Exists(x) /\ MinusInf < x /\ x < PlusInf

\* Mutant of checkParams: the scale of a Pareto distribution may be negative.
checkParams_anyScale(e) ==
  CASE e.dist \in {"normal", "lognormal"} -> NonNegative(e.a) /\ NonNegative(e.b)
    [] e.dist = "exponential"             -> Positive(e.a)
    [] e.dist = "pareto"                  -> Exists(e.a) /\ Positive(e.b)
    [] e.dist = "uniform"                 -> Finite(e.a) /\ Finite(e.b) /\ e.a <= e.b
    [] OTHER                              -> FALSE

\* checkEdgeAttributeLocation, Scale, Rate, Shape and Uniform, by distribution.
checkParams(e) ==
  CASE e.dist \in {"normal", "lognormal"} -> NonNegative(e.a) /\ NonNegative(e.b)
    [] e.dist = "exponential"             -> Positive(e.a)
    [] e.dist = "pareto"                  -> NonNegative(e.a) /\ Positive(e.b)
    [] e.dist = "uniform"                 -> Finite(e.a) /\ Finite(e.b) /\ e.a <= e.b
    [] OTHER                              -> FALSE

\* The types of the vertices are not looked at, only their names.
checkEdgeAttributes(g, e) ==
  LET from == g.vertices[e.from].name
      to == g.vertices[e.to].name
  IN /\ from # "none" /\ to # "none"
     /\ NonNegative(e.weight)
     /\ ~vertexIDIsEmission(from)
     /\ \/ e.type = "transition" /\ ~vertexIDIsEmission(to)
        \/ e.type = "emission" /\ vertexIDIsEmission(to) /\ checkParams(e)

validateEdges(g) == \A i \in DOMAIN g.edges : checkEdgeAttributes(g, g.edges[i])

Valid(g) == validateVertices(g) /\ validateEdges(g)

\* _tgenmarkovmodel_loadGraph: what is there can be read, and is graphml.
loadGraph(file) == file.readable

\* tgenmarkovmodel_newFromPath, or newFromString, returns a model.
newFrom(file) == loadGraph(file) /\ Valid(file.graph)

\* The shape of the internal models: a start, and one state with these emissions.
InternalModel(observations, dist, a, b) ==
  LET edge(i, j) == [from |-> i, to |-> j, type |-> "transition", weight |-> 1,
                     dist |-> "none", a |-> NaN, b |-> NaN]
  IN [typeKey |-> TRUE,
      vertices |-> <<[name |-> "other", type |-> "state"], [name |-> "start", type |-> "state"]>>
                   \o [k \in DOMAIN observations |->
                         [name |-> observations[k], type |-> "observation"]],
      edges |-> <<edge(1, 1), edge(2, 1)>>
                \o [k \in DOMAIN observations |->
                      [edge(1, k + 2) EXCEPT !.type = "emission", !.dist = dist,
                                             !.a = a, !.b = b]]]

\* The packet model that tgen uses without a packetmodelpath: packets of both
\* directions, as often and at a high rate.
DefaultPacketMarkovModel == InternalModel(<<"-", "+">>, "exponential", 2, NaN)

\* The models of streams and of flows: one after the other, with long delays.
DefaultStreamMarkovModel == InternalModel(<<"+">>, "normal", 2, 2)
DefaultFlowMarkovModel == InternalModel(<<"+">>, "normal", 2, 2)
-----------------------------------------------------------------------------
(* Generation: tgenmarkovmodel_getNextObservation.  The walk is at the     *)
(* vertex walk.state, and walk.ended is foundEndState.                     *)

NewWalk(g) == [state |-> startVertexIndex(g), ended |-> FALSE]

\* tgenmarkovmodel_reset; the generator's state stays where it is.
ResetWalk(g, walk) == [walk EXCEPT !.state = startVertexIndex(g), !.ended = FALSE]

Incident(g, v, type) == {i \in DOMAIN g.edges : g.edges[i].from = v /\ g.edges[i].type = type}

\* The weight of a set of edges, times two.
Weight(g, edges) == 2 * MapThenSumSet(LAMBDA i : g.edges[i].weight, edges)

\* The edges that _tgenmarkovmodel_chooseEdge may choose: the first one with
\* which the cumulative weight reaches the random value.  That value is below the
\* total weight, and 0 if that is 0; an odd one stands for all values between two
\* weights, an even one for a weight itself.
chooseEdge(g, v, type) ==
  LET edges == Incident(g, v, type) IN
  {i \in edges :
     LET before == Weight(g, {j \in edges : j < i})
         cumulative == before + 2 * g.edges[i].weight
     IN \E random \in {0} \cup 0 .. Weight(g, edges) - 1 :
          cumulative >= random /\ (before < random \/ i = Min(edges))}

\* location + scale * x, for x of either sign.
NormalValues(location, scale) ==
  CASE location = PlusInf /\ scale = PlusInf -> {PlusInf, NaN}
    [] location = PlusInf                    -> {PlusInf}
    [] scale = PlusInf                       -> {MinusInf, PlusInf}
    [] scale = 0                             -> {location}
    [] OTHER                                 -> -1 .. 2

ExpValues(x) ==
  CASE x = NaN      -> {NaN}
    [] x = MinusInf -> {0}
    [] x = PlusInf  -> {PlusInf}
    [] x = -1       -> {0, 1}
    [] OTHER        -> {1, 2, PlusInf}

\* scale / u^(1/shape): the power of a small shape may underflow to 0.
ParetoValues(scale, shape) ==
  CASE scale = 0 /\ shape = 1          -> {0, NaN}
    [] shape = PlusInf \/ scale = 0    -> {scale}
    [] OTHER                           -> scale .. PlusInf

\* -log(u)/rate is at most small if the rate is large.
GeneratedValues(e) ==
  CASE e.dist = "normal"      -> NormalValues(e.a, e.b)
    [] e.dist = "lognormal"   -> UNION {ExpValues(x) : x \in NormalValues(e.a, e.b)}
    [] e.dist = "exponential" -> 0 .. (PlusInf - e.a)
    [] e.dist = "pareto"      -> ParetoValues(e.a, e.b)
    [] e.dist = "uniform"     -> e.a .. e.b

\* What the assertions of _tgenmarkovmodel_generateDelay demand of the edge.
DelayAsserts(e) ==
  CASE e.dist \in {"normal", "lognormal"} -> NonNegative(e.a) /\ NonNegative(e.b)
    [] e.dist = "exponential"             -> Positive(e.a)
    [] e.dist = "pareto"                  -> NonNegative(e.a) /\ Positive(e.b)
    [] e.dist = "uniform"                 -> /\ Exists(e.a) /\ e.a > MinusInf
                                             /\ Exists(e.b) /\ e.b < PlusInf
                                             /\ e.a <= e.b
    [] OTHER                              -> FALSE

\* _tgenmarkovmodel_generateDelay: rounded, clamped below at 0 and above at the
\* ceiling.  NaN is an assertion that fails: no integer equals the rounding of a
\* NaN, so that the conversion does not round-trip.
Delays(e) ==
  IF ~DelayAsserts(e) THEN {NaN}
  ELSE {IF v = NaN THEN NaN ELSE Max({0, Min({v, 2})}) : v \in GeneratedValues(e)}

Outcome(obs, delay, walk) == [obs |-> obs, delay |-> delay, walk |-> walk]

\* _tgenmarkovmodel_vertexToObservation, for a vertex that passed its assertion.
Observation(name) ==
  CASE name = "-" -> "TO_ORIGIN" [] name = "+" -> "TO_SERVER" [] OTHER -> "END"

\* An emission edge i was chosen in the state s.
EmissionOutcomes(g, s, i) ==
  LET v == g.vertices[g.edges[i].to]
      obs == Observation(v.name)
  IN {IF v.type # "observation" \/ d = NaN
      THEN Outcome("ABORT", 0, [state |-> s, ended |-> FALSE])
      ELSE Outcome(obs, d, [state |-> s, ended |-> obs = "END"]) : d \in Delays(g.edges[i])}

\* An END without an end state: no edge could be chosen.
Premature(walk) == Outcome("END", 0, walk)

getNextObservation(g, walk) ==
  LET transitions == chooseEdge(g, walk.state, "transition") IN
  IF walk.ended \/ transitions = {} THEN {Premature(walk)}
  ELSE UNION {LET s == g.edges[t].to
                  emissions == chooseEdge(g, s, "emission")
              IN IF emissions = {} THEN {Premature([walk EXCEPT !.state = s])}
                 ELSE UNION {EmissionOutcomes(g, s, i) : i \in emissions}
              : t \in transitions}

\* The internal models are valid, as createMarkovModel relies on, and never end: a
\* flow or a traffic action without a model of its own is never complete.
ASSUME InternalModelsAssumption ==
  \A g \in {DefaultPacketMarkovModel, DefaultStreamMarkovModel, DefaultFlowMarkovModel} :
    /\ IsGraph(g) /\ Valid(g)
    /\ \A v \in {1, 2} : \A o \in getNextObservation(g, [state |-> v, ended |-> FALSE]) :
         o.obs \in {"TO_SERVER", "TO_ORIGIN"} /\ o.walk = [state |-> 1, ended |-> FALSE]
=============================================================================
