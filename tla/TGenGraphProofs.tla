-------------------------- MODULE TGenGraphProofs ---------------------------
(***************************************************************************)
(* Proofs about TGenGraph: which configurations are accepted, what is      *)
(* known of the actions when they are used, how pools are counted, that    *)
(* each stream is what its options say, and that choices follow weights.   *)
(***************************************************************************)
EXTENDS TGenGraph, TGenInduction, SequenceTheorems

\* The configuration is never written to: neither are the functions of it.
LEMMA ConfStays ==
  ASSUME conf' = conf
  PROVE  /\ Vertices' = Vertices
         /\ \A v : TypeOf(v)' = TypeOf(v)
         /\ \A v, a : Text(v, a)' = Text(v, a)
         /\ \A v, a : Value(v, a)' = Value(v, a)
         /\ \A v, o : HasPool(v, o)' = HasPool(v, o)
         /\ \A v, o : Items(v, o)' = Items(v, o)
         /\ \A v : Options(v)' = Options(v)
         /\ \A v : NewPools(v)' = NewPools(v)
         /\ \A v : ModelPaths(v)' = ModelPaths(v)
         /\ \A v : ModeOK(v)' = ModeOK(v)
         /\ \A v : hasSelfLoop(v)' = hasSelfLoop(v)
         /\ \A v : VertexValid(v)' = VertexValid(v)
         /\ Connected' = Connected
         /\ OnlyKnownAttributes' = OnlyKnownAttributes
         /\ Valid' = Valid
<1>1. Vertices' = Vertices
  BY DEF Vertices
<1>2. \A v : TypeOf(v)' = TypeOf(v)
  BY DEF TypeOf
<1>3. \A v, a : Text(v, a)' = Text(v, a)
  BY DEF Text
<1>4. \A v, a : Value(v, a)' = Value(v, a)
  BY <1>2, <1>3 DEF Value
<1>5. KnownAttributes' = KnownAttributes
  BY <1>1 DEF KnownAttributes
<1>6. \A v, o : HasPool(v, o)' = HasPool(v, o)
  BY <1>2, <1>4, <1>5 DEF HasPool
<1>7. \A v, o : Items(v, o)' = Items(v, o)
  BY <1>4 DEF Items
<1>8. \A v : Options(v)' = Options(v)
  BY <1>2, <1>4, <1>6 DEF Options
<1>9. \A v : NewPools(v)' = NewPools(v)
  BY <1>2, <1>6, <1>7 DEF NewPools
<1>10. \A v : ModelPaths(v)' = ModelPaths(v)
  BY <1>2, <1>4 DEF ModelPaths
<1>11. \A v : ModeOK(v)' = ModeOK(v)
  BY <1>2, <1>4 DEF ModeOK
<1>12. \A v : hasSelfLoop(v)' = hasSelfLoop(v)
  BY DEF hasSelfLoop
<1>13. \A v : VertexValid(v)' = VertexValid(v)
  BY <1>2, <1>3, <1>10, <1>11 DEF VertexValid
<1>14. Connected' = Connected
  BY <1>1 DEF Connected
<1>15. OnlyKnownAttributes' = OnlyKnownAttributes
  BY <1>5 DEF OnlyKnownAttributes
<1>16. Valid' = Valid
  BY <1>1, <1>2, <1>6, <1>12, <1>13, <1>14, <1>15 DEF Valid
<1> QED
  BY <1>1, <1>2, <1>3, <1>4, <1>6, <1>7, <1>8, <1>9, <1>10, <1>11, <1>12, <1>13, <1>14,
     <1>15, <1>16

\* Everything after the graph was loaded.
Walk ==
  \/ tgendriver_new \/ cleanup
  \/ \E v \in Vertices : \/ ProcessStart(v) \/ ProcessPause(v) \/ checkEndConditions(v)
                         \/ \E s \in Slots : initiate(v, s)
  \/ \E g \in Slots : \/ createStream(g) \/ onComplete(g)
                      \/ \E s \in Slots : createFlow(g, s)
  \/ \E path \in files : Rewrite(path)

\* continueNextActions goes on or aborts.
LEMMA ContinueFrame ==
  ASSUME NEW v, continueNextActions(v), phase = "run"
  PROVE  phase' \in {"run", "aborted"}
BY DEF continueNextActions, Abort

\* So does NewGenerator.
LEMMA NewGeneratorFrame ==
  ASSUME NEW s, NEW kind, NEW at, NEW parent, NEW opts,
         NewGenerator(s, kind, at, parent, opts), phase = "run"
  PROVE  phase' \in {"run", "aborted"}
BY DEF NewGenerator, Abort

\* What the walk leaves of the parser's state: all of it, if no file is replaced.
LEMMA WalkFrame ==
  ASSUME Walk
  PROVE  /\ UNCHANGED <<conf, load>>
         /\ phase \in {"loaded", "run"} /\ phase' \in {"run", "ended", "freed", "aborted"}
         /\ UNCHANGED <<files, changed>> \/ (changed' = TRUE /\ files' \subseteq files)
<1>1. CASE tgendriver_new
  BY <1>1 DEF tgendriver_new, Abort
<1>2. CASE cleanup
  BY <1>2 DEF cleanup, Idle
<1>3. ASSUME NEW v \in Vertices, ProcessStart(v) \/ ProcessPause(v) \/ checkEndConditions(v)
      PROVE  /\ UNCHANGED <<conf, load, files, changed>>
             /\ phase = "run" /\ phase' \in {"run", "aborted"}
  BY <1>3, ContinueFrame DEF ProcessStart, ProcessPause, checkEndConditions, Idle
<1>4. ASSUME NEW v \in Vertices, NEW s \in Slots, initiate(v, s)
      PROVE  /\ UNCHANGED <<conf, load, files, changed>>
             /\ phase = "run" /\ phase' \in {"run", "aborted"}
  BY <1>4, NewGeneratorFrame DEF initiate, Idle
<1>5. ASSUME NEW g \in Slots, createStream(g)
      PROVE  /\ UNCHANGED <<conf, load, files, changed>>
             /\ phase = "run" /\ phase' \in {"run", "aborted"}
  BY <1>5 DEF createStream, Abort
<1>6. ASSUME NEW g \in Slots, onComplete(g)
      PROVE  /\ UNCHANGED <<conf, load, files, changed>>
             /\ phase = "run" /\ phase' \in {"run", "aborted"}
  BY <1>6, ContinueFrame DEF onComplete, Idle
<1>7. ASSUME NEW g \in Slots, NEW s \in Slots, createFlow(g, s)
      PROVE  /\ UNCHANGED <<conf, load, files, changed>>
             /\ phase = "run" /\ phase' \in {"run", "aborted"}
  BY <1>7, NewGeneratorFrame DEF createFlow, Idle
<1>8. ASSUME NEW path \in files, Rewrite(path)
      PROVE  /\ UNCHANGED <<conf, load>> /\ changed' = TRUE /\ files' \subseteq files
             /\ phase = "run" /\ phase' = "run"
  BY <1>8 DEF Rewrite
<1> QED
  BY <1>1, <1>2, <1>3, <1>4, <1>5, <1>6, <1>7, <1>8 DEF Walk

\* An option for peers names a pool exactly if the vertex has one.
LEMMA PeersNamed ==
  ASSUME conf \in Cases, NEW v \in Vertices, TypeOf(v) \in {"start"} \cup Generating
  PROVE  Options(v)["peers"] # Unset <=> HasPool(v, "peers")
<1>1. "peers" \in PoolOptions(TypeOf(v)) /\ "peers" \in AttrsOf(TypeOf(v)) \cup PoolOptions(TypeOf(v))
  BY DEF PoolOptions, Generating
<1>2. Options(v)["peers"] = IF HasPool(v, "peers") THEN <<v, "peers">> ELSE Unset
  BY <1>1 DEF Options
<1>3. <<v, "peers">> # Unset
  BY CasesAssumption DEF Vertices, PoolNames
<1> QED
  BY <1>2, <1>3

\* While a graph is loaded its models are as they were configured.
LEMMA ModelsThere ==
  ASSUME TypeOK, LoadInOrder, Loading
  PROVE  files = conf.models /\ validated \subseteq conf.models
BY DEF TypeOK, LoadInOrder

\* A vertex is in order for the parser exactly if it is valid, and no second start.
LEMMA VertexChecked ==
  ASSUME TypeOK, LoadInOrder, phase = "vertices", NEW v
  PROVE  VertexOK(v) <=> /\ VertexValid(v)
                         /\ TypeOf(v) = "start" => ~hasStartAction /\ ~hasSelfLoop(v)
<1>1. ModelPaths(v) \ validated \subseteq files <=> ModelPaths(v) \subseteq conf.models
  BY ModelsThere DEF Loading
<1> QED
  BY <1>1 DEF VertexOK, VertexValid, AttributesOK, validateMarkovModels

\* The vertices are numbered, and those before pos are stored.
LEMMA VertexNumbers ==
  ASSUME conf \in Cases
  PROVE  Vertices = 1 .. Len(conf.words) /\ Len(conf.words) \in Nat \ {0}
BY CasesAssumption DEF Vertices

\* A vertex that is stored is the next one.
LEMMA StoredGrows ==
  ASSUME TypeOK, pos \in Vertices, pos' = pos + 1
  PROVE  Stored' = Stored \cup {pos} /\ pos \notin Stored /\ Stored \subseteq Vertices
<1>1. conf \in Cases
  BY DEF TypeOK
<1>2. pos \in 1 .. Len(conf.words)
  BY <1>1, VertexNumbers
<1>3. pos \in Nat /\ pos >= 1
  BY <1>1, <1>2, VertexNumbers
<1>4. 1 .. (pos + 1) - 1 = 1 .. (pos - 1) \cup {pos} /\ pos \notin 1 .. (pos - 1)
  BY <1>3
<1>5. 1 .. (pos - 1) \subseteq Vertices
  BY <1>1, <1>2, <1>3, VertexNumbers
<1> QED
  BY <1>4, <1>5 DEF Stored

\* parseVertex keeps its flags true to the vertices it has stored.
LEMMA ParseKeepsLoad ==
  ASSUME TypeOK, LoadInOrder, parseVertex
  PROVE  LoadInOrder'
<1> USE DEF parseVertex, LoadInOrder
<1>1. conf \in Cases /\ conf' = conf
  BY DEF TypeOK
<1>2. phase = "vertices" /\ pos \in Vertices /\ UNCHANGED <<files, changed>>
  OBVIOUS
<1>3. CASE ~VertexOK(pos)
  <2>1. phase' = "rejected" /\ UNCHANGED load
    BY <1>3
  <2> QED
    BY <1>1, <1>2, <2>1, ConfStays DEF Stored, Loading, Loaded, load
<1>4. CASE VertexOK(pos)
  <2>1. /\ phase' = phase /\ pos' = pos + 1
        /\ startAction' = IF TypeOf(pos) = "start" THEN pos ELSE startAction
        /\ hasStartAction' = (hasStartAction \/ TypeOf(pos) = "start")
        /\ startHasPeers' =
             (startHasPeers \/ (TypeOf(pos) = "start" /\ Options(pos)["peers"] # Unset))
        /\ transferMissingPeers' = (transferMissingPeers \/ MissingPeers(pos))
    BY <1>4
  <2>2. Stored' = Stored \cup {pos} /\ pos \notin Stored
    BY <1>2, <2>1, StoredGrows
  <2>3. VertexValid(pos) /\ (TypeOf(pos) = "start" => ~hasStartAction /\ ~hasSelfLoop(pos))
    BY <1>2, <1>4, VertexChecked
  <2>4. TypeOf(pos) \in {"start", "stream"} => (Options(pos)["peers"] # Unset <=> HasPool(pos, "peers"))
    BY <1>1, <1>2, PeersNamed DEF Generating
  <2>5. (\A v \in Stored : VertexValid(v))'
    BY <1>1, <2>2, <2>3, ConfStays
  <2>6. (\A v, w \in Stored : TypeOf(v) = "start" /\ TypeOf(w) = "start" => v = w /\ ~hasSelfLoop(v))'
    <3> HIDE DEF parseVertex
    <3> QED
      BY <1>1, <2>2, <2>3, ConfStays
  <2>7. (hasStartAction <=> \E v \in Stored : TypeOf(v) = "start")'
    <3> HIDE DEF parseVertex
    <3> QED
      BY <1>1, <2>1, <2>2, ConfStays
  <2>8. (hasStartAction => startAction \in Stored /\ TypeOf(startAction) = "start")'
    <3> HIDE DEF parseVertex
    <3> QED
      BY <1>1, <2>1, <2>2, ConfStays
  <2>9. (startHasPeers <=> \E v \in Stored : TypeOf(v) = "start" /\ HasPool(v, "peers"))'
    <3> HIDE DEF parseVertex
    <3>1. startHasPeers' <=>
            (startHasPeers \/ (TypeOf(pos) = "start" /\ HasPool(pos, "peers")))
      BY <2>1, <2>4
    <3>2. startHasPeers <=> \E v \in Stored : TypeOf(v) = "start" /\ HasPool(v, "peers")
      OBVIOUS
    <3> HIDE DEF LoadInOrder
    <3> QED
      BY <1>1, <2>2, <3>1, <3>2, ConfStays
  <2>10. (transferMissingPeers <=> \E v \in Stored : TypeOf(v) = "stream" /\ ~HasPool(v, "peers"))'
    <3> HIDE DEF parseVertex
    <3> QED
      <4>1. MissingPeers(pos) <=> TypeOf(pos) = "stream" /\ ~HasPool(pos, "peers")
        BY <2>4 DEF MissingPeers
      <4>2. transferMissingPeers' <=> (transferMissingPeers \/ MissingPeers(pos))
        BY <2>1
      <4>3. transferMissingPeers <=> \E v \in Stored : TypeOf(v) = "stream" /\ ~HasPool(v, "peers")
        OBVIOUS
      <4> HIDE DEF LoadInOrder
      <4> QED
        BY <1>1, <2>2, <4>1, <4>2, <4>3, ConfStays
  <2>11. Loading' /\ ~changed' /\ files' = conf'.models /\ phase' = "vertices"
    BY <1>1, <1>2, <2>1, ModelsThere DEF Loading
  <2>12. conf'.readable /\ Connected' /\ OnlyKnownAttributes'
    BY <1>1, <1>2, ConfStays
  <2> HIDE DEF parseVertex
  <2> QED
    BY <2>5, <2>6, <2>7, <2>8, <2>9, <2>10, <2>11, <2>12 DEF Loaded
<1> QED
  BY <1>3, <1>4

\* So does every other step.
LEMMA LoadKept ==
  ASSUME TypeOK, LoadInOrder, [Next]_vars
  PROVE  LoadInOrder'
<1>1. CASE parseGraphProperties
  <2>1. UNCHANGED <<conf, files, changed, load>> /\ phase = "read" /\ phase' \in {"vertices", "rejected"}
    BY <1>1 DEF parseGraphProperties
  <2>2. phase' = "vertices" => conf.readable /\ Connected /\ OnlyKnownAttributes
    BY <1>1 DEF parseGraphProperties
  <2> QED
    BY <2>1, <2>2, ConfStays DEF LoadInOrder, Stored, Loading, Loaded, load
<1>2. CASE parseVertex
  BY <1>2, ParseKeepsLoad
<1>3. CASE endVertices
  <2>1. /\ UNCHANGED <<conf, files, changed, load>> /\ phase = "vertices"
        /\ phase' \in {"loaded", "rejected"} /\ pos \notin Vertices
        /\ phase' = "loaded" => startHasPeers \/ ~transferMissingPeers
    BY <1>3 DEF endVertices
  <2>2. Stored = Vertices
    <3>1. pos \in 1 .. Len(conf.words) + 1 /\ Vertices = 1 .. Len(conf.words) /\ Len(conf.words) \in Nat
      BY VertexNumbers DEF TypeOK
    <3>2. pos = Len(conf.words) + 1
      BY <2>1, <3>1
    <3> QED
      BY <3>1, <3>2 DEF Stored
  <2> QED
    BY <2>1, <2>2, ConfStays DEF LoadInOrder, Stored, Loading, Loaded, load
<1>4. CASE Walk
  <2>1. /\ UNCHANGED <<conf, load>> /\ phase \in Loaded /\ phase' \in Loaded
        /\ ~Loading' /\ phase' \notin {"read", "rejected"}
        /\ phase \notin {"read", "rejected"}
    BY <1>4, WalkFrame DEF Loading, Loaded
  <2>2. ~changed' => files' = conf.models
    BY <1>4, WalkFrame DEF LoadInOrder
  <2>3. Stored' = Stored
    BY <2>1 DEF Stored, load
  <2>4. conf'.readable /\ Connected' /\ OnlyKnownAttributes'
    BY <2>1, ConfStays DEF LoadInOrder
  <2> QED
    BY <2>1, <2>2, <2>3, <2>4, ConfStays DEF LoadInOrder, load
<1>5. CASE UNCHANGED vars
  BY <1>5, ConfStays DEF LoadInOrder, Stored, Loading, Loaded, load, vars
<1> QED
  BY <1>1, <1>2, <1>3, <1>4, <1>5 DEF Next, Walk

\* A vertex that the parser stumbles over makes the configuration invalid.
LEMMA RejectsOnlyInvalid ==
  ASSUME TypeOK, LoadInOrder, phase = "vertices", pos \in Vertices, ~VertexOK(pos)
  PROVE  ~Valid
<1>1. CASE ~VertexValid(pos)
  BY <1>1 DEF Valid
<1>2. CASE TypeOf(pos) = "start" /\ hasSelfLoop(pos)
  BY <1>2 DEF Valid
<1>3. CASE TypeOf(pos) = "start" /\ hasStartAction
  <2>1. PICK v \in Stored : TypeOf(v) = "start"
    BY <1>3 DEF LoadInOrder
  <2>2. v \in Vertices /\ v # pos
    <3>1. pos \in 1 .. Len(conf.words) /\ Vertices = 1 .. Len(conf.words) /\ Len(conf.words) \in Nat
      BY VertexNumbers DEF TypeOK
    <3> QED
      BY <2>1, <3>1 DEF Stored
  <2> QED
    BY <1>3, <2>1, <2>2 DEF Valid
<1> QED
  BY <1>1, <1>2, <1>3, VertexChecked

\* What is accepted is valid as a whole.
LEMMA AcceptedIsValid ==
  ASSUME LoadInOrder, phase \in Loaded
  PROVE  Valid
<1>1. Stored = Vertices /\ (startHasPeers \/ ~transferMissingPeers)
  BY DEF LoadInOrder
<1>2. conf.readable /\ Connected /\ OnlyKnownAttributes
  BY DEF LoadInOrder, Loaded
<1>3. ASSUME NEW v \in Vertices, TypeOf(v) = "stream"
      PROVE  \E w \in Vertices : (TypeOf(w) = "start" \/ w = v) /\ HasPool(w, "peers")
  BY <1>1, <1>3 DEF LoadInOrder
<1> QED
  BY <1>1, <1>2, <1>3 DEF LoadInOrder, Valid

\* A configuration is rejected only for what is wrong with it.
LEMMA AcceptanceKept ==
  ASSUME TypeOK, LoadInOrder, LoadInOrder', AcceptsExactly, [Next]_vars
  PROVE  AcceptsExactly'
<1>1. phase' \in Loaded => Valid'
  <2>1. (LoadInOrder /\ phase \in Loaded => Valid)'
    BY AcceptedIsValid, PTL
  <2> QED
    BY <2>1 DEF Loaded
<1>2. phase' = "rejected" => ~Valid'
  <2>1. CASE parseGraphProperties
    BY <2>1, ConfStays DEF parseGraphProperties, Valid
  <2>2. CASE parseVertex
    BY <2>2, ConfStays, RejectsOnlyInvalid DEF parseVertex
  <2>3. CASE endVertices
    <3>1. ASSUME phase' = "rejected" PROVE ~Valid
      <4>1. phase = "vertices" /\ pos \notin Vertices /\ ~startHasPeers /\ transferMissingPeers
        BY <2>3, <3>1 DEF endVertices
      <4>2. Stored = Vertices
        <5>1. pos \in 1 .. Len(conf.words) + 1 /\ Vertices = 1 .. Len(conf.words) /\ Len(conf.words) \in Nat
          BY VertexNumbers DEF TypeOK
        <5>2. pos = Len(conf.words) + 1
          BY <4>1, <5>1
        <5> QED
          BY <5>1, <5>2 DEF Stored
      <4> QED
        BY <4>1, <4>2 DEF LoadInOrder, Valid
    <3> QED
      BY <2>3, <3>1, ConfStays DEF endVertices
  <2>4. CASE Walk
    BY <2>4, WalkFrame
  <2>5. CASE UNCHANGED vars
    BY <2>5, ConfStays DEF vars, AcceptsExactly
  <2> QED
    BY <2>1, <2>2, <2>3, <2>4, <2>5 DEF Next, Walk
<1> QED
  BY <1>1, <1>2 DEF AcceptsExactly, Loaded

\* totalWeight is the sum of weights.
LEMMA WeightsAdd ==
  ASSUME NEW S, NEW w, NEW h, SumOn(h, S, w), \A i \in S : w[i] = getWeight(i), NEW T \in SUBSET S
  PROVE  totalWeight(T) = h[T]
<1> DEFINE Body(f) == [U \in SUBSET T |->
                         IF U = {} THEN 0
                         ELSE getWeight(AnyOf(U)) + f[U \ {AnyOf(U)}]]
           it == CHOOSE f : f = Body(f)
           k == [U \in SUBSET T |-> h[U]]
<1>1. totalWeight(T) = it[T]
  BY DEF totalWeight, MapThenSumSet, MapThenFoldSet, AnyOf
<1>2. IsFiniteSet(S) /\ w \in [S -> Int] /\ h \in [SUBSET S -> Int]
  BY DEF SumOn
<1>3. ASSUME NEW U \in SUBSET T
      PROVE  k[U] = IF U = {} THEN 0 ELSE getWeight(AnyOf(U)) + k[U \ {AnyOf(U)}]
  <2>1. CASE U = {}
    BY <2>1 DEF SumOn
  <2>2. CASE U # {}
    <3>1. AnyOf(U) \in S /\ U \in SUBSET S /\ U \ {AnyOf(U)} \in SUBSET T
      BY <2>2, AnyOfIn
    <3>2. h[U] = w[AnyOf(U)] + h[U \ {AnyOf(U)}]
      BY <2>2, <3>1 DEF SumOn
    <3>3. w[AnyOf(U)] = getWeight(AnyOf(U))
      BY <3>1
    <3>4. h[U] = getWeight(AnyOf(U)) + h[U \ {AnyOf(U)}]
      BY <3>2, <3>3
    <3> QED
      BY <2>2, <3>1, <3>4
  <2> QED
    BY <2>1, <2>2
<1>4. k = Body(k)
  BY <1>3
<1>5. it = Body(it)
  BY <1>4
<1> HIDE DEF it, k
<1>6. IsFiniteSet(T)
  BY <1>2, FS_Subset
<1>7. it[{}] = k[{}]
  BY <1>4, <1>5
<1>8. \A U \in (SUBSET T) \ {{}} : it[U \ {AnyOf(U)}] = k[U \ {AnyOf(U)}] => it[U] = k[U]
  BY <1>4, <1>5
<1>9. Alike(it, k, T)
  BY <1>7, <1>8 DEF Alike
<1>10. it[T] = k[T]
  BY <1>6, <1>9, FoldsMeet
<1> QED
  BY <1>1, <1>10 DEF k

\* The weights that the edges themselves say, added up.
textWeight(T) == MapThenSumSet(LAMBDA i : conf.edges[i].weight, T)

LEMMA TextWeightsAdd ==
  ASSUME NEW S, NEW w, NEW h, SumOn(h, S, w), \A i \in S : w[i] = conf.edges[i].weight,
         NEW T \in SUBSET S
  PROVE  textWeight(T) = h[T]
<1> DEFINE Body(f) == [U \in SUBSET T |->
                         IF U = {} THEN 0
                         ELSE conf.edges[AnyOf(U)].weight + f[U \ {AnyOf(U)}]]
           it == CHOOSE f : f = Body(f)
           k == [U \in SUBSET T |-> h[U]]
<1>1. textWeight(T) = it[T]
  BY DEF textWeight, MapThenSumSet, MapThenFoldSet, AnyOf
<1>2. IsFiniteSet(S) /\ w \in [S -> Int] /\ h \in [SUBSET S -> Int]
  BY DEF SumOn
<1>3. ASSUME NEW U \in SUBSET T
      PROVE  k[U] = IF U = {} THEN 0 ELSE conf.edges[AnyOf(U)].weight + k[U \ {AnyOf(U)}]
  <2>1. CASE U = {}
    BY <2>1 DEF SumOn
  <2>2. CASE U # {}
    <3>1. AnyOf(U) \in S /\ U \in SUBSET S /\ U \ {AnyOf(U)} \in SUBSET T
      BY <2>2, AnyOfIn
    <3>2. h[U] = w[AnyOf(U)] + h[U \ {AnyOf(U)}]
      BY <2>2, <3>1 DEF SumOn
    <3>3. w[AnyOf(U)] = conf.edges[AnyOf(U)].weight
      BY <3>1
    <3>4. h[U] = conf.edges[AnyOf(U)].weight + h[U \ {AnyOf(U)}]
      BY <3>2, <3>3
    <3> QED
      BY <2>2, <3>1, <3>4
  <2> QED
    BY <2>1, <2>2
<1>4. k = Body(k)
  BY <1>3
<1>5. it = Body(it)
  BY <1>4
<1> HIDE DEF it, k
<1>6. IsFiniteSet(T)
  BY <1>2, FS_Subset
<1>7. it[{}] = k[{}]
  BY <1>4, <1>5
<1>8. \A U \in (SUBSET T) \ {{}} : it[U \ {AnyOf(U)}] = k[U \ {AnyOf(U)}] => it[U] = k[U]
  BY <1>4, <1>5
<1>9. Alike(it, k, T)
  BY <1>7, <1>8 DEF Alike
<1>10. it[T] = k[T]
  BY <1>6, <1>9, FoldsMeet
<1> QED
  BY <1>1, <1>10 DEF k

\* A sum of weights is a number.
LEMMA TotalWeightType ==
  ASSUME NEW S, IsFiniteSet(S), \A i \in S : getWeight(i) \in Int
  PROVE  totalWeight(S) \in Int
<1> DEFINE w == [i \in S |-> getWeight(i)]
<1>1. w \in [S -> Int] /\ \A i \in S : w[i] = getWeight(i)
  OBVIOUS
<1> HIDE DEF w
<1>2. PICK h : SumOn(h, S, w)
  BY <1>1, SumExists
<1>3. totalWeight(S) = h[S]
  BY <1>1, <1>2, WeightsAdd
<1>4. h \in [SUBSET S -> Int]
  BY <1>2 DEF SumOn
<1> QED
  BY <1>3, <1>4

\* The smallest of some natural numbers.
LEMMA NatMin ==
  ASSUME NEW S, S \subseteq Nat, S # {}
  PROVE  Min(S) \in S /\ \A y \in S : Min(S) <= y
<1> DEFINE R == OpToRel(<, Nat)
<1>1. IsWellFoundedOn(R, Nat)
  BY NatLessThanWellFounded
<1>2. \A x, y \in Nat : x < y => <<x, y>> \in R
  BY DEF OpToRel
<1>3. PICK x \in S : \A y \in S : <<y, x>> \notin R
  <2> HIDE DEF R
  <2> QED
    BY <1>1, WFMin
<1>4. \A y \in S : x <= y
  <2> SUFFICES ASSUME NEW y \in S PROVE x <= y
    OBVIOUS
  <2>1. x \in Nat /\ y \in Nat /\ ~(y < x)
    BY <1>2, <1>3
  <2> QED
    BY <2>1
<1> QED
  BY <1>3, <1>4 DEF Min

\* The largest of some natural numbers.
LEMMA NatMax ==
  ASSUME NEW n \in Nat, NEW S, S \subseteq 0 .. n, S # {}
  PROVE  \E x \in S : \A y \in S : y <= x
<1> DEFINE T == {n - x : x \in S}
<1>1. T \subseteq Nat /\ T # {}
  <2>1. \A x \in 0 .. n : n - x \in Nat
    OBVIOUS
  <2>2. \A x \in S : n - x \in Nat
    BY <2>1
  <2> QED
    BY <2>2
<1>2. Min(T) \in T /\ \A y \in T : Min(T) <= y
  <2> HIDE DEF T
  <2> QED
    BY <1>1, NatMin
<1>3. PICK x \in S : Min(T) = n - x
  BY <1>2
<1>4. ASSUME NEW y \in S PROVE y <= x
  <2>1. n - x <= n - y
    BY <1>2, <1>3
  <2>2. x \in 0 .. n /\ y \in 0 .. n
    OBVIOUS
  <2> HIDE DEF T
  <2> QED
    BY <2>1, <2>2
<1> QED
  BY <1>4

\* What is known of the edges.
LEMMA EdgeTypes ==
  ASSUME conf \in Cases
  PROVE  /\ Len(conf.edges) \in Nat /\ DOMAIN conf.edges = 1 .. Len(conf.edges)
         /\ \A i \in DOMAIN conf.edges : /\ conf.edges[i].from \in Vertices
                                         /\ conf.edges[i].to \in Vertices
                                         /\ conf.edges[i].weight \in Int \cup {Unset}
BY CasesAssumption DEF Vertices

\* The weight of an edge, if it has one, is a number.
LEMMA WeightTypes ==
  ASSUME conf \in Cases, NEW i \in DOMAIN conf.edges
  PROVE  getWeight(i) \in Int \cup {Unset}
<1> DEFINE S == {j \in DOMAIN conf.edges : /\ conf.edges[j].from = conf.edges[i].from
                                           /\ conf.edges[j].to = conf.edges[i].to}
<1>1. i \in S /\ S \subseteq DOMAIN conf.edges
  OBVIOUS
<1>2. get_eid(i) = Min(S)
  BY DEF get_eid
<1>3. S \subseteq Nat /\ S # {}
  BY <1>1, EdgeTypes
<1> HIDE DEF S
<1>4. get_eid(i) \in DOMAIN conf.edges
  BY <1>1, <1>2, <1>3, NatMin
<1> QED
  BY <1>4, EdgeTypes DEF getWeight

\* The edges of which one is chosen are finitely many, and their weights add up.
LEMMA ChoiceTypes ==
  ASSUME conf \in Cases, NEW v
  PROVE  /\ chooseActions(v) \subseteq 1 .. Len(conf.edges)
         /\ \A S \in SUBSET chooseActions(v) : totalWeight(S) \in Int
<1>1. chooseActions(v) \subseteq DOMAIN conf.edges
  BY DEF chooseActions, Out
<1>2. IsFiniteSet(1 .. Len(conf.edges))
  BY EdgeTypes, FS_Interval
<1>3. ASSUME NEW S \in SUBSET chooseActions(v)
      PROVE  totalWeight(S) \in Int
  <2>1. IsFiniteSet(S)
    BY <1>1, <1>2, EdgeTypes, FS_Subset
  <2>2. \A i \in S : getWeight(i) \in Int
    BY <1>1, WeightTypes DEF chooseActions
  <2> QED
    BY <2>1, <2>2, TotalWeightType
<1> QED
  BY <1>1, <1>3, EdgeTypes

\* The edges to a neighbour up to u.
UpTo(v, u) == {i \in chooseActions(v) : conf.edges[i].to <= u}

\* The queue of the last of these edges is all of them.
LEMMA LastUpTo ==
  ASSUME conf \in Cases, NEW v, NEW u \in Int, UpTo(v, u) # {}
  PROVE  \E i \in UpTo(v, u) : Queue(v, i) = UpTo(v, u)
<1> DEFINE C == UpTo(v, u)
           T == {conf.edges[i].to : i \in C}
<1>1. /\ C \subseteq 1 .. Len(conf.edges) /\ Len(conf.edges) \in Nat
      /\ \A i \in chooseActions(v) : conf.edges[i].to \in Vertices
      /\ C \subseteq chooseActions(v) /\ \A i \in C : conf.edges[i].to <= u
  BY ChoiceTypes, EdgeTypes DEF UpTo
<1>2. Vertices = 1 .. Len(conf.words) /\ Len(conf.words) \in Nat
  BY VertexNumbers
<1> HIDE DEF C
<1>3. T \subseteq 0 .. Len(conf.words) /\ T # {}
  BY <1>1, <1>2 DEF C
<1>4. PICK t \in T : \A x \in T : x <= t
  <2> HIDE DEF T
  <2> QED
    BY <1>2, <1>3, NatMax
<1>5. \A j \in C : conf.edges[j].to <= t
  BY <1>4
<1>6. PICK k \in C : conf.edges[k].to = t
  BY <1>4
<1> HIDE DEF T
<1> DEFINE L == {i \in C : conf.edges[i].to = t}
<1>7. L \subseteq 0 .. Len(conf.edges) /\ L # {}
  BY <1>1, <1>6
<1>8. PICK i \in L : \A j \in L : j <= i
  <2> HIDE DEF L
  <2> QED
    BY <1>1, <1>7, NatMax
<1>9. i \in C /\ conf.edges[i].to = t
  BY <1>8
<1>10. t \in Nat /\ t <= u
  BY <1>1, <1>2, <1>9
<1>11. ASSUME NEW j \in C
      PROVE  conf.edges[j].to < conf.edges[i].to \/ (conf.edges[j].to = conf.edges[i].to /\ j <= i)
  <2>1. conf.edges[j].to <= t /\ conf.edges[j].to \in Nat
    BY <1>1, <1>2, <1>5
  <2>2. conf.edges[j].to = t => j <= i
    BY <1>8
  <2> QED
    BY <1>9, <1>10, <2>1, <2>2
<1>12. ASSUME NEW j \in chooseActions(v), conf.edges[j].to <= t
      PROVE  j \in C
  <2>1. conf.edges[j].to \in Nat
    BY <1>1, <1>2
  <2>2. conf.edges[j].to <= u
    BY <1>12, <1>10, <2>1
  <2> QED
    BY <2>2 DEF C, UpTo
<1>13. Queue(v, i) = C
  <2>1. ASSUME NEW j \in Queue(v, i) PROVE j \in C
    <3>1. j \in chooseActions(v) /\ (conf.edges[j].to < t \/ conf.edges[j].to = t)
      BY <1>9, <2>1 DEF Queue
    <3>2. conf.edges[j].to \in Nat
      BY <1>1, <1>2, <3>1
    <3> QED
      BY <1>12, <1>10, <3>1, <3>2
  <2>2. ASSUME NEW j \in C PROVE j \in Queue(v, i)
    BY <1>1, <1>11, <2>2 DEF Queue
  <2> QED
    BY <2>1, <2>2
<1> QED
  BY <1>9, <1>13 DEF C

\* The queue of the last edge is the whole queue.
LEMMA LastInQueue ==
  ASSUME conf \in Cases, NEW v, chooseActions(v) # {}
  PROVE  \E i \in chooseActions(v) : Queue(v, i) = chooseActions(v)
<1>1. \A i \in chooseActions(v) : conf.edges[i].to \in Vertices
  BY ChoiceTypes, EdgeTypes
<1>2. Vertices = 1 .. Len(conf.words) /\ Len(conf.words) \in Nat
  BY VertexNumbers
<1>3. UpTo(v, Len(conf.words)) = chooseActions(v)
  BY <1>1, <1>2 DEF UpTo
<1> QED
  BY <1>2, <1>3, LastUpTo

\* The loop over the queue ends before the queue does, unless the weights add up to nothing.
LEMMA LoopEnds ==
  ASSUME conf \in Cases, NEW v, chooseActions(v) # {},
         NEW r \in Draws(totalWeight(chooseActions(v))), Exceeding(v, r) = {}
  PROVE  totalWeight(chooseActions(v)) <= 0
<1>1. PICK i \in chooseActions(v) : Queue(v, i) = chooseActions(v)
  BY LastInQueue
<1>2. ~(totalWeight(chooseActions(v)) > r)
  BY <1>1 DEF Exceeding
<1>3. PICK t \in Int : t = totalWeight(chooseActions(v))
  BY ChoiceTypes
<1>4. r \in (IF t > 0 THEN 0 .. t - 1 ELSE t .. 0) /\ ~(t > r)
  BY <1>2, <1>3 DEF Draws
<1>5. t <= 0
  BY <1>4
<1> QED
  BY <1>3, <1>5

\* The next action is one of the graph's.
LEMMA NextChoiceIn ==
  ASSUME conf \in Cases, NEW v, NEW r, Exceeding(v, r) # {}
  PROVE  nextChoice(v, r) \in Vertices
<1> DEFINE S == {conf.edges[i].to : i \in Exceeding(v, r)}
<1>1. S \subseteq Vertices /\ S # {}
  BY ChoiceTypes, EdgeTypes DEF Exceeding
<1>2. Vertices \subseteq Nat
  BY VertexNumbers
<1>3. nextChoice(v, r) = Min(S)
  BY DEF nextChoice
<1> HIDE DEF S
<1> QED
  BY <1>1, <1>2, <1>3, NatMin

\* No weight of an edge out of v is negative, and edges to the same action agree.
Sane(v) ==
  \A i \in Out(v) : /\ conf.edges[i].weight = Unset \/ conf.edges[i].weight >= 0
                    /\ conf.edges[i].weight = getWeight(i)

weightsOf(v) == [i \in chooseActions(v) |-> getWeight(i)]

\* Then sums of weights are sums of numbers that are not negative.
LEMMA SaneSums ==
  ASSUME conf \in Cases, NEW v, Sane(v)
  PROVE  \E h : /\ SumOn(h, chooseActions(v), weightsOf(v))
                /\ NotNegative(weightsOf(v), chooseActions(v))
                /\ \A T \in SUBSET chooseActions(v) :
                     h[T] \in Int /\ totalWeight(T) = h[T] /\ textWeight(T) = h[T]
<1> DEFINE C == chooseActions(v)
           w == weightsOf(v)
<1>1. C \subseteq 1 .. Len(conf.edges) /\ Len(conf.edges) \in Nat /\ C \subseteq DOMAIN conf.edges
  BY ChoiceTypes, EdgeTypes
<1>2. IsFiniteSet(C)
  BY <1>1, FS_Interval, FS_Subset
<1>3. ASSUME NEW i \in C
      PROVE  /\ w[i] = getWeight(i) /\ w[i] = conf.edges[i].weight
             /\ w[i] \in Int /\ w[i] >= 0
  <2>1. i \in Out(v) /\ getWeight(i) # Unset
    BY DEF chooseActions
  <2>2. getWeight(i) \in Int /\ conf.edges[i].weight = getWeight(i) /\ getWeight(i) >= 0
    BY <1>1, <2>1, WeightTypes DEF Sane
  <2> QED
    BY <2>2 DEF weightsOf
<1>4. w \in [C -> Int] /\ NotNegative(w, C)
  <2>1. w \in [C -> Int]
    BY <1>3 DEF weightsOf
  <2> QED
    BY <1>3, <2>1 DEF NotNegative
<1> HIDE DEF C, w
<1>5. PICK h : SumOn(h, C, w)
  BY <1>2, <1>4, SumExists
<1>6. ASSUME NEW T \in SUBSET C
      PROVE  h[T] \in Int /\ totalWeight(T) = h[T] /\ textWeight(T) = h[T]
  <2>1. h[T] \in Int
    BY <1>5 DEF SumOn
  <2>2. totalWeight(T) = h[T]
    BY <1>3, <1>5, WeightsAdd
  <2>3. textWeight(T) = h[T]
    BY <1>3, <1>5, TextWeightsAdd
  <2> QED
    BY <2>1, <2>2, <2>3
<1> QED
  BY <1>4, <1>5, <1>6 DEF C, w

\* The loop ends at a neighbour up to x exactly if the weights up to there exceed the
\* random one.
LEMMA ExceedsUpTo ==
  ASSUME conf \in Cases, NEW v, Sane(v), NEW x \in Int, NEW r \in Nat
  PROVE  (\E i \in Exceeding(v, r) : conf.edges[i].to <= x) <=> totalWeight(UpTo(v, x)) > r
<1>1. PICK h : /\ SumOn(h, chooseActions(v), weightsOf(v))
               /\ NotNegative(weightsOf(v), chooseActions(v))
               /\ \A T \in SUBSET chooseActions(v) : h[T] \in Int /\ totalWeight(T) = h[T]
  BY SaneSums
<1>2. UpTo(v, x) \in SUBSET chooseActions(v) /\ \A i : Queue(v, i) \in SUBSET chooseActions(v)
  BY DEF UpTo, Queue
<1>3. ASSUME NEW i \in Exceeding(v, r), conf.edges[i].to <= x
      PROVE  totalWeight(UpTo(v, x)) > r
  <2>1. i \in chooseActions(v) /\ totalWeight(Queue(v, i)) > r
    BY DEF Exceeding
  <2>2. \A j \in chooseActions(v) : conf.edges[j].to \in Int
    BY ChoiceTypes, EdgeTypes, VertexNumbers
  <2>3. Queue(v, i) \in SUBSET UpTo(v, x)
    BY <1>3, <2>1, <2>2 DEF Queue, UpTo
  <2>4. NoLess(h, Queue(v, i), UpTo(v, x))
    BY <1>1, <1>2, <2>3, SumGrows
  <2>5. /\ h[Queue(v, i)] \in Int /\ totalWeight(Queue(v, i)) = h[Queue(v, i)]
        /\ h[UpTo(v, x)] \in Int /\ totalWeight(UpTo(v, x)) = h[UpTo(v, x)]
    BY <1>1, <1>2
  <2> QED
    BY <2>1, <2>4, <2>5 DEF NoLess
<1>4. ASSUME totalWeight(UpTo(v, x)) > r
      PROVE  \E i \in Exceeding(v, r) : conf.edges[i].to <= x
  <2>1. UpTo(v, x) # {}
    <3>1. h[{}] = 0 /\ totalWeight({}) = h[{}]
      BY <1>1 DEF SumOn
    <3>2. ~(0 > r)
      OBVIOUS
    <3> QED
      BY <1>4, <3>1, <3>2
  <2>2. PICK i \in UpTo(v, x) : Queue(v, i) = UpTo(v, x)
    BY <2>1, LastUpTo
  <2> QED
    BY <1>4, <2>2 DEF Exceeding, UpTo
<1> QED
  BY <1>3, <1>4

\* The random numbers that lead from v to u are as many as the weights of the edges
\* between them say.
LEMMA FairChoice ==
  ASSUME conf \in Cases, NEW v, NEW u \in Vertices, Sane(v),
         totalWeight(chooseActions(v)) > 0
  PROVE  Cardinality({r \in Draws(totalWeight(chooseActions(v))) :
                        Exceeding(v, r) # {} /\ nextChoice(v, r) = u}) =
           textWeight({i \in Out(v) : conf.edges[i].to = u /\ conf.edges[i].weight # Unset})
<1> DEFINE C == chooseActions(v)
           Before == UpTo(v, u - 1)
           There == {i \in C : conf.edges[i].to = u}
           Drawn == {r \in Draws(totalWeight(C)) : Exceeding(v, r) # {} /\ nextChoice(v, r) = u}
<1>1. PICK h : /\ SumOn(h, C, weightsOf(v)) /\ NotNegative(weightsOf(v), C)
               /\ \A T \in SUBSET C : h[T] \in Int /\ totalWeight(T) = h[T] /\ textWeight(T) = h[T]
  BY SaneSums
<1>2. u \in Int /\ u - 1 \in Int /\ \A i \in C : conf.edges[i].to \in Nat
  BY ChoiceTypes, EdgeTypes, VertexNumbers
<1>3. /\ Before \in SUBSET C /\ There \in SUBSET C /\ UpTo(v, u) \in SUBSET C /\ C \in SUBSET C
      /\ Before \cap There = {} /\ UpTo(v, u) = Before \cup There
  BY <1>2 DEF UpTo
<1>4. {i \in Out(v) : conf.edges[i].to = u /\ conf.edges[i].weight # Unset} = There
  BY DEF Sane, chooseActions
<1> HIDE DEF C, Before, There
<1>5. PICK a \in Int : a = h[Before] /\ totalWeight(Before) = a
  BY <1>1, <1>3
<1>6. PICK b \in Int : b = h[There] /\ textWeight(There) = b
  BY <1>1, <1>3
<1>7. PICK t \in Int : t = h[C] /\ totalWeight(C) = t
  BY <1>1, <1>3
<1>8. totalWeight(UpTo(v, u)) = a + b /\ a + b <= t /\ a >= 0 /\ b >= 0 /\ t > 0
  <2>1. Joins(h, Before, There)
    BY <1>1, <1>3, SumUnion
  <2>2. h[UpTo(v, u)] = a + b
    BY <1>3, <1>5, <1>6, <2>1 DEF Joins
  <2>3. totalWeight(UpTo(v, u)) = h[UpTo(v, u)]
    BY <1>1, <1>3
  <2>4. NoLess(h, UpTo(v, u), C)
    BY <1>1, <1>3, SumGrows
  <2>5. NoLess(h, Before, C) /\ NoLess(h, There, C)
    BY <1>1, <1>3, SumGrows
  <2>6. a + b <= t
    BY <1>7, <2>2, <2>4 DEF NoLess
  <2>7. a >= 0 /\ b >= 0
    BY <1>5, <1>6, <2>5 DEF NoLess
  <2>8. t > 0
    BY <1>7 DEF C
  <2> QED
    BY <2>2, <2>3, <2>6, <2>7, <2>8
<1>9. Draws(totalWeight(C)) = 0 .. t - 1
  BY <1>7, <1>8 DEF Draws
<1>10. ASSUME NEW r \in Nat
       PROVE  (Exceeding(v, r) # {} /\ nextChoice(v, r) = u) <=> (a <= r /\ r < a + b)
  <2> DEFINE Tos == {conf.edges[i].to : i \in Exceeding(v, r)}
  <2>1. (\E i \in Exceeding(v, r) : conf.edges[i].to <= u) <=> a + b > r
    <3>1. (\E i \in Exceeding(v, r) : conf.edges[i].to <= u) <=> totalWeight(UpTo(v, u)) > r
      BY <1>2, ExceedsUpTo
    <3> QED
      BY <1>8, <3>1
  <2>2. (\E i \in Exceeding(v, r) : conf.edges[i].to <= u - 1) <=> a > r
    <3>1. (\E i \in Exceeding(v, r) : conf.edges[i].to <= u - 1) <=> totalWeight(Before) > r
      BY <1>2, ExceedsUpTo DEF Before
    <3> QED
      BY <1>5, <3>1
  <2>3. Tos \subseteq Nat /\ (Exceeding(v, r) # {} <=> Tos # {}) /\ nextChoice(v, r) = Min(Tos)
    BY <1>2 DEF Exceeding, nextChoice, C
  <2>4. (\E y \in Tos : y <= u) <=> a + b > r
    BY <2>1
  <2>5. (\E y \in Tos : y <= u - 1) <=> a > r
    BY <2>2
  <2> HIDE DEF Tos
  <2>6. Tos # {} => Min(Tos) \in Tos /\ \A y \in Tos : Min(Tos) <= y
    BY <2>3, NatMin
  <2>7. ASSUME Tos # {}, Min(Tos) = u PROVE a <= r /\ r < a + b
    <3>1. u \in Tos /\ \A y \in Tos : u <= y /\ y \in Nat
      BY <2>3, <2>6, <2>7
    <3>2. a + b > r
      BY <1>2, <2>4, <3>1
    <3>3. ~(a > r)
      BY <1>2, <2>5, <3>1
    <3> QED
      BY <3>2, <3>3
  <2>8. ASSUME a <= r, r < a + b PROVE Tos # {} /\ Min(Tos) = u
    <3>1. PICK y \in Tos : y <= u
      BY <2>4, <2>8
    <3>2. \A z \in Tos : ~(z <= u - 1)
      BY <2>5, <2>8
    <3>3. Min(Tos) \in Tos /\ Min(Tos) <= y /\ Min(Tos) \in Nat /\ y \in Nat
      BY <2>3, <2>6, <3>1
    <3> QED
      BY <1>2, <3>1, <3>2, <3>3
  <2> QED
    BY <2>3, <2>7, <2>8
<1>11. Drawn = a .. a + b - 1
  <2>1. ASSUME NEW r \in 0 .. t - 1
        PROVE  (Exceeding(v, r) # {} /\ nextChoice(v, r) = u) <=> (a <= r /\ r < a + b)
    BY <1>10
  <2>2. Drawn = {r \in 0 .. t - 1 : a <= r /\ r < a + b}
    BY <1>9, <2>1
  <2> QED
    BY <1>8, <2>2
<1>12. Cardinality(a .. a + b - 1) = b
  <2>1. CASE b = 0
    <3>1. a .. a + b - 1 = {}
      BY <2>1
    <3> QED
      BY <2>1, <3>1, FS_EmptySet
  <2>2. CASE b # 0
    <3>1. Cardinality(a .. a + b - 1) = (a + b - 1) - a + 1
      BY <1>8, <2>2, FS_Interval
    <3> QED
      BY <3>1
  <2> QED
    BY <2>1, <2>2
<1> QED
  BY <1>4, <1>6, <1>11, <1>12 DEF C

\* Wherever the driver continues there is an action; it is stopped only by weights that
\* cannot be drawn from.
LEMMA ContinueKeeps ==
  ASSUME conf \in Cases, NEW v \in Vertices, todo \subseteq Vertices, continueNextActions(v)
  PROVE  /\ todo' \subseteq Vertices
         /\ \/ UNCHANGED <<phase, fault>>
            \/ /\ phase' = "aborted" /\ fault' = "queue"
               /\ chooseActions(v) # {} /\ totalWeight(chooseActions(v)) <= 0
<1>1. Unweighted(v) \subseteq Vertices
  BY EdgeTypes DEF Unweighted, Out
<1>2. CASE clientHasEnded \/ chooseActions(v) = {}
  BY <1>1, <1>2 DEF continueNextActions
<1>3. CASE ~clientHasEnded /\ chooseActions(v) # {}
  <2>1. PICK r \in Draws(totalWeight(chooseActions(v))) :
          IF Exceeding(v, r) = {} THEN Abort("queue") /\ UNCHANGED todo
          ELSE /\ todo' = (todo \ {v}) \cup Unweighted(v) \cup {nextChoice(v, r)}
               /\ UNCHANGED <<phase, fault>>
    BY <1>3 DEF continueNextActions
  <2>2. CASE Exceeding(v, r) = {}
    BY <1>3, <2>1, <2>2, LoopEnds DEF Abort
  <2>3. CASE Exceeding(v, r) # {}
    BY <1>1, <2>1, <2>3, NextChoiceIn
  <2> QED
    BY <2>2, <2>3
<1> QED
  BY <1>2, <1>3

\* What is known of an action that generates.
LEMMA GeneratingTypes ==
  ASSUME NEW t \in Generating
  PROVE  /\ PoolOptions(t) = PoolOptions("start") /\ AttrsOf(t) \subseteq AttrsOf("start")
         /\ {"peers", "packetmodelpath"} \subseteq AttrsOf(t)
         /\ t = "traffic" => "flowmodelpath" \in AttrsOf(t)
BY DEF PoolOptions, AttrsOf, Generating, TrafficAttrs, FlowAttrs, StreamAttrs

\* While the graph is used all its actions are stored, and the start action has its own
\* options.
LEMMA StartOptions ==
  ASSUME TypeOK, LoadInOrder, OptionsInOrder, phase = "run"
  PROVE  /\ Stored = Vertices /\ hasStartAction /\ startAction \in Vertices
         /\ TypeOf(startAction) = "start" /\ actions[startAction] = Own(startAction)
<1>1. Stored = Vertices /\ hasStartAction /\ startAction \in Stored /\ TypeOf(startAction) = "start"
  BY DEF LoadInOrder, OptionsInOrder, Loaded
<1>2. "start" \notin Generating
  BY DEF Generating
<1> QED
  BY <1>1, <1>2 DEF OptionsInOrder

\* A visit completes the options of an action, and a second one changes nothing.
LEMMA CopiesDefaults ==
  ASSUME TypeOK, LoadInOrder, OptionsInOrder, phase = "run",
         NEW v \in Vertices, TypeOf(v) \in Generating
  PROVE  CopyDefaults(v) = Defaulted(v)
<1> DEFINE D == DOMAIN Options(v)
           start == Options(startAction)
<1>1. actions[startAction].options = start
  BY StartOptions DEF Own
<1>2. CASE actions[v].options = Options(v)
  <2>1. CopyDefaults(v) = [o \in D |-> IF Options(v)[o] = Unset THEN start[o] ELSE Options(v)[o]]
    BY <1>1, <1>2 DEF CopyDefaults
  <2> QED
    BY <2>1 DEF Defaulted
<1>3. CASE actions[v].options = Defaulted(v)
  <2>1. DOMAIN Defaulted(v) = D
    BY DEF Defaulted
  <2>2. \A o \in D : Defaulted(v)[o] = IF Options(v)[o] = Unset THEN start[o] ELSE Options(v)[o]
    BY DEF Defaulted
  <2>3. CopyDefaults(v) = [o \in D |-> IF Defaulted(v)[o] = Unset THEN start[o] ELSE Defaulted(v)[o]]
    BY <1>1, <1>3, <2>1 DEF CopyDefaults
  <2>4. \A o \in D : (IF Defaulted(v)[o] = Unset THEN start[o] ELSE Defaulted(v)[o])
                       = IF Options(v)[o] = Unset THEN start[o] ELSE Options(v)[o]
    BY <2>2
  <2> QED
    BY <2>3, <2>4 DEF Defaulted
<1>4. v \in Stored
  BY StartOptions
<1>5. actions[v] = Own(v) \/ actions[v] = Visited(v)
  BY <1>4 DEF OptionsInOrder
<1>6. actions[v].options = Options(v) \/ actions[v].options = Defaulted(v)
  BY <1>5 DEF Own, Visited
<1> QED
  BY <1>2, <1>3, <1>6

\* What is stored for a vertex does not depend on what happens later.
LEMMA StoredStays ==
  ASSUME UNCHANGED <<conf, startAction>>
  PROVE  /\ \A v : Defaulted(v)' = Defaulted(v)
         /\ \A v : Own(v)' = Own(v)
         /\ \A v : Visited(v)' = Visited(v)
<1>1. \A v : TypeOf(v)' = TypeOf(v) /\ Options(v)' = Options(v)
  BY ConfStays
<1>2. \A v : Defaulted(v)' = Defaulted(v)
  BY <1>1 DEF Defaulted
<1> QED
  BY <1>1, <1>2 DEF Own, Visited

\* A step that leaves the actions alone, and adds no generators or only in the way that
\* NewGenerator does, keeps them in order.
LEMMA GensKeepOptions ==
  ASSUME TypeOK, LoadInOrder, OptionsInOrder, Walk, DOMAIN gens' = Slots,
         phase' = "run" => hasStartAction,
         DOMAIN actions' = Vertices,
         \A v \in Stored :
           \/ actions'[v] = actions[v]
           \/ actions'[v] = Visited(v) /\ TypeOf(v) \in Generating /\ hasStartAction,
         \A s \in Slots :
           \/ gens'[s] = NoGen
           \/ /\ gens[s].kind # "NONE" /\ gens'[s].kind = gens[s].kind
              /\ gens'[s].at = gens[s].at /\ DOMAIN gens'[s] = DOMAIN NoGen
           \/ /\ gens'[s].kind \in Generating /\ DOMAIN gens'[s] = DOMAIN NoGen
              /\ gens'[s].at \in Stored /\ TypeOf(gens'[s].at) \in Generating
              /\ hasStartAction /\ actions'[gens'[s].at] = Visited(gens'[s].at)
              /\ gens'[s].kind = "traffic" => TypeOf(gens'[s].at) = "traffic"
  PROVE  OptionsInOrder'
<1>1. /\ UNCHANGED <<conf, load>> /\ ~Loading'
      /\ phase \in Loaded
  BY WalkFrame DEF Loading, Loaded
<1>2. Stored' = Stored /\ Vertices' = Vertices /\ hasStartAction' = hasStartAction /\ Slots' = Slots
  BY <1>1, ConfStays DEF Stored, load, Slots
<1>3. \A v : TypeOf(v)' = TypeOf(v) /\ Own(v)' = Own(v) /\ Visited(v)' = Visited(v)
  BY <1>1, ConfStays, StoredStays DEF load
<1>4. Vertices \ Stored = {}
  BY <1>1 DEF LoadInOrder
<1>5. NoGen.kind = "NONE"
  BY DEF NoGen
<1>6. ASSUME NEW v \in Stored
      PROVE  \/ actions'[v] = Own(v)
             \/ actions'[v] = Visited(v) /\ TypeOf(v) \in Generating /\ hasStartAction
  BY DEF OptionsInOrder
<1>7. ASSUME NEW s \in Slots
      PROVE  /\ gens'[s].kind \in Generating \cup {"NONE"} /\ DOMAIN gens'[s] = DOMAIN NoGen
             /\ gens'[s].kind = "NONE" => gens'[s] = NoGen
             /\ gens'[s].kind # "NONE" =>
                  /\ gens'[s].at \in Stored /\ TypeOf(gens'[s].at) \in Generating
                  /\ hasStartAction /\ actions'[gens'[s].at] = Visited(gens'[s].at)
             /\ gens'[s].kind = "traffic" => TypeOf(gens'[s].at) = "traffic"
  <2>1. CASE gens'[s] = NoGen
    BY <1>5, <2>1
  <2>2. CASE /\ gens[s].kind # "NONE" /\ gens'[s].kind = gens[s].kind
             /\ gens'[s].at = gens[s].at /\ DOMAIN gens'[s] = DOMAIN NoGen
    BY <2>2 DEF OptionsInOrder
  <2>3. CASE /\ gens'[s].kind \in Generating /\ DOMAIN gens'[s] = DOMAIN NoGen
             /\ gens'[s].at \in Stored /\ TypeOf(gens'[s].at) \in Generating
             /\ hasStartAction /\ actions'[gens'[s].at] = Visited(gens'[s].at)
             /\ gens'[s].kind = "traffic" => TypeOf(gens'[s].at) = "traffic"
    <3>1. "NONE" \notin Generating
      BY DEF Generating
    <3> QED
      BY <2>3, <3>1
  <2> QED
    BY <2>1, <2>2, <2>3
<1> QED
  BY <1>1, <1>2, <1>3, <1>4, <1>6, <1>7 DEF OptionsInOrder

\* Before the graph is used there are only own options and no generators.
LEMMA LoadingOptions ==
  ASSUME OptionsInOrder, Loading
  PROVE  /\ \A v \in Stored : actions[v] = Own(v)
         /\ \A s \in Slots : gens[s] = NoGen
BY DEF OptionsInOrder

\* The other way round, that is all there is to show of a step that parses.
LEMMA LoadingKeepsOptions ==
  ASSUME OptionsInOrder, Loading, UNCHANGED gens, UNCHANGED conf, DOMAIN actions' = Vertices,
         \A v \in Vertices \ Stored' : actions'[v] = NoAction,
         \A v \in Stored' : actions'[v] = Own(v)', phase' # "run"
  PROVE  OptionsInOrder'
<1>1. \A s \in Slots : gens'[s] = NoGen
  BY LoadingOptions
<1>2. NoGen.kind = "NONE" /\ "traffic" # "NONE"
  BY DEF NoGen
<1>3. Vertices' = Vertices /\ Slots' = Slots
  BY ConfStays DEF Slots
<1>4. DOMAIN gens' = Slots
  BY DEF OptionsInOrder
<1> QED
  BY <1>1, <1>2, <1>3, <1>4 DEF OptionsInOrder

\* parseVertex stores an action with its own options.
LEMMA ParseKeepsOptions ==
  ASSUME TypeOK, OptionsInOrder, parseVertex
  PROVE  OptionsInOrder'
<1>1. Loading /\ phase' # "run" /\ UNCHANGED <<conf, gens>> /\ pos \in Vertices
  BY DEF parseVertex, Loading, run
<1>2. \A v \in Stored : actions[v] = Own(v)
  BY <1>1, LoadingOptions
<1>3. DOMAIN actions = Vertices /\ \A v \in Vertices \ Stored : actions[v] = NoAction
  BY DEF OptionsInOrder
<1>4. \A v : Own(v)' = Own(v)
  BY <1>1, ConfStays DEF Own
<1>5. CASE ~VertexOK(pos)
  <2>1. UNCHANGED <<actions, pos>>
    BY <1>5 DEF parseVertex, load
  <2> QED
    BY <1>1, <1>2, <1>3, <1>4, <2>1, LoadingKeepsOptions DEF Stored
<1>6. CASE VertexOK(pos)
  <2>1. /\ actions' = [actions EXCEPT ![pos] = [type |-> TypeOf(pos), options |-> Options(pos)]]
        /\ pos' = pos + 1
    BY <1>6 DEF parseVertex
  <2>2. Stored' = Stored \cup {pos} /\ pos \notin Stored
    BY <1>1, <2>1, StoredGrows
  <2>3. actions'[pos] = Own(pos) /\ \A v \in Vertices \ {pos} : actions'[v] = actions[v]
    BY <1>1, <1>3, <2>1 DEF Own
  <2>4. Stored \subseteq Vertices
    BY <1>1, <2>1, StoredGrows
  <2>5. \A v \in Stored' : actions'[v] = Own(v)'
    BY <1>2, <1>4, <2>2, <2>3, <2>4
  <2>6. \A v \in Vertices \ Stored' : actions'[v] = NoAction
    BY <1>3, <2>2, <2>3
  <2>7. DOMAIN actions' = Vertices
    BY <1>3, <2>1
  <2> QED
    BY <1>1, <2>5, <2>6, <2>7, LoadingKeepsOptions
<1> QED
  BY <1>5, <1>6

\* A generator that is created belongs to an action that was visited.
LEMMA NewGeneratorKeeps ==
  ASSUME OptionsInOrder, NEW s \in Slots, NEW kind \in Generating, NEW at, NEW parent, NEW opts,
         NewGenerator(s, kind, at, parent, opts)
  PROVE  /\ DOMAIN gens' = Slots
         /\ \A t \in Slots \ {s} : gens'[t] = gens[t]
         /\ gens'[s].kind \in Generating /\ DOMAIN gens'[s] = DOMAIN NoGen /\ gens'[s].at = at
         /\ gens'[s].kind = "traffic" => kind = "traffic"
<1>1. DOMAIN gens = Slots
  BY DEF OptionsInOrder
<1>2. CASE kind = "traffic"
  <2>1. gens' = [gens EXCEPT ![s] = [NoGen EXCEPT !.kind = kind, !.at = at]]
    BY <1>2 DEF NewGenerator
  <2>2. /\ gens'[s] = [NoGen EXCEPT !.kind = kind, !.at = at]
        /\ DOMAIN gens' = Slots /\ \A t \in Slots \ {s} : gens'[t] = gens[t]
    BY <1>1, <2>1
  <2>3. gens'[s].kind = kind /\ gens'[s].at = at /\ DOMAIN gens'[s] = DOMAIN NoGen
    BY <2>2 DEF NoGen
  <2> QED
    BY <1>2, <2>2, <2>3
<1>3. CASE kind # "traffic"
  <2> DEFINE single == kind = "stream" \/ ~HasModel(opts[ModelOption(kind)])
  <2>1. PICK p \in getRandom(opts["socksproxy"]) :
          gens' = [gens EXCEPT ![s] =
            [kind |-> IF single THEN "stream" ELSE "flow", at |-> at, parent |-> parent,
             fresh |-> single, proxy |-> p, auth |-> initSocksAuthStrings(opts)]]
    BY <1>3 DEF NewGenerator
  <2>2. {"stream", "flow"} \subseteq Generating
    BY DEF Generating
  <2> HIDE DEF single
  <2> QED
    BY <1>1, <2>1, <2>2 DEF NoGen
<1> QED
  BY <1>2, <1>3

\* A generator stays, or there is none.
LEMMA GensStay ==
  ASSUME OptionsInOrder, NEW s \in Slots, gens'[s] = gens[s]
  PROVE  \/ gens'[s] = NoGen
         \/ /\ gens[s].kind # "NONE" /\ gens'[s].kind = gens[s].kind
            /\ gens'[s].at = gens[s].at /\ DOMAIN gens'[s] = DOMAIN NoGen
BY DEF OptionsInOrder

\* What a visit does, but for the pools.
LEMMA InitiateDoes ==
  ASSUME NEW v, NEW s, initiate(v, s)
  PROVE  /\ phase = "run" /\ v \in todo /\ actions[v].type \in Generating
         /\ actions' = [actions EXCEPT ![v].options = CopyDefaults(v)]
         /\ NewGenerator(s, actions[v].type, v, 0, CopyDefaults(v))
         /\ todo' = todo \ {v}
         /\ UNCHANGED <<conf, files, changed, load, clientHasEnded, last, peerless>>
BY DEF initiate, Idle, FoldSet, MapThenFoldSet

\* A visit of an action completes its options before its generator is created.
LEMMA InitiateKeepsOptions ==
  ASSUME TypeOK, LoadInOrder, OptionsInOrder, NEW v \in Vertices, NEW s \in Slots, initiate(v, s)
  PROVE  OptionsInOrder'
<1>1. /\ phase = "run" /\ actions[v].type \in Generating
      /\ actions' = [actions EXCEPT ![v].options = CopyDefaults(v)]
      /\ NewGenerator(s, actions[v].type, v, 0, CopyDefaults(v))
  BY InitiateDoes
<1>2. Stored = Vertices /\ hasStartAction
  BY <1>1, StartOptions
<1>3. actions[v] = Own(v) \/ actions[v] = Visited(v)
  BY <1>2 DEF OptionsInOrder
<1>4. TypeOf(v) = actions[v].type
  BY <1>3 DEF Own, Visited
<1>5. actions' = [actions EXCEPT ![v].options = Defaulted(v)]
  BY <1>1, <1>4, CopiesDefaults
<1>6. actions'[v] = Visited(v)
  BY <1>3, <1>5 DEF OptionsInOrder, Own, Visited
<1>7. DOMAIN actions' = Vertices /\ \A w \in Vertices \ {v} : actions'[w] = actions[w]
  BY <1>5 DEF OptionsInOrder
<1>8. /\ DOMAIN gens' = Slots
      /\ \A t \in Slots \ {s} : gens'[t] = gens[t]
      /\ gens'[s].kind \in Generating /\ DOMAIN gens'[s] = DOMAIN NoGen /\ gens'[s].at = v
      /\ gens'[s].kind = "traffic" => actions[v].type = "traffic"
  BY <1>1, NewGeneratorKeeps
<1>9. Walk
  BY DEF Walk
<1>10. \A w \in Stored : \/ actions'[w] = actions[w]
                         \/ actions'[w] = Visited(w) /\ TypeOf(w) \in Generating /\ hasStartAction
  BY <1>1, <1>2, <1>4, <1>6, <1>7
<1>11. ASSUME NEW t \in Slots
       PROVE  \/ gens'[t] = NoGen
              \/ /\ gens[t].kind # "NONE" /\ gens'[t].kind = gens[t].kind
                 /\ gens'[t].at = gens[t].at /\ DOMAIN gens'[t] = DOMAIN NoGen
              \/ /\ gens'[t].kind \in Generating /\ DOMAIN gens'[t] = DOMAIN NoGen
                 /\ gens'[t].at \in Stored /\ TypeOf(gens'[t].at) \in Generating
                 /\ hasStartAction /\ actions'[gens'[t].at] = Visited(gens'[t].at)
                 /\ gens'[t].kind = "traffic" => TypeOf(gens'[t].at) = "traffic"
  <2>1. CASE t # s
    BY <1>8, <2>1, GensStay
  <2>2. CASE t = s
    BY <1>1, <1>2, <1>4, <1>6, <1>8, <2>2
  <2> QED
    BY <2>1, <2>2
<1> QED
  BY <1>2, <1>7, <1>8, <1>9, <1>10, <1>11, GensKeepOptions

\* A flow is created for the action of the generator that asks for it.
LEMMA FlowKeepsOptions ==
  ASSUME TypeOK, LoadInOrder, OptionsInOrder, NEW g \in Slots, NEW s \in Slots, createFlow(g, s)
  PROVE  OptionsInOrder'
<1>1. /\ phase = "run" /\ gens[g].kind = "traffic" /\ UNCHANGED actions
      /\ NewGenerator(s, "flow", gens[g].at, g, actions[gens[g].at].options)
  BY DEF createFlow, Idle
<1>2. /\ gens[g].at \in Stored /\ TypeOf(gens[g].at) \in Generating /\ hasStartAction
      /\ actions[gens[g].at] = Visited(gens[g].at)
  BY <1>1 DEF OptionsInOrder
<1>3. "flow" \in Generating /\ "flow" # "traffic"
  BY DEF Generating
<1>4. /\ DOMAIN gens' = Slots
      /\ \A t \in Slots \ {s} : gens'[t] = gens[t]
      /\ gens'[s].kind \in Generating /\ DOMAIN gens'[s] = DOMAIN NoGen
      /\ gens'[s].at = gens[g].at /\ gens'[s].kind # "traffic"
  BY <1>1, <1>3, NewGeneratorKeeps
<1>5. Walk /\ DOMAIN actions' = Vertices
  BY <1>1 DEF Walk, OptionsInOrder
<1>6. ASSUME NEW t \in Slots
      PROVE  \/ gens'[t] = NoGen
             \/ /\ gens[t].kind # "NONE" /\ gens'[t].kind = gens[t].kind
                /\ gens'[t].at = gens[t].at /\ DOMAIN gens'[t] = DOMAIN NoGen
             \/ /\ gens'[t].kind \in Generating /\ DOMAIN gens'[t] = DOMAIN NoGen
                /\ gens'[t].at \in Stored /\ TypeOf(gens'[t].at) \in Generating
                /\ hasStartAction /\ actions'[gens'[t].at] = Visited(gens'[t].at)
                /\ gens'[t].kind = "traffic" => TypeOf(gens'[t].at) = "traffic"
  <2>1. CASE t # s
    BY <1>4, <2>1, GensStay
  <2>2. CASE t = s
    BY <1>1, <1>2, <1>4, <2>2
  <2> QED
    BY <2>1, <2>2
<1> QED
  BY <1>1, <1>2, <1>4, <1>5, <1>6, GensKeepOptions

\* So does every other step of the walk: the actions stay, and so do the generators, but
\* for the one that ends or is no longer new.
LEMMA OthersKeepOptions ==
  ASSUME TypeOK, LoadInOrder, OptionsInOrder, Walk, UNCHANGED actions,
         phase' = "run" => hasStartAction,
         \/ UNCHANGED gens
         \/ \E g \in Slots : gens' = [gens EXCEPT ![g] = NoGen]
         \/ \E g \in Slots : gens[g] # NoGen /\ gens' = [gens EXCEPT ![g].fresh = FALSE]
  PROVE  OptionsInOrder'
<1>1. DOMAIN gens = Slots /\ DOMAIN actions = Vertices
  BY DEF OptionsInOrder
<1>2. DOMAIN gens' = Slots /\ DOMAIN actions' = Vertices
  BY <1>1
<1>3. ASSUME NEW s \in Slots
      PROVE  \/ gens'[s] = NoGen
             \/ /\ gens[s].kind # "NONE" /\ gens'[s].kind = gens[s].kind
                /\ gens'[s].at = gens[s].at /\ DOMAIN gens'[s] = DOMAIN NoGen
  <2>1. CASE gens'[s] = NoGen \/ gens'[s] = gens[s]
    BY <2>1, GensStay
  <2>2. CASE gens[s] # NoGen /\ gens'[s] = [gens[s] EXCEPT !.fresh = FALSE]
    <3>1. DOMAIN gens[s] = DOMAIN NoGen /\ gens[s].kind # "NONE"
      BY <2>2 DEF OptionsInOrder
    <3> QED
      BY <2>2, <3>1 DEF NoGen
  <2>3. \/ gens'[s] = NoGen \/ gens'[s] = gens[s]
        \/ gens[s] # NoGen /\ gens'[s] = [gens[s] EXCEPT !.fresh = FALSE]
    BY <1>1
  <2> QED
    BY <2>1, <2>2, <2>3
<1> QED
  BY <1>2, <1>3, GensKeepOptions

\* The options of the actions stay in order.
LEMMA OptionsKept ==
  ASSUME TypeOK, LoadInOrder, OptionsInOrder, [Next]_vars
  PROVE  OptionsInOrder'
<1>1. CASE parseGraphProperties
  <2>1. /\ Loading /\ phase' # "run" /\ UNCHANGED <<conf, gens, actions, pos>>
    BY <1>1 DEF parseGraphProperties, Loading, load, run
  <2>2. /\ \A v \in Stored : actions[v] = Own(v)
        /\ DOMAIN actions = Vertices /\ \A v \in Vertices \ Stored : actions[v] = NoAction
    BY <2>1, LoadingOptions DEF OptionsInOrder
  <2>3. \A v : Own(v)' = Own(v)
    BY <2>1, ConfStays DEF Own
  <2> QED
    BY <2>1, <2>2, <2>3, LoadingKeepsOptions DEF Stored
<1>2. CASE parseVertex
  BY <1>2, ParseKeepsOptions
<1>3. CASE endVertices
  <2>1. /\ Loading /\ phase' # "run" /\ UNCHANGED <<conf, gens, actions, pos>>
    BY <1>3 DEF endVertices, Loading, load, run
  <2>2. /\ \A v \in Stored : actions[v] = Own(v)
        /\ DOMAIN actions = Vertices /\ \A v \in Vertices \ Stored : actions[v] = NoAction
    BY <2>1, LoadingOptions DEF OptionsInOrder
  <2>3. \A v : Own(v)' = Own(v)
    BY <2>1, ConfStays DEF Own
  <2> QED
    BY <2>1, <2>2, <2>3, LoadingKeepsOptions DEF Stored
<1>4. CASE Walk
  <2>1. CASE tgendriver_new
    <3>1. UNCHANGED <<actions, gens>> /\ (phase' = "run" => hasStartAction)
      BY <2>1 DEF tgendriver_new, getStartOptions, Abort
    <3> QED
      BY <1>4, <3>1, OthersKeepOptions
  <2>2. CASE cleanup
    <3>1. UNCHANGED <<actions, gens>> /\ phase' # "run"
      BY <2>2 DEF cleanup, run
    <3> QED
      BY <1>4, <3>1, OthersKeepOptions
  <2>3. ASSUME NEW v \in Vertices, ProcessStart(v) \/ ProcessPause(v) \/ checkEndConditions(v)
        PROVE  OptionsInOrder'
    <3>1. UNCHANGED <<actions, gens>> /\ phase = "run"
      BY <2>3 DEF ProcessStart, ProcessPause, checkEndConditions, Idle
    <3> QED
      BY <1>4, <3>1, StartOptions, OthersKeepOptions
  <2>4. ASSUME NEW v \in Vertices, NEW s \in Slots, initiate(v, s)
        PROVE  OptionsInOrder'
    BY <2>4, InitiateKeepsOptions
  <2>5. ASSUME NEW g \in Slots, createStream(g)
        PROVE  OptionsInOrder'
    <3>1. /\ phase = "run" /\ UNCHANGED actions /\ gens' = [gens EXCEPT ![g].fresh = FALSE]
          /\ gens[g].fresh \/ gens[g].kind = "flow"
      BY <2>5 DEF createStream
    <3>2. gens[g] # NoGen
      BY <3>1 DEF NoGen
    <3> QED
      BY <1>4, <3>1, <3>2, StartOptions, OthersKeepOptions
  <2>6. ASSUME NEW g \in Slots, onComplete(g)
        PROVE  OptionsInOrder'
    <3>1. phase = "run" /\ UNCHANGED actions /\ gens' = [gens EXCEPT ![g] = NoGen]
      BY <2>6 DEF onComplete, Idle
    <3> QED
      BY <1>4, <3>1, StartOptions, OthersKeepOptions
  <2>7. ASSUME NEW g \in Slots, NEW s \in Slots, createFlow(g, s)
        PROVE  OptionsInOrder'
    BY <2>7, FlowKeepsOptions
  <2>8. ASSUME NEW path \in files, Rewrite(path)
        PROVE  OptionsInOrder'
    <3>1. UNCHANGED <<actions, gens>> /\ phase = "run"
      BY <2>8 DEF Rewrite, run
    <3> QED
      BY <1>4, <3>1, StartOptions, OthersKeepOptions
  <2> QED
    BY <1>4, <2>1, <2>2, <2>3, <2>4, <2>5, <2>6, <2>7, <2>8 DEF Walk
<1>5. CASE UNCHANGED vars
  <2>1. UNCHANGED <<conf, phase, pos, actions, startAction, hasStartAction, gens>>
    BY <1>5 DEF vars
  <2> QED
    BY <2>1, ConfStays, StoredStays DEF OptionsInOrder, Stored, Loading, Slots
<1> QED
  BY <1>1, <1>2, <1>3, <1>4, <1>5 DEF Next, Walk
-----------------------------------------------------------------------------
(* Pools and the references to them.                                       *)

\* The options that hold the pool, of some vertices.
HoldersOf(T, id) == {h \in T \X PoolNames : h[2] \in Holds(actions, h[1], id)}

\* The options of pools are finitely many.
LEMMA HolderTypes ==
  ASSUME conf \in Cases
  PROVE  /\ IsFiniteSet(Vertices) /\ IsFiniteSet(PoolNames)
         /\ \A T \in SUBSET Vertices : \A id :
              IsFiniteSet(HoldersOf(T, id)) /\ Cardinality(HoldersOf(T, id)) \in Nat
         /\ \A v, id : /\ Holds(actions, v, id) \subseteq PoolNames
                       /\ IsFiniteSet(Holds(actions, v, id))
                       /\ Cardinality(Holds(actions, v, id)) \in Nat
<1>1. IsFiniteSet(Vertices)
  <2>1. IsFiniteSet(1 .. Len(conf.words))
    BY VertexNumbers, FS_Interval
  <2> QED
    BY <2>1, VertexNumbers
<1>2. IsFiniteSet(PoolNames)
  <2> DEFINE A == ((({} \cup {"time"}) \cup {"peers"}) \cup {"socksproxy"})
             B == (A \cup {"seedGenerator"}) \cup {"socksAuthGenerator"}
  <2>1. IsFiniteSet(A)
    BY FS_EmptySet, FS_AddElement
  <2>2. IsFiniteSet(A \cup {"seedGenerator"})
    BY <2>1, FS_AddElement
  <2>3. IsFiniteSet(B)
    BY <2>2, FS_AddElement
  <2>4. PoolNames = B
    BY DEF PoolNames
  <2> QED
    BY <2>3, <2>4
<1>3. ASSUME NEW T \in SUBSET Vertices, NEW id
      PROVE  IsFiniteSet(HoldersOf(T, id)) /\ Cardinality(HoldersOf(T, id)) \in Nat
  <2>1. IsFiniteSet(T \X PoolNames)
    BY <1>1, <1>2, FS_Subset, FS_Product
  <2>2. HoldersOf(T, id) \in SUBSET (T \X PoolNames)
    BY DEF HoldersOf
  <2>3. IsFiniteSet(HoldersOf(T, id))
    BY <2>1, <2>2, FS_Subset
  <2> QED
    BY <2>3, FS_CardinalityType
<1>4. ASSUME NEW v, NEW id
      PROVE  /\ Holds(actions, v, id) \subseteq PoolNames
             /\ IsFiniteSet(Holds(actions, v, id))
             /\ Cardinality(Holds(actions, v, id)) \in Nat
  <2>1. Holds(actions, v, id) \in SUBSET PoolNames
    BY DEF Holds, PoolOptions, PoolNames
  <2>2. IsFiniteSet(Holds(actions, v, id))
    BY <1>2, <2>1, FS_Subset
  <2> QED
    BY <2>1, <2>2, FS_CardinalityType
<1> QED
  BY <1>1, <1>2, <1>3, <1>4

\* Pairs with the same first part are as many as their second parts.
LEMMA PairsCount ==
  ASSUME NEW H, IsFiniteSet(H), NEW v
  PROVE  IsFiniteSet({<<v, o>> : o \in H}) /\ Cardinality({<<v, o>> : o \in H}) = Cardinality(H)
<1> DEFINE Q == {<<v, o>> : o \in H}
           f == [o \in H |-> <<v, o>>]
<1>1. f \in [H -> Q] /\ (\A a, b \in H : f[a] = f[b] => a = b) /\ (\A q \in Q : \E o \in H : f[o] = q)
  OBVIOUS
<1>2. f \in Bijection(H, Q)
  <2>1. DOMAIN f = H
    OBVIOUS
  <2> HIDE DEF f, Q
  <2> QED
    BY <1>1, <2>1 DEF Bijection, Injection, IsInjective, Surjection
<1>3. ExistsBijection(H, Q)
  BY <1>2 DEF ExistsBijection
<1> HIDE DEF Q
<1>4. IsFiniteSet(Q) /\ Cardinality(Q) = Cardinality(H)
  BY <1>3, FS_Bijection
<1> QED
  BY <1>4 DEF Q

\* The holders of a pool, with and without one vertex.
LEMMA HoldersSplit ==
  ASSUME conf \in Cases, NEW T \in SUBSET Vertices, NEW v \in T, NEW id
  PROVE  Cardinality(HoldersOf(T, id)) =
           Cardinality(HoldersOf(T \ {v}, id)) + Cardinality(Holds(actions, v, id))
<1> DEFINE H == Holds(actions, v, id)
           Q == {<<v, o>> : o \in H}
           U == HoldersOf(T \ {v}, id)
<1>1. H \subseteq PoolNames /\ IsFiniteSet(H) /\ Cardinality(H) \in Nat
  BY HolderTypes
<1>2. IsFiniteSet(Q) /\ Cardinality(Q) = Cardinality(H)
  BY <1>1, PairsCount
<1>3. IsFiniteSet(U) /\ Cardinality(U) \in Nat
  <2>1. T \ {v} \in SUBSET Vertices
    OBVIOUS
  <2> QED
    BY <2>1, HolderTypes
<1>4. HoldersOf(T, id) = U \cup Q /\ U \cap Q = {}
  BY <1>1 DEF HoldersOf
<1> HIDE DEF H, Q, U
<1>5. Cardinality(U \cup Q) = Cardinality(U) + Cardinality(Q) - Cardinality(U \cap Q)
  BY <1>2, <1>3, FS_Union
<1>6. Cardinality(U \cap Q) = 0
  BY <1>4, FS_EmptySet
<1>7. Cardinality(U \cup Q) = Cardinality(U) + Cardinality(H)
  BY <1>1, <1>2, <1>3, <1>5, <1>6
<1> QED
  BY <1>4, <1>7 DEF H, U

\* A pool with another number of references.
Recounted(id, n) == [items |-> pools[id].items, refs |-> n]

\* The pools as freeing the actions of T leaves them.
Freed(T) ==
  [id \in DOMAIN pools |-> Recounted(id, pools[id].refs - Cardinality(HoldersOf(T, id)))]

\* Freeing one more action takes its references off.
LEMMA FreedOneMore ==
  ASSUME TypeOK, NEW T \in SUBSET Vertices, NEW v \in T
  PROVE  Freed(T) = freeActionHelper(v, Freed(T \ {v}))
<1> DEFINE P == Freed(T \ {v})
<1>1. conf \in Cases
  BY DEF TypeOK
<1>2. DOMAIN P = DOMAIN pools
  BY DEF Freed
<1>3. ASSUME NEW id \in DOMAIN pools
      PROVE  [P[id] EXCEPT !.refs = @ - Cardinality(Holds(actions, v, id))]
               = Recounted(id, pools[id].refs - Cardinality(HoldersOf(T, id)))
  <2> DEFINE a == Cardinality(HoldersOf(T \ {v}, id))
             b == Cardinality(Holds(actions, v, id))
             c == Cardinality(HoldersOf(T, id))
             n == pools[id].refs
  <2>1. a \in Nat /\ b \in Nat /\ c = a + b
    <3>1. T \ {v} \in SUBSET Vertices
      OBVIOUS
    <3> QED
      BY <1>1, <3>1, HolderTypes, HoldersSplit
  <2>2. n \in Nat
    BY DEF TypeOK
  <2>3. P[id] = Recounted(id, n - a)
    BY DEF Freed
  <2> HIDE DEF a, b, c, n, P
  <2>4. (n - a) - b = n - c
    BY <2>1, <2>2
  <2>5. [P[id] EXCEPT !.refs = @ - b] = Recounted(id, (n - a) - b)
    BY <2>3 DEF Recounted
  <2> QED
    BY <2>4, <2>5 DEF b, c, n
<1> HIDE DEF P
<1>4. freeActionHelper(v, P) =
        [id \in DOMAIN pools |-> [P[id] EXCEPT !.refs = @ - Cardinality(Holds(actions, v, id))]]
  BY <1>2 DEF freeActionHelper
<1>5. freeActionHelper(v, P) =
        [id \in DOMAIN pools |->
           Recounted(id, pools[id].refs - Cardinality(HoldersOf(T, id)))]
  BY <1>3, <1>4
<1> QED
  BY <1>5 DEF Freed, P

\* Freeing no action changes nothing.
LEMMA FreedNone ==
  ASSUME TypeOK, PoolsInOrder
  PROVE  Freed({}) = pools
<1>1. ASSUME NEW id \in DOMAIN pools
      PROVE  Recounted(id, pools[id].refs - Cardinality(HoldersOf({}, id))) = pools[id]
  <2>1. HoldersOf({}, id) = {}
    BY DEF HoldersOf
  <2>2. Cardinality(HoldersOf({}, id)) = 0
    BY <2>1, FS_EmptySet
  <2>3. pools[id].refs \in Nat
    BY DEF TypeOK
  <2>4. pools[id].refs - 0 = pools[id].refs
    BY <2>3
  <2>5. pools[id] = [items |-> pools[id].items, refs |-> pools[id].refs]
    BY DEF PoolsInOrder
  <2> QED
    BY <2>2, <2>4, <2>5 DEF Recounted
<1>2. pools = [id \in DOMAIN pools |-> pools[id]]
  BY DEF PoolsInOrder
<1>3. Freed({}) = [id \in DOMAIN pools |-> pools[id]]
  BY <1>1 DEF Freed
<1> QED
  BY <1>2, <1>3

\* Freeing the graph takes off all the references that its options have.
LEMMA ReleaseFrees ==
  ASSUME TypeOK, PoolsInOrder, Release
  PROVE  pools' = Freed(Vertices)
<1> DEFINE V == Vertices
           Body(h) == [T \in SUBSET V |->
                         IF T = {} THEN pools ELSE freeActionHelper(AnyOf(T), h[T \ {AnyOf(T)}])]
           it == CHOOSE h : h = Body(h)
           E == [T \in SUBSET V |-> Freed(T)]
<1>1. pools' = it[V]
  BY DEF Release, FoldSet, MapThenFoldSet, AnyOf
<1>2. V = Vertices /\ IsFiniteSet(V)
  BY HolderTypes DEF TypeOK
<1> HIDE DEF V
<1>3. ASSUME NEW T \in SUBSET V
      PROVE  E[T] = IF T = {} THEN pools ELSE freeActionHelper(AnyOf(T), E[T \ {AnyOf(T)}])
  <2>1. CASE T = {}
    BY <2>1, FreedNone
  <2>2. CASE T # {}
    <3>1. AnyOf(T) \in T /\ T \ {AnyOf(T)} \in SUBSET V /\ T \in SUBSET Vertices
      BY <1>2, <2>2, AnyOfIn
    <3>2. Freed(T) = freeActionHelper(AnyOf(T), Freed(T \ {AnyOf(T)}))
      BY <3>1, FreedOneMore
    <3> QED
      BY <2>2, <3>1, <3>2
  <2> QED
    BY <2>1, <2>2
<1>4. E = Body(E)
  BY <1>3
<1>5. it = Body(it)
  BY <1>4
<1> HIDE DEF it, E
<1>6. it[{}] = E[{}]
  BY <1>3, <1>5
<1>7. \A T \in (SUBSET V) \ {{}} :
        it[T \ {AnyOf(T)}] = E[T \ {AnyOf(T)}] => it[T] = E[T]
  BY <1>3, <1>5
<1>8. \A T \in SUBSET V : it[T] = E[T]
  BY <1>2, <1>6, <1>7, FoldsAgree
<1>9. pools' = Freed(V)
  BY <1>1, <1>8 DEF E
<1> QED
  BY <1>2, <1>9

\* The options of which a pool is shared when v is visited.
Shares(T, v, id) == {o \in T : CopyDefaults(v)[o] = id}

\* The pools as the options of T leave them, when v is visited.
Shared(T, v) == [id \in DOMAIN pools |-> Recounted(id, pools[id].refs + Cardinality(Shares(T, v, id)))]

\* One more option takes one more reference.
LEMMA SharedOneMore ==
  ASSUME TypeOK, NEW v, NEW T \in SUBSET PoolNames, NEW o \in T
  PROVE  Shared(T, v) = [Shared(T \ {o}, v) EXCEPT ![CopyDefaults(v)[o]].refs = @ + 1]
<1> DEFINE P == Shared(T \ {o}, v)
           c == CopyDefaults(v)[o]
<1>1. IsFiniteSet(PoolNames) /\ conf \in Cases
  BY HolderTypes DEF TypeOK
<1>2. P = [id \in DOMAIN pools |->
             Recounted(id, pools[id].refs + Cardinality(Shares(T \ {o}, v, id)))]
  BY DEF Shared
<1>3. ASSUME NEW id \in DOMAIN pools
      PROVE  [P EXCEPT ![c].refs = @ + 1][id]
               = Recounted(id, pools[id].refs + Cardinality(Shares(T, v, id)))
  <2> DEFINE U == Shares(T \ {o}, v, id)
  <2>1. IsFiniteSet(U) /\ Cardinality(U) \in Nat /\ o \notin U
    <3>1. U \in SUBSET PoolNames /\ o \notin U
      BY DEF Shares
    <3>2. IsFiniteSet(U)
      BY <1>1, <3>1, FS_Subset
    <3> QED
      BY <3>1, <3>2, FS_CardinalityType
  <2>2. P[id] = Recounted(id, pools[id].refs + Cardinality(U))
    BY <1>2
  <2>3. pools[id].refs \in Nat
    BY DEF TypeOK
  <2>4. CASE c = id
    <3>1. Shares(T, v, id) = U \cup {o}
      BY <2>4 DEF Shares
    <3>2. Cardinality(Shares(T, v, id)) = Cardinality(U) + 1
      BY <2>1, <3>1, FS_AddElement
    <3>3. [P EXCEPT ![c].refs = @ + 1][id] = [P[id] EXCEPT !.refs = @ + 1]
      BY <1>2, <2>4
    <3> HIDE DEF U, P, c
    <3>4. [P[id] EXCEPT !.refs = @ + 1] = Recounted(id, (pools[id].refs + Cardinality(U)) + 1)
      BY <2>2 DEF Recounted
    <3>5. (pools[id].refs + Cardinality(U)) + 1 = pools[id].refs + (Cardinality(U) + 1)
      BY <2>1, <2>3
    <3> QED
      BY <3>2, <3>3, <3>4, <3>5
  <2>5. CASE c # id
    <3>1. Shares(T, v, id) = U
      BY <2>5 DEF Shares
    <3>2. [P EXCEPT ![c].refs = @ + 1][id] = P[id]
      BY <1>2, <2>5
    <3> QED
      BY <2>2, <3>1, <3>2
  <2> QED
    BY <2>4, <2>5
<1>4. [P EXCEPT ![c].refs = @ + 1] = [id \in DOMAIN pools |-> [P EXCEPT ![c].refs = @ + 1][id]]
  BY <1>2
<1> HIDE DEF P, c
<1>5. [P EXCEPT ![c].refs = @ + 1]
        = [id \in DOMAIN pools |-> Recounted(id, pools[id].refs + Cardinality(Shares(T, v, id)))]
  BY <1>3, <1>4
<1> QED
  BY <1>5 DEF Shared, P, c

\* Nothing shared changes nothing.
LEMMA SharedNone ==
  ASSUME TypeOK, PoolsInOrder, NEW v
  PROVE  Shared({}, v) = pools
<1>1. ASSUME NEW id \in DOMAIN pools
      PROVE  Recounted(id, pools[id].refs + Cardinality(Shares({}, v, id))) = pools[id]
  <2>1. Shares({}, v, id) = {}
    BY DEF Shares
  <2>2. Cardinality(Shares({}, v, id)) = 0
    BY <2>1, FS_EmptySet
  <2>3. pools[id].refs \in Nat
    BY DEF TypeOK
  <2>4. pools[id].refs + 0 = pools[id].refs
    BY <2>3
  <2>5. pools[id] = [items |-> pools[id].items, refs |-> pools[id].refs]
    BY DEF PoolsInOrder
  <2> QED
    BY <2>2, <2>4, <2>5 DEF Recounted
<1>2. pools = [id \in DOMAIN pools |-> pools[id]]
  BY DEF PoolsInOrder
<1>3. Shared({}, v) = [id \in DOMAIN pools |-> pools[id]]
  BY <1>1 DEF Shared
<1> QED
  BY <1>2, <1>3

\* A visit takes a reference for every option that it copies.
LEMMA VisitShares ==
  ASSUME TypeOK, PoolsInOrder, NEW v, NEW s, initiate(v, s)
  PROVE  pools' = Shared(Copied(v), v)
<1> DEFINE C == Copied(v)
           Body(h) == [T \in SUBSET C |->
                         IF T = {} THEN pools
                         ELSE [h[T \ {AnyOf(T)}] EXCEPT ![CopyDefaults(v)[AnyOf(T)]].refs = @ + 1]]
           it == CHOOSE h : h = Body(h)
           E == [T \in SUBSET C |-> Shared(T, v)]
<1>1. pools' = it[C]
  BY DEF initiate, FoldSet, MapThenFoldSet, AnyOf
<1>2. C \in SUBSET PoolNames /\ IsFiniteSet(C)
  <2>1. C \in SUBSET PoolNames
    BY DEF Copied, PoolOptions, PoolNames
  <2>2. IsFiniteSet(PoolNames)
    BY HolderTypes DEF TypeOK
  <2> QED
    BY <2>1, <2>2, FS_Subset
<1> HIDE DEF C
<1>3. ASSUME NEW T \in SUBSET C
      PROVE  E[T] = IF T = {} THEN pools
                    ELSE [E[T \ {AnyOf(T)}] EXCEPT ![CopyDefaults(v)[AnyOf(T)]].refs = @ + 1]
  <2>1. CASE T = {}
    BY <2>1, SharedNone
  <2>2. CASE T # {}
    <3>1. AnyOf(T) \in T /\ T \ {AnyOf(T)} \in SUBSET C /\ T \in SUBSET PoolNames
      BY <1>2, <2>2, AnyOfIn
    <3>2. Shared(T, v)
            = [Shared(T \ {AnyOf(T)}, v) EXCEPT ![CopyDefaults(v)[AnyOf(T)]].refs = @ + 1]
      BY <3>1, SharedOneMore
    <3> QED
      BY <2>2, <3>1, <3>2
  <2> QED
    BY <2>1, <2>2
<1>4. E = Body(E)
  BY <1>3
<1>5. it = Body(it)
  BY <1>4
<1> HIDE DEF it, E
<1>6. it[{}] = E[{}]
  BY <1>3, <1>5
<1>7. \A T \in (SUBSET C) \ {{}} :
        it[T \ {AnyOf(T)}] = E[T \ {AnyOf(T)}] => it[T] = E[T]
  BY <1>3, <1>5
<1>8. \A T \in SUBSET C : it[T] = E[T]
  BY <1>2, <1>6, <1>7, FoldsAgree
<1> QED
  BY <1>1, <1>8 DEF E, C

\* What names a pool: the vertex and the option for which it was made.
LEMMA PoolIds ==
  ASSUME conf \in Cases, NEW v \in Vertices
  PROVE  /\ \A id \in DOMAIN NewPools(v) :
              /\ id \in Vertices \X PoolNames /\ id[1] = v /\ id # Unset
              /\ id[2] \in PoolOptions(TypeOf(v)) /\ HasPool(v, id[2])
              /\ NewPools(v)[id] = [items |-> Items(v, id[2]), refs |-> 1]
         /\ \A o \in PoolOptions(TypeOf(v)) :
              /\ o \in PoolNames /\ <<v, o>> # Unset
              /\ Options(v)[o] = IF HasPool(v, o) THEN <<v, o>> ELSE Unset
              /\ HasPool(v, o) => <<v, o>> \in DOMAIN NewPools(v)
<1>1. PoolOptions(TypeOf(v)) \subseteq PoolNames
  BY DEF PoolOptions, PoolNames
<1>2. \A o \in PoolNames : <<v, o>> \in Vertices \X PoolNames /\ <<v, o>> # Unset
  BY CasesAssumption DEF Vertices
<1>3. DOMAIN NewPools(v) = {<<v, o>> : o \in {o \in PoolOptions(TypeOf(v)) : HasPool(v, o)}}
  BY DEF NewPools
<1>4. \A o \in PoolOptions(TypeOf(v)) :
        Options(v)[o] = IF HasPool(v, o) THEN <<v, o>> ELSE Unset
  BY DEF Options
<1>5. \A id \in DOMAIN NewPools(v) : NewPools(v)[id] = [items |-> Items(v, id[2]), refs |-> 1]
  BY DEF NewPools
<1> QED
  BY <1>1, <1>2, <1>3, <1>4, <1>5

\* Which options of an action with its own options hold a pool.
LEMMA OwnHolds ==
  ASSUME conf \in Cases, NEW v \in Vertices, NEW acts, acts[v] = Own(v), NEW id, id # Unset
  PROVE  Holds(acts, v, id) = {o \in PoolOptions(TypeOf(v)) : HasPool(v, o) /\ id = <<v, o>>}
<1>1. acts[v].type = TypeOf(v) /\ acts[v].options = Options(v)
  BY DEF Own
<1>2. ASSUME NEW o \in PoolOptions(TypeOf(v))
      PROVE  Options(v)[o] = id <=> HasPool(v, o) /\ id = <<v, o>>
  <2>1. Options(v)[o] = IF HasPool(v, o) THEN <<v, o>> ELSE Unset
    BY PoolIds
  <2>2. CASE HasPool(v, o)
    BY <2>1, <2>2
  <2>3. CASE ~HasPool(v, o)
    BY <2>1, <2>3
  <2> QED
    BY <2>2, <2>3
<1> QED
  BY <1>1, <1>2 DEF Holds

\* The pools that there are belong to the vertices that are stored.
LEMMA PoolDomain ==
  ASSUME TypeOK, PoolsInOrder, Stored \subseteq Vertices
  PROVE  /\ DOMAIN pools = UNION {DOMAIN NewPools(v) : v \in Stored}
         /\ \A id \in DOMAIN pools : id \in Vertices \X PoolNames /\ id[1] \in Stored /\ id # Unset
         /\ \A id \in DOMAIN pools : pools[id] = [items |-> pools[id].items, refs |-> pools[id].refs]
<1>1. conf \in Cases
  BY DEF TypeOK
<1>2. /\ DOMAIN pools = UNION {DOMAIN NewPools(v) : v \in Stored}
      /\ \A id \in DOMAIN pools : pools[id] = [items |-> pools[id].items, refs |-> pools[id].refs]
  BY DEF PoolsInOrder
<1> QED
  BY <1>1, <1>2, PoolIds

\* Pools that keep their names and their shape stay in order.
LEMMA PoolsReshaped ==
  ASSUME PoolsInOrder, UNCHANGED <<conf, pos>>, NEW f, pools' = [id \in DOMAIN pools |-> f[id]],
         \A id \in DOMAIN pools : f[id] = [items |-> f[id].items, refs |-> f[id].refs]
  PROVE  PoolsInOrder'
<1>1. DOMAIN pools = UNION {DOMAIN NewPools(v) : v \in Stored}
  BY DEF PoolsInOrder
<1>2. (UNION {DOMAIN NewPools(v) : v \in Stored})' = UNION {DOMAIN NewPools(v) : v \in Stored}
  BY ConfStays DEF Stored
<1>3. pools' = [id \in DOMAIN pools |-> [items |-> pools'[id].items, refs |-> pools'[id].refs]]
  OBVIOUS
<1> QED
  BY <1>1, <1>2, <1>3 DEF PoolsInOrder

\* What there is to show of the pools.
PoolsOK == PoolsInOrder /\ PoolsExact /\ \A id \in DOMAIN pools : pools[id].refs \in Nat

\* The holders of a pool change only with the actions.
LEMMA HoldersStay ==
  ASSUME UNCHANGED <<conf, actions>>
  PROVE  \A id : Holders(id)' = Holders(id)
BY ConfStays DEF Holders, Holds

\* The references to all pools are counted exactly, as long as none is given back.
LEMMA RefsHeld ==
  ASSUME PoolsExact, phase \notin {"freed", "rejected"}
  PROVE  \A id \in DOMAIN pools : pools[id].refs = Cardinality(Holders(id))
BY DEF PoolsExact

\* Nothing happens to the pools.
LEMMA PoolsStill ==
  ASSUME TypeOK, PoolsInOrder, PoolsExact, UNCHANGED <<conf, pos, actions, pools>>,
         phase \notin {"freed", "rejected"}, phase' \notin {"freed", "rejected"}
  PROVE  PoolsOK'
<1>1. PoolsInOrder'
  BY ConfStays DEF PoolsInOrder, Stored
<1>2. PoolsExact'
  BY HoldersStay, RefsHeld DEF PoolsExact
<1>3. (\A id \in DOMAIN pools : pools[id].refs \in Nat)'
  BY DEF TypeOK
<1> QED
  BY <1>1, <1>2, <1>3 DEF PoolsOK

\* When all actions are freed no pool has a reference left.
LEMMA PoolsFreed ==
  ASSUME TypeOK, PoolsInOrder, PoolsExact, UNCHANGED <<conf, pos>>, Release,
         phase \notin {"freed", "rejected"}, phase' \in {"freed", "rejected"}
  PROVE  PoolsOK'
<1>1. pools' = Freed(Vertices)
  BY ReleaseFrees
<1> DEFINE f == [id \in DOMAIN pools |-> Recounted(id, 0)]
<1>2. ASSUME NEW id \in DOMAIN pools
      PROVE  Recounted(id, pools[id].refs - Cardinality(HoldersOf(Vertices, id))) = f[id]
  <2>1. pools[id].refs \in Nat
    BY DEF TypeOK
  <2>2. HoldersOf(Vertices, id) = Holders(id)
    BY DEF HoldersOf, Holders
  <2>3. pools[id].refs = Cardinality(HoldersOf(Vertices, id))
    BY <2>2, RefsHeld
  <2>4. \A n \in Nat : n - n = 0
    OBVIOUS
  <2> QED
    BY <2>1, <2>3, <2>4
<1>3. pools' = [id \in DOMAIN pools |-> f[id]]
  BY <1>1, <1>2 DEF Freed
<1>4. \A id \in DOMAIN pools : f[id].refs = 0 /\ f[id] = [items |-> f[id].items, refs |-> f[id].refs]
  BY DEF Recounted
<1> HIDE DEF f
<1>5. PoolsInOrder'
  BY <1>3, <1>4, PoolsReshaped
<1>6. \A id \in DOMAIN pools' : pools'[id].refs = 0
  BY <1>3, <1>4
<1>7. PoolsExact'
  BY <1>6 DEF PoolsExact
<1> QED
  BY <1>5, <1>6, <1>7 DEF PoolsOK

\* The pools of a vertex that is stored are held by its own options, and by no others.
LEMMA ParseKeepsPools ==
  ASSUME TypeOK, LoadInOrder, OptionsInOrder, PoolsInOrder, PoolsExact, parseVertex, VertexOK(pos)
  PROVE  PoolsOK'
<1> DEFINE N == NewPools(pos)
           D == DOMAIN pools
<1>1. /\ conf \in Cases /\ UNCHANGED conf /\ phase = "vertices" /\ phase' = "vertices"
      /\ pos \in Vertices /\ pos' = pos + 1
      /\ actions' = [actions EXCEPT ![pos] = Own(pos)]
      /\ pools' = [id \in D \cup DOMAIN N |-> IF id \in D THEN pools[id] ELSE N[id]]
  BY DEF parseVertex, TypeOK, Own
<1>2. Stored' = Stored \cup {pos} /\ pos \notin Stored /\ Stored \subseteq Vertices
  BY <1>1, StoredGrows
<1>3. /\ D = UNION {DOMAIN NewPools(v) : v \in Stored}
      /\ \A id \in D : /\ id \in Vertices \X PoolNames /\ id[1] \in Stored /\ id # Unset
                       /\ pools[id] = [items |-> pools[id].items, refs |-> pools[id].refs]
  BY <1>2, PoolDomain
<1>4. \A id \in DOMAIN N :
        /\ id \in Vertices \X PoolNames /\ id[1] = pos /\ id # Unset
        /\ id[2] \in PoolOptions(TypeOf(pos)) /\ HasPool(pos, id[2])
        /\ N[id] = [items |-> Items(pos, id[2]), refs |-> 1]
  BY <1>1, PoolIds
<1>5. /\ \A v \in Stored : actions[v] = Own(v) /\ actions'[v] = Own(v)
      /\ actions[pos] = NoAction /\ actions'[pos] = Own(pos)
      /\ \A v \in Vertices \ Stored' : actions[v] = NoAction /\ actions'[v] = NoAction
  <2>1. Loading /\ DOMAIN actions = Vertices
    BY <1>1 DEF Loading, OptionsInOrder
  <2>2. \A v \in Stored : actions[v] = Own(v)
    BY <2>1, LoadingOptions
  <2>3. \A v \in Vertices \ Stored : actions[v] = NoAction
    BY DEF OptionsInOrder
  <2> QED
    BY <1>1, <1>2, <2>1, <2>2, <2>3
<1>6. \A acts, v, id : acts[v] = NoAction => Holds(acts, v, id) = {}
  BY DEF Holds, PoolOptions, NoAction
<1> HIDE DEF N, D
<1>7. PoolsInOrder'
  <2>1. (UNION {DOMAIN NewPools(v) : v \in Stored})' = D \cup DOMAIN N
    <3>1. (UNION {DOMAIN NewPools(v) : v \in Stored})' = UNION {DOMAIN NewPools(v) : v \in Stored'}
      BY <1>1, ConfStays
    <3> QED
      BY <1>2, <1>3, <3>1 DEF N
  <2>2. ASSUME NEW id \in D \cup DOMAIN N
        PROVE  pools'[id] = [items |-> pools'[id].items, refs |-> pools'[id].refs]
    <3>1. CASE id \in D
      BY <1>1, <1>3, <3>1
    <3>2. CASE id \notin D
      <4>1. pools'[id] = [items |-> Items(pos, id[2]), refs |-> 1]
        BY <1>1, <1>4, <3>2
      <4> QED
        BY <4>1
    <3> QED
      BY <3>1, <3>2
  <2>3. pools' = [id \in D \cup DOMAIN N |-> [items |-> pools'[id].items, refs |-> pools'[id].refs]]
    BY <1>1, <2>2
  <2> QED
    BY <2>1, <2>3 DEF PoolsInOrder
<1>8. ASSUME NEW id \in D
      PROVE  pools'[id].refs = Cardinality(Holders(id)') /\ pools'[id].refs \in Nat
  <2>1. id[1] \in Stored /\ id # Unset
    BY <1>3
  <2>2. Holds(actions', pos, id) = {}
    <3>0. conf \in Cases /\ pos \in Vertices /\ actions'[pos] = Own(pos) /\ id # Unset
      BY <1>1, <1>5, <2>1
    <3>1. Holds(actions', pos, id) = {o \in PoolOptions(TypeOf(pos)) : HasPool(pos, o) /\ id = <<pos, o>>}
      BY <3>0, OwnHolds
    <3> QED
      BY <1>2, <2>1, <3>1
  <2>3. Holds(actions, pos, id) = {}
    BY <1>5, <1>6
  <2>4. \A v \in Vertices : Holds(actions', v, id) = Holds(actions, v, id)
    BY <1>2, <1>5, <2>2, <2>3 DEF Holds
  <2>5. Holders(id)' = Holders(id)
    <3>1. Holders(id)' = {h \in Vertices \X PoolNames : h[2] \in Holds(actions', h[1], id)}
      BY <1>1, ConfStays DEF Holders, Holds
    <3> QED
      BY <2>4, <3>1 DEF Holders
  <2>6. pools'[id].refs = pools[id].refs
    BY <1>1
  <2> QED
    BY <1>1, <2>5, <2>6, RefsHeld DEF D, TypeOK
<1>9. ASSUME NEW id \in DOMAIN N, id \notin D
      PROVE  pools'[id].refs = Cardinality(Holders(id)') /\ pools'[id].refs \in Nat
  <2>1. id \in Vertices \X PoolNames /\ id[1] = pos /\ id # Unset
    BY <1>4
  <2>2. Holds(actions', pos, id) = {id[2]}
    <3>0. conf \in Cases /\ pos \in Vertices /\ actions'[pos] = Own(pos) /\ id # Unset
      BY <1>1, <1>5, <2>1
    <3>1. Holds(actions', pos, id) = {o \in PoolOptions(TypeOf(pos)) : HasPool(pos, o) /\ id = <<pos, o>>}
      BY <3>0, OwnHolds
    <3>2. id = <<pos, id[2]>> /\ id[2] \in PoolOptions(TypeOf(pos)) /\ HasPool(pos, id[2])
      BY <1>4, <2>1
    <3> QED
      BY <3>1, <3>2
  <2>3. ASSUME NEW v \in Vertices, v # pos
        PROVE  Holds(actions', v, id) = {}
    <3>1. CASE v \in Stored
      <4>0. conf \in Cases /\ actions'[v] = Own(v) /\ id # Unset
        BY <1>1, <1>5, <2>1, <3>1
      <4>1. Holds(actions', v, id) = {o \in PoolOptions(TypeOf(v)) : HasPool(v, o) /\ id = <<v, o>>}
        BY <4>0, OwnHolds
      <4> QED
        BY <2>1, <2>3, <4>1
    <3>2. CASE v \notin Stored
      BY <1>2, <1>5, <1>6, <2>3, <3>2
    <3> QED
      BY <3>1, <3>2
  <2>4. Holders(id)' = {id}
    <3>1. Holders(id)' = {h \in Vertices \X PoolNames : h[2] \in Holds(actions', h[1], id)}
      BY <1>1, ConfStays DEF Holders, Holds
    <3>2. \A h \in Vertices \X PoolNames : h[2] \in Holds(actions', h[1], id) => h = id
      BY <2>1, <2>2, <2>3
    <3>3. id[2] \in Holds(actions', id[1], id)
      BY <2>1, <2>2
    <3> QED
      BY <2>1, <3>1, <3>2, <3>3
  <2>5. Cardinality({id}) = 1
    BY FS_Singleton
  <2>6. pools'[id].refs = 1
    BY <1>1, <1>4, <1>9
  <2> QED
    BY <2>4, <2>5, <2>6
<1>10. DOMAIN pools' = D \cup DOMAIN N
  BY <1>1
<1>11. PoolsExact'
  <2>1. \A id \in DOMAIN pools' : pools'[id].refs = Cardinality(Holders(id)')
    BY <1>8, <1>9, <1>10
  <2>2. phase' \notin {"freed", "rejected"}
    BY <1>1
  <2> QED
    BY <2>1, <2>2 DEF PoolsExact
<1> QED
  BY <1>7, <1>8, <1>9, <1>10, <1>11 DEF PoolsOK

\* A visit shares pools exactly as often as it makes options name them.
LEMMA VisitKeepsPools ==
  ASSUME TypeOK, LoadInOrder, OptionsInOrder, PoolsInOrder, PoolsExact,
         NEW v \in Vertices, NEW s \in Slots, initiate(v, s)
  PROVE  PoolsOK'
<1> DEFINE PO == PoolOptions(TypeOf(v))
           S(id) == Shares(Copied(v), v, id)
           Q(id) == {<<v, o>> : o \in S(id)}
<1>1. /\ conf \in Cases /\ UNCHANGED <<conf, pos>> /\ phase = "run" /\ phase' \in {"run", "aborted"}
      /\ actions[v].type \in Generating
      /\ actions' = [actions EXCEPT ![v].options = CopyDefaults(v)]
  <2>1. /\ phase = "run" /\ actions[v].type \in Generating
        /\ actions' = [actions EXCEPT ![v].options = CopyDefaults(v)]
        /\ NewGenerator(s, actions[v].type, v, 0, CopyDefaults(v))
    BY InitiateDoes
  <2>2. phase' \in {"run", "aborted"}
    BY <2>1, NewGeneratorFrame
  <2>3. Walk
    BY DEF Walk
  <2>4. UNCHANGED <<conf, pos>>
    BY <2>3, WalkFrame DEF load
  <2> QED
    BY <2>1, <2>2, <2>4 DEF TypeOK
<1>2. Stored = Vertices /\ (actions[v] = Own(v) \/ actions[v] = Visited(v))
  BY <1>1, StartOptions DEF OptionsInOrder
<1>3. actions[v].type = TypeOf(v) /\ DOMAIN actions = Vertices /\ PO \subseteq DOMAIN actions[v].options
  <2>1. PO \subseteq DOMAIN Options(v)
    BY DEF Options
  <2>2. DOMAIN Defaulted(v) = DOMAIN Options(v)
    BY DEF Defaulted
  <2>3. DOMAIN actions = Vertices
    BY DEF OptionsInOrder
  <2> QED
    BY <1>2, <2>1, <2>2, <2>3 DEF Own, Visited
<1>4. pools' = [id \in DOMAIN pools |-> Recounted(id, pools[id].refs + Cardinality(S(id)))]
  BY VisitShares DEF Shared
<1>5. \A id \in DOMAIN pools : id # Unset
  BY <1>2, PoolDomain
<1>6. /\ actions'[v].type = TypeOf(v) /\ actions'[v].options = CopyDefaults(v)
      /\ \A w \in Vertices \ {v} : actions'[w] = actions[w]
  <2>1. actions'[v] = [actions[v] EXCEPT !.options = CopyDefaults(v)]
    BY <1>1, <1>3
  <2>2. actions[v] = [type |-> actions[v].type, options |-> actions[v].options]
    BY <1>2 DEF Own, Visited
  <2> QED
    BY <1>1, <1>3, <2>1, <2>2
<1>7. \A o \in PO : CopyDefaults(v)[o] = IF actions[v].options[o] = Unset
                                          THEN actions[startAction].options[o]
                                          ELSE actions[v].options[o]
  BY <1>3 DEF CopyDefaults
<1>8. ASSUME NEW id \in DOMAIN pools
      PROVE  /\ Cardinality(Holders(id)') = Cardinality(Holders(id)) + Cardinality(S(id))
             /\ Cardinality(S(id)) \in Nat
  <2>1. S(id) = {o \in PO : actions[v].options[o] = Unset /\ CopyDefaults(v)[o] = id}
    BY <1>3, <1>5 DEF Shares, Copied
  <2>2. Holds(actions, v, id) = {o \in PO : actions[v].options[o] = id}
    BY <1>3 DEF Holds
  <2>3. Holds(actions', v, id) = {o \in PO : CopyDefaults(v)[o] = id}
    BY <1>6 DEF Holds
  <2>4. /\ Holds(actions', v, id) = Holds(actions, v, id) \cup S(id)
        /\ Holds(actions, v, id) \cap S(id) = {}
    BY <1>5, <1>7, <2>1, <2>2, <2>3
  <2>5. \A w \in Vertices \ {v} : Holds(actions', w, id) = Holds(actions, w, id)
    BY <1>6 DEF Holds
  <2>6. S(id) \subseteq PoolNames
    BY <2>1 DEF PoolOptions, PoolNames
  <2>7. Holders(id)' = {h \in Vertices \X PoolNames : h[2] \in Holds(actions', h[1], id)}
    BY <1>1, ConfStays DEF Holders, Holds
  <2>8. Holders(id) = {h \in Vertices \X PoolNames : h[2] \in Holds(actions, h[1], id)}
    BY DEF Holders
  <2> HIDE DEF PO, S
  <2>9. Holders(id)' = Holders(id) \cup Q(id) /\ Holders(id) \cap Q(id) = {}
    <3>1. \A h \in Vertices \X PoolNames : h \in Q(id) <=> h[1] = v /\ h[2] \in S(id)
      OBVIOUS
    <3>2. Q(id) \subseteq Vertices \X PoolNames
      BY <2>6
    <3> HIDE DEF Q
    <3>3. \A h \in Vertices \X PoolNames :
            h[2] \in Holds(actions', h[1], id) <=> h[2] \in Holds(actions, h[1], id) \/ h \in Q(id)
      BY <2>4, <2>5, <3>1
    <3>4. \A h \in Vertices \X PoolNames : ~(h[2] \in Holds(actions, h[1], id) /\ h \in Q(id))
      BY <2>4, <3>1
    <3> QED
      BY <2>7, <2>8, <3>2, <3>3, <3>4
  <2>10. IsFiniteSet(S(id)) /\ Cardinality(S(id)) \in Nat
    BY <1>1, <2>6, HolderTypes, FS_Subset, FS_CardinalityType
  <2>11. IsFiniteSet(Q(id)) /\ Cardinality(Q(id)) = Cardinality(S(id))
    BY <2>10, PairsCount
  <2>12. IsFiniteSet(Holders(id)) /\ Cardinality(Holders(id)) \in Nat
    <3>1. HoldersOf(Vertices, id) = Holders(id)
      BY DEF HoldersOf, Holders
    <3> QED
      BY <1>1, <3>1, HolderTypes
  <2> HIDE DEF Q
  <2>13. Cardinality(Holders(id) \cup Q(id))
           = Cardinality(Holders(id)) + Cardinality(Q(id)) - Cardinality(Holders(id) \cap Q(id))
    BY <2>11, <2>12, FS_Union
  <2>14. Cardinality(Holders(id) \cap Q(id)) = 0
    BY <2>9, FS_EmptySet
  <2> QED
    BY <2>9, <2>10, <2>11, <2>12, <2>13, <2>14
<1> DEFINE f == [id \in DOMAIN pools |-> Recounted(id, pools[id].refs + Cardinality(S(id)))]
<1>9. ASSUME NEW id \in DOMAIN pools
      PROVE  /\ f[id] = [items |-> f[id].items, refs |-> f[id].refs]
             /\ f[id].refs = Cardinality(Holders(id)') /\ f[id].refs \in Nat
  <2>1. f[id].refs = pools[id].refs + Cardinality(S(id))
    BY DEF Recounted
  <2>2. pools[id].refs \in Nat /\ pools[id].refs = Cardinality(Holders(id))
    BY <1>1, RefsHeld DEF TypeOK
  <2>3. f[id] = [items |-> f[id].items, refs |-> f[id].refs]
    BY DEF Recounted
  <2> HIDE DEF f, S
  <2> QED
    BY <1>8, <2>1, <2>2, <2>3
<1>10. pools' = [id \in DOMAIN pools |-> f[id]]
  BY <1>4
<1> HIDE DEF f
<1>11. PoolsInOrder'
  BY <1>1, <1>9, <1>10, PoolsReshaped
<1>12. \A id \in DOMAIN pools' : pools'[id].refs = Cardinality(Holders(id)') /\ pools'[id].refs \in Nat
  BY <1>9, <1>10
<1>13. PoolsExact'
  <2>1. phase' \notin {"freed", "rejected"}
    BY <1>1
  <2> QED
    BY <1>12, <2>1 DEF PoolsExact
<1> QED
  BY <1>11, <1>12, <1>13 DEF PoolsOK

\* A lookup writes the address of a peer, and nothing else, to a pool.
LEMMA LookupKeepsPools ==
  ASSUME TypeOK, LoadInOrder, PoolsInOrder, PoolsExact, UNCHANGED <<conf, pos, actions>>,
         phase = "run", phase' \notin {"freed", "rejected"},
         NEW id, NEW k, NEW ip, pools' = performLookups(id, k, ip)
  PROVE  PoolsOK'
<1> DEFINE f == [i \in DOMAIN pools |-> pools'[i]]
<1>1. ASSUME NEW i \in DOMAIN pools
      PROVE  f[i].refs = pools[i].refs /\ f[i] = [items |-> f[i].items, refs |-> f[i].refs]
  <2>1. pools[i] = [items |-> pools[i].items, refs |-> pools[i].refs]
    BY DEF PoolsInOrder
  <2>2. CASE i = id
    <3>1. f[i] = [pools[i] EXCEPT !.items = [pools[i].items EXCEPT ![k].ip = ip]]
      BY <2>2 DEF performLookups
    <3> QED
      BY <2>1, <3>1
  <2>3. CASE i # id
    <3>1. f[i] = pools[i]
      BY <2>3 DEF performLookups
    <3> QED
      BY <2>1, <3>1
  <2> QED
    BY <2>2, <2>3
<1>2. pools' = [i \in DOMAIN pools |-> f[i]]
  BY DEF performLookups
<1> HIDE DEF f
<1>3. PoolsInOrder'
  BY <1>1, <1>2, PoolsReshaped
<1>4. ASSUME NEW i \in DOMAIN pools'
      PROVE  pools'[i].refs = Cardinality(Holders(i)') /\ pools'[i].refs \in Nat
  <2>1. i \in DOMAIN pools /\ pools'[i] = f[i]
    BY <1>2
  <2>2. Holders(i)' = Holders(i)
    BY HoldersStay
  <2>3. pools[i].refs \in Nat /\ pools[i].refs = Cardinality(Holders(i))
    BY <2>1, RefsHeld DEF TypeOK
  <2>4. f[i].refs = pools[i].refs
    BY <1>1, <2>1
  <2> QED
    BY <2>1, <2>2, <2>3, <2>4
<1>5. PoolsExact'
  BY <1>4 DEF PoolsExact
<1> QED
  BY <1>3, <1>4, <1>5 DEF PoolsOK

\* A lookup is all that a stream that is created does to the pools.
LEMMA ActivePools ==
  ASSUME NEW g, newActive(g)
  PROVE  \/ UNCHANGED pools
         \/ \E id, k : \E ip \in Addresses(pools[id].items[k]) : pools' = performLookups(id, k, ip)
<1> DEFINE opts == actions[gens[g].at].options
           Looks(id, k) == \E ip \in Addresses(pools[id].items[k]) : pools' = performLookups(id, k, ip)
<1>1. CASE getProxyFromEnv # Unset
  BY <1>1 DEF newActive
<1>2. CASE getProxyFromEnv = Unset /\ gens[g].proxy # 0
  <2>1. Looks(opts["socksproxy"], gens[g].proxy)
    BY <1>2 DEF newActive
  <2> QED
    BY <2>1
<1>3. CASE getProxyFromEnv = Unset /\ gens[g].proxy = 0
  <2>1. \E i : Looks(opts["peers"], i)
    BY <1>3 DEF newActive
  <2> QED
    BY <2>1
<1> QED
  BY <1>1, <1>2, <1>3

\* Every step keeps the pools in order.
LEMMA PoolsKept ==
  ASSUME TypeOK, LoadInOrder, OptionsInOrder, PoolsInOrder, PoolsExact, [Next]_vars
  PROVE  PoolsOK'
<1>1. CASE parseGraphProperties
  <2>1. /\ UNCHANGED <<conf, pos, actions, pools>> /\ phase = "read"
        /\ phase' \in {"vertices", "rejected"}
    BY <1>1 DEF parseGraphProperties, load
  <2>2. Stored = {}
    BY <2>1 DEF LoadInOrder, Stored
  <2>3. DOMAIN pools = {}
    BY <2>2 DEF PoolsInOrder
  <2>4. PoolsInOrder'
    BY <2>1, ConfStays DEF PoolsInOrder, Stored
  <2> QED
    BY <2>1, <2>3, <2>4 DEF PoolsOK, PoolsExact
<1>2. CASE parseVertex
  <2>1. CASE VertexOK(pos)
    BY <1>2, <2>1, ParseKeepsPools
  <2>2. CASE ~VertexOK(pos)
    <3>1. UNCHANGED <<conf, pos>> /\ Release /\ phase = "vertices" /\ phase' = "rejected"
      BY <1>2, <2>2 DEF parseVertex, load
    <3> QED
      BY <3>1, PoolsFreed
  <2> QED
    BY <2>1, <2>2
<1>3. CASE endVertices
  <2>1. /\ UNCHANGED <<conf, pos, actions>> /\ phase = "vertices"
        /\ \/ phase' = "rejected" /\ Release
           \/ phase' = "loaded" /\ UNCHANGED pools
    BY <1>3 DEF endVertices, load
  <2> QED
    BY <2>1, PoolsFreed, PoolsStill
<1>4. CASE tgendriver_new
  <2>1. /\ UNCHANGED <<conf, pos, actions>> /\ phase = "loaded"
        /\ \/ phase' = "freed" /\ Release
           \/ phase' \in {"run", "aborted"} /\ UNCHANGED pools
    BY <1>4 DEF tgendriver_new, Abort, load
  <2> QED
    BY <2>1, PoolsFreed, PoolsStill
<1>5. CASE cleanup
  <2>1. /\ UNCHANGED <<conf, pos, actions>> /\ phase = "run"
        /\ \/ phase' = "freed" /\ Release
           \/ phase' = "ended" /\ UNCHANGED pools
    BY <1>5 DEF cleanup, Idle, load
  <2> QED
    BY <2>1, PoolsFreed, PoolsStill
<1>6. ASSUME NEW v \in Vertices, ProcessStart(v) \/ ProcessPause(v) \/ checkEndConditions(v)
      PROVE  PoolsOK'
  <2>1. UNCHANGED <<conf, pos, actions, pools>> /\ phase = "run" /\ phase' \in {"run", "aborted"}
    BY <1>6, ContinueFrame DEF ProcessStart, ProcessPause, checkEndConditions, Idle, load
  <2> QED
    BY <2>1, PoolsStill
<1>7. ASSUME NEW v \in Vertices, NEW s \in Slots, initiate(v, s)
      PROVE  PoolsOK'
  BY <1>7, VisitKeepsPools
<1>8. ASSUME NEW g \in Slots, createStream(g)
      PROVE  PoolsOK'
  <2>1. UNCHANGED <<conf, pos, actions>> /\ phase = "run" /\ phase' \in {"run", "aborted"}
    BY <1>8 DEF createStream, Abort, load
  <2>2. UNCHANGED pools \/ newActive(g)
    BY <1>8 DEF createStream
  <2>3. CASE UNCHANGED pools
    BY <2>1, <2>3, PoolsStill
  <2>4. ASSUME NEW id, NEW k, NEW ip, pools' = performLookups(id, k, ip)
        PROVE  PoolsOK'
    BY <2>1, <2>4, LookupKeepsPools
  <2> QED
    BY <2>2, <2>3, <2>4, ActivePools
<1>9. ASSUME NEW g \in Slots, onComplete(g)
      PROVE  PoolsOK'
  <2>1. UNCHANGED <<conf, pos, actions, pools>> /\ phase = "run" /\ phase' \in {"run", "aborted"}
    BY <1>9, ContinueFrame DEF onComplete, Idle, load
  <2> QED
    BY <2>1, PoolsStill
<1>10. ASSUME NEW g \in Slots, NEW s \in Slots, createFlow(g, s)
       PROVE  PoolsOK'
  <2>1. UNCHANGED <<conf, pos, actions, pools>> /\ phase = "run" /\ phase' \in {"run", "aborted"}
    BY <1>10, NewGeneratorFrame DEF createFlow, Idle, load
  <2> QED
    BY <2>1, PoolsStill
<1>11. ASSUME NEW path \in files, Rewrite(path)
       PROVE  PoolsOK'
  <2>1. UNCHANGED <<conf, pos, actions, pools>> /\ phase = "run" /\ phase' = "run"
    BY <1>11 DEF Rewrite, load
  <2> QED
    BY <2>1, PoolsStill
<1>12. CASE UNCHANGED vars
  <2>1. UNCHANGED <<conf, phase, pos, actions, pools>>
    BY <1>12 DEF vars
  <2>2. PoolsInOrder'
    BY <2>1, ConfStays DEF PoolsInOrder, Stored
  <2>3. PoolsExact'
    BY <2>1, HoldersStay DEF PoolsExact
  <2> QED
    BY <2>1, <2>2, <2>3 DEF PoolsOK, TypeOK
<1> QED
  BY <1>1, <1>2, <1>3, <1>4, <1>5, <1>6, <1>7, <1>8, <1>9, <1>10, <1>11, <1>12 DEF Next
-----------------------------------------------------------------------------
(* What the walk may do to the rest.                                       *)

\* While no file was replaced there is a model wherever an option asks for one.
LEMMA ModelsHeld ==
  ASSUME TypeOK, LoadInOrder, OptionsInOrder, phase = "run", ~changed,
         NEW v \in Vertices, TypeOf(v) \in Generating,
         NEW a \in ModelAttrs, a \in AttrsOf(TypeOf(v))
  PROVE  HasModel(Defaulted(v)[a])
<1>1. Stored = Vertices /\ startAction \in Vertices /\ TypeOf(startAction) = "start"
  BY StartOptions
<1>2. a \in AttrsOf("start") /\ files = conf.models
  BY GeneratingTypes DEF LoadInOrder
<1>3. \A t \in Generating \cup {"start"} : a \notin PoolOptions(t)
  BY DEF ModelAttrs, PoolOptions, Generating
<1>4. \A w \in {v, startAction} :
        a \in DOMAIN Options(w) /\ Options(w)[a] = Value(w, a) /\ a \in ModelAttrs \cap AttrsOf(TypeOf(w))
  BY <1>1, <1>2, <1>3 DEF Options
<1>5. \A w \in {v, startAction} : Options(w)[a] \in {Unset} \cup files
  <2> SUFFICES ASSUME NEW w \in {v, startAction}, Options(w)[a] # Unset
               PROVE  Options(w)[a] \in files
    OBVIOUS
  <2>1. Options(w)[a] \in ModelPaths(w)
    BY <1>4 DEF ModelPaths
  <2>2. VertexValid(w)
    BY <1>1 DEF LoadInOrder
  <2> QED
    BY <1>2, <2>1, <2>2 DEF VertexValid
<1>6. Defaulted(v)[a] = IF Options(v)[a] = Unset THEN Options(startAction)[a] ELSE Options(v)[a]
  BY <1>4 DEF Defaulted
<1> QED
  BY <1>5, <1>6 DEF HasModel

\* A stream action has peers when it was visited.
LEMMA PeersHeld ==
  ASSUME TypeOK, LoadInOrder, OptionsInOrder, phase = "run", NEW v \in Vertices, TypeOf(v) = "stream"
  PROVE  Defaulted(v)["peers"] # Unset
<1>1. /\ Stored = Vertices /\ startAction \in Vertices /\ TypeOf(startAction) = "start"
      /\ conf \in Cases /\ "stream" \in Generating
  BY StartOptions DEF TypeOK, Generating
<1>2. Valid
  BY AcceptedIsValid DEF Loaded
<1>3. PICK w \in Vertices : (TypeOf(w) = "start" \/ w = v) /\ HasPool(w, "peers")
  BY <1>2 DEF Valid
<1>4. w \in {v, startAction}
  BY <1>1, <1>2, <1>3 DEF Valid
<1>5. Options(w)["peers"] # Unset
  BY <1>1, <1>3, PeersNamed
<1>6. "peers" \in DOMAIN Options(v)
  BY DEF Options, AttrsOf, StreamAttrs
<1>7. Defaulted(v)["peers"] =
        IF Options(v)["peers"] = Unset THEN Options(startAction)["peers"] ELSE Options(v)["peers"]
  BY <1>6 DEF Defaulted
<1> QED
  BY <1>4, <1>5, <1>7

\* A stream that is created is one of the generator's action.
LEMMA ActiveStream ==
  ASSUME NEW g, newActive(g)
  PROVE  last'.at = gens[g].at
<1> DEFINE opts == actions[gens[g].at].options
<1>1. \A i, via, ip : NewStream(g, i, via, ip).at = gens[g].at
  BY DEF NewStream
<1>2. \E i, via, ip : last' = NewStream(g, i, via, ip)
  <2>1. CASE getProxyFromEnv # Unset
    BY <2>1 DEF newActive
  <2>2. CASE getProxyFromEnv = Unset
    BY <2>2 DEF newActive
  <2> QED
    BY <2>1, <2>2
<1> QED
  BY <1>1, <1>2

\* How a process comes to be aborted.
MayAbort ==
  \/ fault' = fault
  \/ fault' = "type" /\ phase = "loaded" /\ ~hasStartAction
  \/ /\ fault' = "queue"
     /\ \E v \in Vertices : chooseActions(v) # {} /\ totalWeight(chooseActions(v)) <= 0
  \/ fault' = "model" /\ changed

\* What a step of the walk does to the driver, the generators' streams and the faults.
Effects ==
  /\ todo' \subseteq Vertices /\ clientHasEnded' \in BOOLEAN
  /\ last'.at \in Vertices \cup {0}
  /\ peerless' \subseteq Generating /\ ("stream" \in peerless' => "stream" \in peerless)
  /\ MayAbort

\* What the driver leaves behind when it continues.
LEMMA ContinueEffects ==
  ASSUME TypeOK, NEW v \in Vertices, continueNextActions(v)
  PROVE  todo' \subseteq Vertices /\ MayAbort
<1>1. conf \in Cases /\ todo \subseteq Vertices
  BY DEF TypeOK
<1>2. /\ todo' \subseteq Vertices
      /\ \/ UNCHANGED <<phase, fault>>
         \/ /\ phase' = "aborted" /\ fault' = "queue"
            /\ chooseActions(v) # {} /\ totalWeight(chooseActions(v)) <= 0
  BY <1>1, ContinueKeeps
<1> QED
  BY <1>2 DEF MayAbort

\* A visit is stopped only by a model that is gone.
LEMMA VisitEffects ==
  ASSUME TypeOK, LoadInOrder, OptionsInOrder, NEW v \in Vertices, NEW s \in Slots, initiate(v, s)
  PROVE  Effects
<1>1. /\ phase = "run" /\ actions[v].type \in Generating /\ todo' = todo \ {v}
      /\ NewGenerator(s, actions[v].type, v, 0, CopyDefaults(v))
      /\ UNCHANGED <<clientHasEnded, last, peerless>>
  BY InitiateDoes
<1>2. actions[v] = Own(v) \/ actions[v] = Visited(v)
  BY <1>1, StartOptions DEF OptionsInOrder
<1>3. TypeOf(v) = actions[v].type
  BY <1>2 DEF Own, Visited
<1>4. CopyDefaults(v) = Defaulted(v)
  BY <1>1, <1>3, CopiesDefaults
<1>5. MayAbort
  <2>1. CASE actions[v].type # "traffic"
    BY <1>1, <2>1 DEF NewGenerator, MayAbort
  <2>2. CASE actions[v].type = "traffic"
    <3>1. fault' = fault \/ (fault' = "model" /\ ~HasModel(Defaulted(v)["flowmodelpath"]))
      BY <1>1, <1>4, <2>2 DEF NewGenerator, ModelOption, Abort
    <3>2. "flowmodelpath" \in ModelAttrs /\ "flowmodelpath" \in AttrsOf(TypeOf(v))
      BY <1>3, <2>2 DEF ModelAttrs, AttrsOf, TrafficAttrs
    <3>3. ~HasModel(Defaulted(v)["flowmodelpath"]) => changed
      BY <1>1, <1>3, <3>2, ModelsHeld
    <3> QED
      BY <3>1, <3>3 DEF MayAbort
  <2> QED
    BY <2>1, <2>2
<1> QED
  BY <1>1, <1>5 DEF Effects, TypeOK

\* So is a stream; and one of a stream action has peers.
LEMMA StreamEffects ==
  ASSUME TypeOK, LoadInOrder, OptionsInOrder, NEW g \in Slots, createStream(g)
  PROVE  Effects
<1> DEFINE v == gens[g].at
           opts == actions[v].options
<1>1. /\ phase = "run" /\ UNCHANGED <<todo, clientHasEnded>> /\ (gens[g].fresh \/ gens[g].kind = "flow")
      /\ \/ /\ opts["peers"] = Unset /\ peerless' = peerless \cup {actions[v].type}
            /\ UNCHANGED <<fault, last>>
         \/ UNCHANGED <<fault, last, peerless>>
         \/ /\ newActive(g) /\ UNCHANGED peerless
            /\ UNCHANGED fault \/ (fault' = "model" /\ ~HasModel(opts["packetmodelpath"]))
  BY DEF createStream, Abort
<1>2. gens[g].kind # "NONE"
  BY <1>1 DEF OptionsInOrder, NoGen
<1>3. v \in Vertices /\ TypeOf(v) \in Generating /\ actions[v] = Visited(v)
  BY <1>1, <1>2, StartOptions DEF OptionsInOrder
<1>4. opts = Defaulted(v) /\ actions[v].type = TypeOf(v)
  BY <1>3 DEF Visited
<1>5. opts["peers"] = Unset => actions[v].type # "stream"
  BY <1>1, <1>3, <1>4, PeersHeld
<1>6. ~HasModel(opts["packetmodelpath"]) => changed
  <2>1. "packetmodelpath" \in ModelAttrs /\ "packetmodelpath" \in AttrsOf(TypeOf(v))
    BY <1>3, GeneratingTypes DEF ModelAttrs
  <2> HIDE DEF v, opts
  <2> QED
    BY <1>1, <1>3, <1>4, <2>1, ModelsHeld
<1>7. newActive(g) => last'.at = v
  BY ActiveStream
<1> HIDE DEF v, opts
<1>8. MayAbort
  BY <1>1, <1>6 DEF MayAbort
<1> QED
  BY <1>1, <1>3, <1>4, <1>5, <1>7, <1>8 DEF Effects, TypeOK

\* Every step of the walk has these effects.
LEMMA WalkEffects ==
  ASSUME TypeOK, LoadInOrder, OptionsInOrder, Walk
  PROVE  Effects
<1>1. /\ todo \subseteq Vertices /\ clientHasEnded \in BOOLEAN /\ last.at \in Vertices \cup {0}
      /\ peerless \subseteq Generating /\ startAction \in Vertices
  BY DEF TypeOK
<1>2. CASE tgendriver_new
  <2>1. UNCHANGED <<last, peerless>>
    BY <1>2 DEF tgendriver_new
  <2>2. todo' \subseteq Vertices /\ clientHasEnded' \in BOOLEAN
    BY <1>1, <1>2 DEF tgendriver_new
  <2>3. MayAbort
    BY <1>2 DEF tgendriver_new, getStartOptions, Abort, MayAbort
  <2> QED
    BY <1>1, <2>1, <2>2, <2>3 DEF Effects
<1>3. CASE cleanup
  BY <1>1, <1>3 DEF cleanup, run, Effects, MayAbort
<1>4. ASSUME NEW v \in Vertices, ProcessStart(v) \/ ProcessPause(v) \/ checkEndConditions(v)
      PROVE  Effects
  <2>1. UNCHANGED <<last, peerless>> /\ clientHasEnded' \in {clientHasEnded, TRUE}
    BY <1>4 DEF ProcessStart, ProcessPause, checkEndConditions
  <2>2. continueNextActions(v) \/ (todo' = todo \ {v} /\ UNCHANGED fault)
    BY <1>4 DEF ProcessStart, ProcessPause, checkEndConditions
  <2>3. todo' \subseteq Vertices /\ MayAbort
    BY <1>1, <2>2, ContinueEffects DEF MayAbort
  <2> QED
    BY <1>1, <2>1, <2>3 DEF Effects
<1>5. ASSUME NEW v \in Vertices, NEW s \in Slots, initiate(v, s)
      PROVE  Effects
  BY <1>5, VisitEffects
<1>6. ASSUME NEW g \in Slots, createStream(g)
      PROVE  Effects
  BY <1>6, StreamEffects
<1>7. ASSUME NEW g \in Slots, onComplete(g)
      PROVE  Effects
  <2>1. UNCHANGED <<last, peerless, clientHasEnded>> /\ gens[g] # NoGen
    BY <1>7 DEF onComplete
  <2>2. gens[g].at \in Vertices
    BY <2>1 DEF TypeOK
  <2>3. continueNextActions(gens[g].at) \/ UNCHANGED <<todo, fault>>
    BY <1>7 DEF onComplete
  <2>4. todo' \subseteq Vertices /\ MayAbort
    BY <1>1, <2>2, <2>3, ContinueEffects DEF MayAbort
  <2> QED
    BY <1>1, <2>1, <2>4 DEF Effects
<1>8. ASSUME NEW g \in Slots, NEW s \in Slots, createFlow(g, s)
      PROVE  Effects
  <2>1. /\ UNCHANGED <<todo, last, peerless, clientHasEnded>>
        /\ NewGenerator(s, "flow", gens[g].at, g, actions[gens[g].at].options)
    BY <1>8 DEF createFlow
  <2>2. UNCHANGED fault
    BY <2>1 DEF NewGenerator
  <2> QED
    BY <1>1, <2>1, <2>2 DEF Effects, MayAbort
<1>9. ASSUME NEW path \in files, Rewrite(path)
      PROVE  Effects
  BY <1>1, <1>9 DEF Rewrite, run, Effects, MayAbort
<1> QED
  BY <1>2, <1>3, <1>4, <1>5, <1>6, <1>7, <1>8, <1>9 DEF Walk

\* The weights are those of the configuration: they stay.
LEMMA ChoiceStays ==
  ASSUME conf' = conf
  PROVE  /\ \A v : chooseActions(v)' = chooseActions(v)
         /\ \A v : totalWeight(chooseActions(v))' = totalWeight(chooseActions(v))
<1>1. \A i : getWeight(i)' = getWeight(i)
  BY DEF getWeight, get_eid
<1>2. \A v : chooseActions(v)' = chooseActions(v)
  BY <1>1 DEF chooseActions, Out
<1>3. \A S : totalWeight(S)' = totalWeight(S)
  BY <1>1 DEF totalWeight, MapThenSumSet, MapThenFoldSet
<1> QED
  BY <1>2, <1>3
-----------------------------------------------------------------------------
(* What the options of a stream mean.                                      *)

\* The text of an attribute is one that its parser was made for.
LEMMA TextTypes ==
  ASSUME conf \in Cases, NEW w \in Vertices, NEW a, Text(w, a) # Unset
  PROVE  /\ a \in {"peers", "socksproxy"} => IsPeerList(Text(w, a))
         /\ a \in {"sendsize", "recvsize", "timeout", "stallout"} => IsAmount(Text(w, a))
         /\ a = "socksauthseed" => Text(w, a) \in Nat
<1>1. a \in DOMAIN conf.attrs[w] /\ Text(w, a) = conf.attrs[w][a]
  BY DEF Text
<1> QED
  BY <1>1, CasesAssumption DEF Vertices

\* The text of a vertex says something of an attribute: a list of empty items does not.
Given(w, a) ==
  Text(w, a) # Unset /\ (a \in {"peers", "socksproxy"} => Range(Text(w, a)) # {Unset})

\* Where the options of an action that generates come from: two vertices that are valid, and
\* have all the attributes of a stream.
LEMMA Sources ==
  ASSUME TypeOK, LoadInOrder, OptionsInOrder, phase = "run",
         NEW v \in Vertices, TypeOf(v) \in Generating, NEW w \in {v, startAction}
  PROVE  /\ w \in Vertices /\ VertexValid(w) /\ conf \in Cases
         /\ StreamAttrs \subseteq AttrsOf(TypeOf(w))
         /\ PoolOptions(TypeOf(w)) = {"peers", "socksproxy", "seedGenerator", "socksAuthGenerator"}
<1>1. w \in Vertices /\ Stored = Vertices /\ TypeOf(w) \in Generating \cup {"start"}
  BY StartOptions
<1>2. VertexValid(w) /\ conf \in Cases
  BY <1>1 DEF LoadInOrder, TypeOK
<1>3. \A t \in Generating \cup {"start"} :
        /\ StreamAttrs \subseteq AttrsOf(t)
        /\ PoolOptions(t) = {"peers", "socksproxy", "seedGenerator", "socksAuthGenerator"}
  BY DEF Generating, AttrsOf, PoolOptions, TrafficAttrs, FlowAttrs
<1> QED
  BY <1>1, <1>2, <1>3

\* If an option is set exactly where its attribute is given, both are taken from the same
\* vertex.
LEMMA SameSource ==
  ASSUME TypeOK, LoadInOrder, OptionsInOrder, phase = "run",
         NEW v \in Vertices, TypeOf(v) \in Generating, NEW a, NEW o \in DOMAIN Options(v),
         \A w \in {v, startAction} : Options(w)[o] # Unset <=> Given(w, a)
  PROVE  \/ Defaulted(v)[o] = Unset /\ Setting(v, a) = Unset
         \/ \E w \in {v, startAction} : /\ Given(w, a) /\ Setting(v, a) = Text(w, a)
                                        /\ Defaulted(v)[o] = Options(w)[o]
<1>1. Setting(v, a) = IF Given(v, a) THEN Text(v, a)
                      ELSE IF Given(startAction, a) THEN Text(startAction, a) ELSE Unset
  BY DEF Setting, Given
<1>2. Defaulted(v)[o] = IF Options(v)[o] = Unset THEN Options(startAction)[o] ELSE Options(v)[o]
  BY DEF Defaulted
<1>3. CASE Given(v, a)
  BY <1>1, <1>2, <1>3
<1>4. CASE ~Given(v, a) /\ Given(startAction, a)
  BY <1>1, <1>2, <1>4
<1>5. CASE ~Given(v, a) /\ ~Given(startAction, a)
  BY <1>1, <1>2, <1>5
<1> QED
  BY <1>3, <1>4, <1>5

\* Attributes that are not made into pools.
PlainAttrs == StreamAttrs \ {"peers", "socksproxy"}

\* Their options are what is parsed, without an error.
LEMMA PlainOptions ==
  ASSUME NEW w, VertexValid(w), StreamAttrs \subseteq AttrsOf(TypeOf(w)),
         PoolOptions(TypeOf(w)) = {"peers", "socksproxy", "seedGenerator", "socksAuthGenerator"},
         NEW a \in PlainAttrs
  PROVE  /\ a \in DOMAIN Options(w)
         /\ Options(w)[a] = ParseAttribute(TypeOf(w), a, Text(w, a)).value
         /\ ~ParseAttribute(TypeOf(w), a, Text(w, a)).error
<1>1. a \in AttrsOf(TypeOf(w)) /\ a \notin PoolOptions(TypeOf(w))
  BY DEF PlainAttrs, StreamAttrs
<1>2. Options(w)[a] = Value(w, a) /\ a \in DOMAIN Options(w)
  BY <1>1 DEF Options
<1> QED
  BY <1>1, <1>2 DEF Value, VertexValid

\* Strings are taken as they are.
LEMMA StringsHeld ==
  ASSUME TypeOK, LoadInOrder, OptionsInOrder, phase = "run",
         NEW v \in Vertices, TypeOf(v) \in Generating,
         NEW a \in {"socksusername", "sockspassword", "packetmodelpath"}
  PROVE  Defaulted(v)[a] = Setting(v, a)
<1>1. a \in PlainAttrs /\ a \notin {"peers", "socksproxy"}
  BY DEF PlainAttrs, StreamAttrs
<1>2. ASSUME NEW w \in {v, startAction}
      PROVE  a \in DOMAIN Options(w) /\ Options(w)[a] = Text(w, a)
  <2>1. a \in DOMAIN Options(w) /\ Options(w)[a] = ParseAttribute(TypeOf(w), a, Text(w, a)).value
    BY <1>1, Sources, PlainOptions
  <2>2. ParseAttribute(TypeOf(w), a, Text(w, a)) = parseString(Text(w, a))
    BY DEF ParseAttribute, ModelAttrs
  <2> QED
    BY <2>1, <2>2 DEF parseString, NotGiven, Parsed
<1>3. \A w \in {v, startAction} : Options(w)[a] # Unset <=> Given(w, a)
  BY <1>1, <1>2 DEF Given
<1> QED
  BY <1>2, <1>3, SameSource

\* A size is as many bytes as it says.
LEMMA BytesParsed ==
  ASSUME NEW t, t # Unset, IsAmount(t), ~parseBytes(t).error
  PROVE  parseBytes(t).value = Amount(t, ByteUnit, "b") /\ parseBytes(t).value # Unset
<1> DEFINE unit == ByteUnit[IF t.suffix = Unset THEN "b" ELSE t.suffix]
<1>1. t.digits /\ t.num \in Nat
  BY DEF IsAmount, parseBytes, Malformed
<1>2. t.suffix = Unset \/ t.suffix \in DOMAIN ByteUnit
  BY <1>1 DEF parseBytes, Malformed
<1>3. unit \in Nat /\ (t.suffix = Unset => unit = 1)
  BY <1>2, UnitAssumption
<1>4. parseBytes(t).value = IF t.suffix = Unset THEN t.num ELSE t.num * unit
  <2>1. CASE t.suffix = Unset
    BY <1>1, <2>1 DEF parseBytes, Parsed
  <2>2. CASE t.suffix # Unset
    <3>1. /\ t.suffix \in DOMAIN ByteUnit /\ unit = ByteUnit[t.suffix]
          /\ parseBytes(t) = IF ByteUnit[t.suffix] > 1 /\ t.num = 0 THEN Malformed
                             ELSE Parsed(t.num * ByteUnit[t.suffix])
      BY <1>1, <1>2, <2>2 DEF parseBytes
    <3>2. parseBytes(t) = Parsed(t.num * ByteUnit[t.suffix])
      BY <3>1 DEF Malformed
    <3> QED
      BY <2>2, <3>1, <3>2 DEF Parsed
  <2> QED
    BY <2>1, <2>2
<1>5. Amount(t, ByteUnit, "b") = t.num * unit
  BY DEF Amount
<1> HIDE DEF unit
<1>6. t.num * unit \in Nat /\ (unit = 1 => t.num * unit = t.num)
  BY <1>1, <1>3
<1>7. parseBytes(t).value = t.num * unit
  BY <1>3, <1>4, <1>6
<1> QED
  BY <1>5, <1>6, <1>7, UnitAssumption

\* What is left of a number that fits.
LEMMA Fits ==
  ASSUME NEW n \in Nat
  PROVE  n % Word \in Nat /\ (n < Word => n % Word = n)
BY UnitAssumption

\* A time is as long as it says, unless it overflows.
LEMMA TimeParsed ==
  ASSUME NEW t, t # Unset, IsAmount(t), ~parseTime(t).error
  PROVE  /\ parseTime(t).value # Unset
         /\ \/ parseTime(t).value = Amount(t, TimeUnit, "s")
            \/ Amount(t, TimeUnit, "s") # Unset /\ Amount(t, TimeUnit, "s") >= Word
<1> DEFINE suffix == IF t.suffix = Unset THEN "s" ELSE t.suffix
           n == t.num * TimeUnit[suffix]
<1>1. t.digits /\ t.num \in Nat
  BY DEF IsAmount, parseTime, Malformed
<1>2. suffix \in DOMAIN TimeUnit
  BY <1>1 DEF parseTime, Malformed
<1>3. parseTime(t).value = n % Word
  BY <1>1, <1>2 DEF parseTime, Parsed
<1>4. Amount(t, TimeUnit, "s") = n
  BY DEF Amount
<1>5. TimeUnit[suffix] \in Nat
  BY <1>2, UnitAssumption
<1> HIDE DEF suffix
<1>6. n \in Nat
  BY <1>1, <1>5
<1> HIDE DEF n
<1>7. n < Word \/ n >= Word
  BY <1>6, UnitAssumption
<1> QED
  BY <1>3, <1>4, <1>6, <1>7, Fits, UnitAssumption

\* What the option of an amount is made of.
LEMMA AmountOptions ==
  ASSUME TypeOK, LoadInOrder, OptionsInOrder, phase = "run",
         NEW v \in Vertices, TypeOf(v) \in Generating, NEW w \in {v, startAction}
  PROVE  /\ \A a \in {"sendsize", "recvsize"} :
              /\ a \in DOMAIN Options(w) /\ Options(w)[a] = parseBytes(Text(w, a)).value
              /\ ~parseBytes(Text(w, a)).error /\ (Text(w, a) # Unset => IsAmount(Text(w, a)))
         /\ \A a \in {"timeout", "stallout"} :
              /\ a \in DOMAIN Options(w) /\ Options(w)[a] = parseTime(Text(w, a)).value
              /\ ~parseTime(Text(w, a)).error /\ (Text(w, a) # Unset => IsAmount(Text(w, a)))
<1>1. ASSUME NEW a \in {"sendsize", "recvsize", "timeout", "stallout"}
      PROVE  /\ a \in DOMAIN Options(w)
             /\ Options(w)[a] = ParseAttribute(TypeOf(w), a, Text(w, a)).value
             /\ ~ParseAttribute(TypeOf(w), a, Text(w, a)).error
             /\ Text(w, a) # Unset => IsAmount(Text(w, a))
  <2>1. a \in PlainAttrs
    BY DEF PlainAttrs, StreamAttrs
  <2> QED
    BY <2>1, Sources, PlainOptions, TextTypes
<1>2. \A type, t : /\ \A a \in {"sendsize", "recvsize"} : ParseAttribute(type, a, t) = parseBytes(t)
                   /\ \A a \in {"timeout", "stallout"} : ParseAttribute(type, a, t) = parseTime(t)
  BY DEF ParseAttribute, ModelAttrs
<1> QED
  BY <1>1, <1>2

\* Sizes are those that are set, in bytes.
LEMMA SizesHeld ==
  ASSUME TypeOK, LoadInOrder, OptionsInOrder, phase = "run",
         NEW v \in Vertices, TypeOf(v) \in Generating, NEW a \in {"sendsize", "recvsize"}
  PROVE  Defaulted(v)[a] = Amount(Setting(v, a), ByteUnit, "b")
<1>1. ASSUME NEW w \in {v, startAction}
      PROVE  /\ a \in DOMAIN Options(w) /\ (Options(w)[a] # Unset <=> Given(w, a))
             /\ Given(w, a) => Options(w)[a] = Amount(Text(w, a), ByteUnit, "b")
  <2>1. /\ a \in DOMAIN Options(w) /\ Options(w)[a] = parseBytes(Text(w, a)).value
        /\ ~parseBytes(Text(w, a)).error /\ (Text(w, a) # Unset => IsAmount(Text(w, a)))
    BY AmountOptions
  <2>2. Text(w, a) = Unset => Options(w)[a] = Unset
    BY <2>1 DEF parseBytes, NotGiven, Parsed
  <2> QED
    BY <2>1, <2>2, BytesParsed DEF Given
<1>2. Amount(Unset, ByteUnit, "b") = Unset
  BY DEF Amount
<1> QED
  BY <1>1, <1>2, SameSource

\* Times are those that are set, unless they overflow.
LEMMA TimesHeld ==
  ASSUME TypeOK, LoadInOrder, OptionsInOrder, phase = "run",
         NEW v \in Vertices, TypeOf(v) \in Generating, NEW a \in {"timeout", "stallout"}
  PROVE  LET amount == Amount(Setting(v, a), TimeUnit, "s")
         IN Defaulted(v)[a] = amount \/ (amount # Unset /\ amount >= Word)
<1>1. ASSUME NEW w \in {v, startAction}
      PROVE  /\ a \in DOMAIN Options(w) /\ (Options(w)[a] # Unset <=> Given(w, a))
             /\ Given(w, a) => LET amount == Amount(Text(w, a), TimeUnit, "s")
                               IN Options(w)[a] = amount \/ (amount # Unset /\ amount >= Word)
  <2>1. /\ a \in DOMAIN Options(w) /\ Options(w)[a] = parseTime(Text(w, a)).value
        /\ ~parseTime(Text(w, a)).error /\ (Text(w, a) # Unset => IsAmount(Text(w, a)))
    BY AmountOptions
  <2>2. Text(w, a) = Unset => Options(w)[a] = Unset
    BY <2>1 DEF parseTime, NotGiven, Parsed
  <2> QED
    BY <2>1, <2>2, TimeParsed DEF Given
<1>2. Amount(Unset, TimeUnit, "s") = Unset
  BY DEF Amount
<1> QED
  BY <1>1, <1>2, SameSource

\* A seed that is given makes a generator, however large it is.
LEMMA SeedsHeld ==
  ASSUME TypeOK, LoadInOrder, OptionsInOrder, phase = "run",
         NEW v \in Vertices, TypeOf(v) \in Generating
  PROVE  Defaulted(v)["socksAuthGenerator"] # Unset <=> Setting(v, "socksauthseed") # Unset
<1> DEFINE o == "socksAuthGenerator"
           a == "socksauthseed"
<1>1. ASSUME NEW w \in {v, startAction}
      PROVE  o \in DOMAIN Options(w) /\ (Options(w)[o] # Unset <=> Given(w, a))
  <2>1. /\ w \in Vertices /\ conf \in Cases
        /\ PoolOptions(TypeOf(w)) = {"peers", "socksproxy", "seedGenerator", "socksAuthGenerator"}
    BY Sources
  <2>2. o \in PoolOptions(TypeOf(w)) /\ o \in DOMAIN Options(w)
    BY <2>1 DEF Options
  <2>3. <<w, o>> # Unset /\ Options(w)[o] = IF HasPool(w, o) THEN <<w, o>> ELSE Unset
    <3> HIDE DEF o
    <3> QED
      BY <2>1, <2>2, PoolIds
  <2>4. HasPool(w, o) <=> Value(w, a) # Unset
    <3>1. Origin(o) = a
      BY DEF Origin
    <3>2. HasPool(w, o) <=> Value(w, Origin(o)) # Unset \/ (o = "time" /\ o \in KnownAttributes)
      BY <2>2 DEF HasPool
    <3> QED
      BY <3>1, <3>2
  <2>5. Value(w, a) = parseUInt(Text(w, a), Max32).value
    BY DEF Value, ParseAttribute, ModelAttrs
  <2>6. Text(w, a) # Unset => Min({Text(w, a), Max32}) # Unset
    <3> SUFFICES ASSUME Text(w, a) # Unset PROVE Min({Text(w, a), Max32}) \in Nat
      BY UnitAssumption
    <3>1. Text(w, a) \in Nat /\ Max32 \in Nat
      BY <2>1, TextTypes, UnitAssumption
    <3> QED
      BY <3>1, NatMin
  <2>7. Value(w, a) # Unset <=> Text(w, a) # Unset
    BY <2>5, <2>6 DEF parseUInt, NotGiven, Parsed
  <2> QED
    BY <2>2, <2>3, <2>4, <2>7 DEF Given
<1> QED
  BY <1>1, SameSource DEF Given

\* A list of peers is what is not empty of it.
LEMMA PeersParsed ==
  ASSUME NEW t, IsPeerList(t), ~parsePeerList(t).error
  PROVE  /\ parsePeerList(t).value # Unset <=> Range(t) # {Unset}
         /\ Range(t) # {Unset} => parsePeerList(t).value = [i \in NonEmpty(t) |-> t[i]]
<1>1. t # Unset /\ [i \in NonEmpty(t) |-> t[i]] # Unset /\ DOMAIN t # {}
  BY DEF IsPeerList
<1>2. NonEmpty(t) = {} <=> Range(t) = {Unset}
  BY <1>1 DEF NonEmpty, Range
<1>3. parsePeerList(t) = IF NonEmpty(t) = {} THEN NotGiven ELSE Parsed([i \in NonEmpty(t) |-> t[i]])
  BY <1>1 DEF parsePeerList, Malformed
<1>4. CASE NonEmpty(t) = {}
  BY <1>2, <1>3, <1>4 DEF NotGiven, Parsed
<1>5. CASE NonEmpty(t) # {}
  BY <1>1, <1>2, <1>3, <1>5 DEF Parsed
<1> QED
  BY <1>4, <1>5

\* A pool of peers is made of the list that is given.
LEMMA PeerOptions ==
  ASSUME TypeOK, LoadInOrder, OptionsInOrder, phase = "run",
         NEW v \in Vertices, TypeOf(v) \in Generating, NEW w \in {v, startAction},
         NEW a \in {"peers", "socksproxy"}
  PROVE  /\ a \in DOMAIN Options(w) /\ (Options(w)[a] # Unset <=> Given(w, a))
         /\ Given(w, a) =>
              /\ Options(w)[a] = <<w, a>> /\ IsPeerList(Text(w, a))
              /\ Items(w, a) = [i \in NonEmpty(Text(w, a)) |-> NewPeer(Text(w, a)[i])]
<1>1. /\ w \in Vertices /\ VertexValid(w) /\ conf \in Cases
      /\ a \in AttrsOf(TypeOf(w)) /\ a \in PoolOptions(TypeOf(w))
  BY Sources DEF StreamAttrs
<1>2. /\ a \in DOMAIN Options(w) /\ <<w, a>> # Unset
      /\ Options(w)[a] = IF HasPool(w, a) THEN <<w, a>> ELSE Unset
  BY <1>1, PoolIds DEF Options
<1>3. Origin(a) = a /\ ParseAttribute(TypeOf(w), a, Text(w, a)) = parsePeerList(Text(w, a))
  BY DEF Origin, ParseAttribute, ModelAttrs
<1>4. Value(w, a) = parsePeerList(Text(w, a)).value /\ ~parsePeerList(Text(w, a)).error
  BY <1>1, <1>3 DEF Value, VertexValid
<1>5. HasPool(w, a) <=> Value(w, a) # Unset
  BY <1>1, <1>3 DEF HasPool
<1>6. CASE Text(w, a) = Unset
  <2>1. Value(w, a) = Unset
    BY <1>4, <1>6 DEF parsePeerList, NotGiven, Parsed
  <2> QED
    BY <1>2, <1>5, <1>6, <2>1 DEF Given
<1>7. CASE Text(w, a) # Unset
  <2>1. IsPeerList(Text(w, a))
    BY <1>1, <1>7, TextTypes
  <2>2. Given(w, a) <=> Range(Text(w, a)) # {Unset}
    BY <1>7 DEF Given
  <2>3. /\ Value(w, a) # Unset <=> Given(w, a)
        /\ Given(w, a) => Value(w, a) = [i \in NonEmpty(Text(w, a)) |-> Text(w, a)[i]]
    BY <1>4, <2>1, <2>2, PeersParsed
  <2>4. Given(w, a) => Items(w, a) = [i \in NonEmpty(Text(w, a)) |-> NewPeer(Text(w, a)[i])]
    <3> SUFFICES ASSUME Given(w, a)
                 PROVE  Items(w, a) = [i \in NonEmpty(Text(w, a)) |-> NewPeer(Text(w, a)[i])]
      OBVIOUS
    <3>1. Items(w, a) = [i \in DOMAIN Value(w, a) |-> NewPeer(Value(w, a)[i])]
      BY <1>3, <2>3 DEF Items
    <3> QED
      BY <2>3, <3>1
  <2> QED
    BY <1>2, <1>5, <2>1, <2>3, <2>4
<1> QED
  BY <1>6, <1>7

\* A peer of a list, with its address or without.
PeerOf(peer, list) ==
  peer.host \in Hosts(list) /\ peer.host # Unset /\ peer.ip \in {peer.host, AnyAddress}

\* A position that is not empty gives such a peer, whatever a lookup finds.
LEMMA ListedPeer ==
  ASSUME NEW t, IsPeerList(t), NEW k \in NonEmpty(t),
         NEW ip \in {NewPeer(t[k]).host, AnyAddress}
  PROVE  k # 0 /\ PeerOf([NewPeer(t[k]) EXCEPT !.ip = ip], t)
<1>1. k \in DOMAIN t /\ t[k] # Unset /\ t[k].host # Unset /\ k # 0
  BY DEF IsPeerList, NonEmpty
<1>2. t[k].host \in Hosts(t)
  BY <1>1 DEF Hosts, Range
<1>3. /\ NewPeer(t[k]).host = t[k].host
      /\ [NewPeer(t[k]) EXCEPT !.ip = ip].host = t[k].host
      /\ [NewPeer(t[k]) EXCEPT !.ip = ip].ip = ip
  BY DEF NewPeer
<1> QED
  BY <1>1, <1>2, <1>3 DEF PeerOf

\* The pools of an action that was visited hold the peers that are set for it.
LEMMA PoolPeers ==
  ASSUME TypeOK, LoadInOrder, OptionsInOrder, PeersInOrder, phase = "run",
         NEW v \in Vertices, TypeOf(v) \in Generating, actions[v] = Visited(v),
         NEW a \in {"peers", "socksproxy"}
  PROVE  /\ Defaulted(v)[a] = Unset <=> Setting(v, a) = Unset
         /\ Defaulted(v)[a] # Unset => \A k \in DOMAIN pools[Defaulted(v)[a]].items :
              k # 0 /\ PeerOf(pools[Defaulted(v)[a]].items[k], Setting(v, a))
<1>1. \A w \in {v, startAction} :
        /\ a \in DOMAIN Options(w) /\ (Options(w)[a] # Unset <=> Given(w, a))
        /\ Given(w, a) =>
             /\ Options(w)[a] = <<w, a>> /\ IsPeerList(Text(w, a))
             /\ Items(w, a) = [i \in NonEmpty(Text(w, a)) |-> NewPeer(Text(w, a)[i])]
  BY PeerOptions
<1>2. CASE Defaulted(v)[a] = Unset /\ Setting(v, a) = Unset
  BY <1>2
<1>3. ASSUME NEW w \in {v, startAction}, Given(w, a), Setting(v, a) = Text(w, a),
             Defaulted(v)[a] = Options(w)[a]
      PROVE  /\ Defaulted(v)[a] # Unset /\ Setting(v, a) # Unset
             /\ \A k \in DOMAIN pools[Defaulted(v)[a]].items :
                  k # 0 /\ PeerOf(pools[Defaulted(v)[a]].items[k], Setting(v, a))
  <2>1. /\ Defaulted(v)[a] # Unset /\ Setting(v, a) # Unset /\ Defaulted(v)[a] = <<w, a>>
        /\ IsPeerList(Text(w, a))
        /\ Items(w, a) = [i \in NonEmpty(Text(w, a)) |-> NewPeer(Text(w, a)[i])]
    BY <1>1, <1>3 DEF Given
  <2>2. <<w, a>> \in DOMAIN pools
    <3>1. a \in PoolOptions(TypeOf(v))
      BY Sources
    <3>2. actions[v].type = TypeOf(v) /\ actions[v].options[a] = Defaulted(v)[a]
      BY DEF Visited
    <3>3. Defaulted(v)[a] \in DOMAIN pools \cup {Unset}
      BY <3>1, <3>2 DEF TypeOK
    <3> QED
      BY <2>1, <3>3
  <2>3. /\ DOMAIN pools[<<w, a>>].items = DOMAIN Items(w, a)
        /\ \A k \in DOMAIN Items(w, a) : \E ip \in {Items(w, a)[k].host, AnyAddress} :
             pools[<<w, a>>].items[k] = [Items(w, a)[k] EXCEPT !.ip = ip]
    <3>1. <<w, a>>[1] = w /\ <<w, a>>[2] = a
      OBVIOUS
    <3>2. PICK id : id = <<w, a>>
      OBVIOUS
    <3>3. id[1] = w /\ id[2] = a
      BY <3>1, <3>2
    <3> QED
      BY <2>2, <3>2, <3>3 DEF PeersInOrder, AsGiven
  <2> DEFINE T == Text(w, a)
  <2>4. ASSUME NEW k \in DOMAIN pools[<<w, a>>].items
        PROVE  k # 0 /\ PeerOf(pools[<<w, a>>].items[k], T)
    <3>1. k \in NonEmpty(T) /\ Items(w, a)[k] = NewPeer(T[k])
      BY <2>1, <2>3
    <3>2. PICK ip \in {NewPeer(T[k]).host, AnyAddress} :
            pools[<<w, a>>].items[k] = [NewPeer(T[k]) EXCEPT !.ip = ip]
      BY <2>1, <2>3, <3>1
    <3>3. IsPeerList(T)
      BY <2>1
    <3> HIDE DEF T
    <3>4. k # 0 /\ PeerOf([NewPeer(T[k]) EXCEPT !.ip = ip], T)
      BY <3>1, <3>2, <3>3, ListedPeer
    <3> QED
      BY <3>2, <3>4
  <2> QED
    BY <1>3, <2>1, <2>4
<1>4. \/ Defaulted(v)[a] = Unset /\ Setting(v, a) = Unset
      \/ \E w \in {v, startAction} : /\ Given(w, a) /\ Setting(v, a) = Text(w, a)
                                     /\ Defaulted(v)[a] = Options(w)[a]
  BY <1>1, SameSource
<1> QED
  BY <1>2, <1>3, <1>4

\* The stream is made as the configuration says.
Honours(s) ==
  LET v == s.at
      direct == Hosts(Proxies(v)) = {}
      connectee == IF direct THEN s.dest ELSE s.via
  IN /\ s.dest \in Hosts(Setting(v, "peers"))
     /\ IF direct THEN s.via = Unset ELSE s.via \in Hosts(Proxies(v))
     /\ s.ip \in {connectee, AnyAddress}
     /\ s.auth = IF direct THEN Unset
                 ELSE IF Setting(v, "socksauthseed") # Unset THEN "random"
                 ELSE <<Setting(v, "socksusername"), Setting(v, "sockspassword")>>
     /\ \A a \in {"sendsize", "recvsize"} : s[a] = Amount(Setting(v, a), ByteUnit, "b")
     /\ \A a \in {"timeout", "stallout"} :
          LET amount == Amount(Setting(v, a), TimeUnit, "s")
          IN s[a] = amount \/ (amount # Unset /\ amount >= Word)
     /\ s.model = Setting(v, "packetmodelpath")

\* Whom a stream connects to: one of the proxies if there are any, or the peer itself.
Connects(v, dest, via, ip) ==
  \/ Hosts(Proxies(v)) = {} /\ via = Unset /\ ip \in {dest, AnyAddress}
  \/ via \in Hosts(Proxies(v)) /\ via # Unset /\ ip \in {via, AnyAddress}

\* It is, if its peer and its proxy are.
LEMMA StreamHonours ==
  ASSUME TypeOK, LoadInOrder, OptionsInOrder, GensInOrder, phase = "run",
         NEW g \in Slots, gens[g].kind \in {"stream", "flow"}, NEW i, NEW via, NEW ip,
         NEW dest, dest = pools[Defaulted(gens[g].at)["peers"]].items[i].host,
         dest \in Hosts(Setting(gens[g].at, "peers")), Connects(gens[g].at, dest, via, ip)
  PROVE  Honours(NewStream(g, i, via, ip))
<1> DEFINE v == gens[g].at
           D == Defaulted(v)
<1>1. PICK s : s = NewStream(g, i, via, ip)
  OBVIOUS
<1>2. v \in Vertices /\ TypeOf(v) \in Generating /\ actions[v] = Visited(v)
  BY StartOptions DEF OptionsInOrder
<1>3. actions[v].options = D
  BY <1>2 DEF Visited
<1>4. /\ s.at = v /\ s.dest = dest /\ s.via = via /\ s.ip = ip
      /\ s.auth = (IF via = Unset THEN Unset ELSE gens[g].auth)
      /\ s["sendsize"] = D["sendsize"] /\ s["recvsize"] = D["recvsize"]
      /\ s["timeout"] = D["timeout"] /\ s["stallout"] = D["stallout"]
      /\ s.model = D["packetmodelpath"]
  BY <1>3, <1>1 DEF NewStream
<1> HIDE DEF D
<1>5. gens[g].auth = IF Setting(v, "socksauthseed") # Unset THEN "random"
                     ELSE <<Setting(v, "socksusername"), Setting(v, "sockspassword")>>
  <2>1. gens[g].auth = initSocksAuthStrings(Defaulted(v))
    BY DEF GensInOrder, Configured
  <2> HIDE DEF v
  <2> QED
    BY <1>2, <2>1, SeedsHeld, StringsHeld DEF initSocksAuthStrings
<1>6. s.model = Setting(v, "packetmodelpath")
  BY <1>2, <1>4, StringsHeld DEF D
<1>7. \A a \in {"sendsize", "recvsize"} : s[a] = Amount(Setting(v, a), ByteUnit, "b")
  BY <1>2, <1>4, SizesHeld DEF D
<1>8. \A a \in {"timeout", "stallout"} :
        LET amount == Amount(Setting(v, a), TimeUnit, "s")
        IN s[a] = amount \/ (amount # Unset /\ amount >= Word)
  BY <1>2, <1>4, TimesHeld DEF D
<1>9. ASSUME Hosts(Proxies(v)) = {} PROVE Honours(s)
  <2>1. s.dest \in Hosts(Setting(v, "peers")) /\ s.via = Unset /\ s.ip \in {s.dest, AnyAddress}
        /\ s.auth = Unset
    BY <1>4, <1>9 DEF D, Connects
  <2> HIDE DEF v
  <2> QED
    BY <1>4, <1>6, <1>7, <1>8, <1>9, <2>1 DEF Honours
<1>10. ASSUME Hosts(Proxies(v)) # {} PROVE Honours(s)
  <2>1. /\ s.dest \in Hosts(Setting(v, "peers")) /\ s.via \in Hosts(Proxies(v))
        /\ s.ip \in {s.via, AnyAddress}
        /\ s.auth = gens[g].auth
    BY <1>4, <1>10 DEF D, Connects
  <2> HIDE DEF v
  <2> QED
    BY <1>4, <1>5, <1>6, <1>7, <1>8, <1>10, <2>1 DEF Honours
<1> QED
  BY <1>1, <1>9, <1>10


\* The proxies of which one is used, by how newActive finds it.
LEMMA ProxiesUsed ==
  ASSUME conf \in Cases, NEW v
  PROVE  /\ getProxyFromEnv # Unset =>
              /\ getProxyFromEnv = conf.env /\ conf.env.host # Unset
              /\ Hosts(Proxies(v)) = {conf.env.host}
         /\ getProxyFromEnv = Unset =>
              Hosts(Proxies(v)) = IF Setting(v, "socksproxy") = Unset THEN {}
                                  ELSE Hosts(Setting(v, "socksproxy"))
<1>1. conf.env # Unset => conf.env.host # Unset /\ conf.env.port \in Nat \cup {Unset}
  BY CasesAssumption
<1>2. getProxyFromEnv =
        IF conf.env # Unset /\ conf.env.port # Unset /\ ~(conf.env.port > Max16) THEN conf.env
        ELSE Unset
  BY DEF getProxyFromEnv, parsePeer, NotGiven, Malformed, Parsed
<1> DEFINE usable == conf.env # Unset /\ conf.env.port # Unset /\ conf.env.port <= Max16
<1>3. getProxyFromEnv = IF usable THEN conf.env ELSE Unset
  BY <1>1, <1>2, UnitAssumption
<1>4. CASE usable
  <2>1. Proxies(v) = <<conf.env>>
    BY <1>4 DEF Proxies
  <2>2. Range(<<conf.env>>) = {conf.env}
    BY DEF Range
  <2>3. Hosts(Proxies(v)) = {conf.env.host}
    BY <1>4, <2>1, <2>2 DEF Hosts
  <2> QED
    BY <1>1, <1>3, <1>4, <2>3
<1>5. CASE ~usable
  <2>1. Proxies(v) = IF Setting(v, "socksproxy") = Unset THEN <<>> ELSE Setting(v, "socksproxy")
    BY <1>5 DEF Proxies
  <2>2. Hosts(<<>>) = {}
    BY DEF Hosts, Range
  <2> QED
    BY <1>3, <1>5, <2>1, <2>2
<1> QED
  BY <1>4, <1>5

\* A lookup finds the address of the peer, or nothing.
LEMMA PeerAddresses ==
  ASSUME NEW peer, NEW ip \in Addresses(peer), peer.ip \in {peer.host, AnyAddress}
  PROVE  ip \in {peer.host, AnyAddress}
BY DEF Addresses

\* The stream that newActive makes is made as the configuration says.
LEMMA ActiveHonours ==
  ASSUME TypeOK, LoadInOrder, OptionsInOrder, PeersInOrder, GensInOrder, phase = "run",
         NEW g \in Slots, gens[g].kind \in {"stream", "flow"},
         actions[gens[g].at].options["peers"] # Unset, newActive(g)
  PROVE  Honours(last')
<1> DEFINE v == gens[g].at
           D == Defaulted(v)
<1>1. /\ v \in Vertices /\ TypeOf(v) \in Generating /\ actions[v] = Visited(v)
      /\ conf \in Cases
  BY StartOptions DEF OptionsInOrder, TypeOK
<1>2. actions[v].options = D /\ D["peers"] # Unset
  BY <1>1 DEF Visited
<1>3. \A k \in DOMAIN pools[D["peers"]].items : PeerOf(pools[D["peers"]].items[k], Setting(v, "peers"))
  BY <1>1, <1>2, PoolPeers
<1>4. gens[g].proxy \in getRandom(D["socksproxy"])
  BY DEF GensInOrder, Configured
<1>5. getRandom(D["peers"]) = DOMAIN pools[D["peers"]].items
  BY <1>2 DEF getRandom
<1>6. ASSUME getProxyFromEnv # Unset
      PROVE  \E i \in getRandom(D["peers"]), ip \in Addresses(NewPeer(conf.env)) :
               last' = NewStream(g, i, conf.env.host, ip)
  <2>1. getProxyFromEnv = conf.env
    BY <1>1, <1>6, ProxiesUsed
  <2> QED
    BY <1>2, <1>6, <2>1 DEF newActive
<1>7. ASSUME getProxyFromEnv = Unset, gens[g].proxy # 0
      PROVE  \E i \in getRandom(D["peers"]),
                ip \in Addresses(pools[D["socksproxy"]].items[gens[g].proxy]) :
               last' = NewStream(g, i, pools[D["socksproxy"]].items[gens[g].proxy].host, ip)
  BY <1>2, <1>7 DEF newActive
<1>8. ASSUME getProxyFromEnv = Unset, gens[g].proxy = 0
      PROVE  \E i \in getRandom(D["peers"]) : \E ip \in Addresses(pools[D["peers"]].items[i]) :
               last' = NewStream(g, i, Unset, ip)
  BY <1>2, <1>8 DEF newActive
<1> HIDE DEF D
<1>9. ASSUME NEW i \in getRandom(D["peers"]), NEW dest, dest = pools[D["peers"]].items[i].host
      PROVE  /\ PeerOf(pools[D["peers"]].items[i], Setting(v, "peers"))
             /\ \A via, ip : Connects(v, dest, via, ip) => Honours(NewStream(g, i, via, ip))
  <2>1. PeerOf(pools[D["peers"]].items[i], Setting(v, "peers"))
    BY <1>3, <1>5
  <2>2. dest \in Hosts(Setting(v, "peers"))
    BY <1>9, <2>1 DEF PeerOf
  <2>3. ASSUME NEW via, NEW ip, Connects(v, dest, via, ip) PROVE Honours(NewStream(g, i, via, ip))
    <3>1. dest = pools[Defaulted(gens[g].at)["peers"]].items[i].host
      BY <1>9 DEF D
    <3> QED
      BY <2>2, <2>3, <3>1, StreamHonours, Zenon
  <2> QED
    BY <2>1, <2>3
<1>10. CASE getProxyFromEnv # Unset
  <2>1. PICK i \in getRandom(D["peers"]), ip \in Addresses(NewPeer(conf.env)) :
          last' = NewStream(g, i, conf.env.host, ip)
    BY <1>6, <1>10
  <2>2. conf.env.host # Unset /\ Hosts(Proxies(v)) = {conf.env.host}
    BY <1>1, <1>10, ProxiesUsed
  <2>3. ip \in {conf.env.host, AnyAddress}
    BY PeerAddresses DEF NewPeer
  <2>4. \A dest : Connects(v, dest, conf.env.host, ip)
    BY <2>2, <2>3 DEF Connects
  <2> QED
    BY <1>9, <2>1, <2>4
<1>11. CASE getProxyFromEnv = Unset /\ gens[g].proxy # 0
  <2> DEFINE proxy == pools[D["socksproxy"]].items[gens[g].proxy]
  <2>1. PICK i \in getRandom(D["peers"]), ip \in Addresses(proxy) :
          last' = NewStream(g, i, proxy.host, ip)
    BY <1>7, <1>11
  <2>2. D["socksproxy"] # Unset /\ gens[g].proxy \in DOMAIN pools[D["socksproxy"]].items
    BY <1>4, <1>11 DEF getRandom
  <2>3. PeerOf(proxy, Setting(v, "socksproxy")) /\ Setting(v, "socksproxy") # Unset
    BY <1>1, <2>2, PoolPeers DEF D
  <2>4. Hosts(Proxies(v)) = Hosts(Setting(v, "socksproxy"))
    BY <1>1, <1>11, <2>3, ProxiesUsed
  <2>5. ip \in {proxy.host, AnyAddress}
    BY <2>3, PeerAddresses DEF PeerOf
  <2>6. \A dest : Connects(v, dest, proxy.host, ip)
    BY <2>3, <2>4, <2>5 DEF Connects, PeerOf
  <2> HIDE DEF proxy
  <2> QED
    BY <1>9, <2>1, <2>6
<1>12. CASE getProxyFromEnv = Unset /\ gens[g].proxy = 0
  <2>1. PICK i \in getRandom(D["peers"]) : \E ip \in Addresses(pools[D["peers"]].items[i]) :
          last' = NewStream(g, i, Unset, ip)
    BY <1>8, <1>12
  <2>2. PICK ip \in Addresses(pools[D["peers"]].items[i]) : last' = NewStream(g, i, Unset, ip)
    BY <2>1
  <2>3. D["socksproxy"] = Unset
    <3>1. ASSUME D["socksproxy"] # Unset PROVE FALSE
      <4>1. gens[g].proxy \in DOMAIN pools[D["socksproxy"]].items
        BY <1>4, <3>1 DEF getRandom
      <4> QED
        BY <1>1, <1>12, <3>1, <4>1, PoolPeers DEF D
    <3> QED
      BY <3>1
  <2>4. Hosts(Proxies(v)) = {}
    BY <1>1, <1>12, <2>3, PoolPeers, ProxiesUsed DEF D
  <2> DEFINE dest == pools[D["peers"]].items[i].host
  <2>5. ip \in {dest, AnyAddress}
    BY <1>9, PeerAddresses DEF PeerOf
  <2>6. Connects(v, dest, Unset, ip)
    BY <2>4, <2>5 DEF Connects
  <2> QED
    BY <1>9, <2>2, <2>6
<1> QED
  BY <1>10, <1>11, <1>12
-----------------------------------------------------------------------------
(* Every stream is made as the configuration says.                         *)

\* What a pool of peers is made of are peers.
LEMMA ItemIsPeer ==
  ASSUME NEW w, NEW a \in {"peers", "socksproxy"}, NEW k \in DOMAIN Items(w, a)
  PROVE  \E t : Items(w, a)[k] = NewPeer(t)
<1>1. Value(w, Origin(a)) # Unset
  BY DEF Items
<1>2. Items(w, a) = [i \in DOMAIN Value(w, Origin(a)) |-> NewPeer(Value(w, Origin(a))[i])]
  BY <1>1 DEF Items
<1> QED
  BY <1>2

\* As long as the peers in the pools do not change, they are in order.
LEMMA PeersStay ==
  ASSUME PeersInOrder, conf' = conf, DOMAIN pools' = DOMAIN pools,
         \A id \in DOMAIN pools : pools'[id].items = pools[id].items
  PROVE  PeersInOrder'
<1>1. \A w, o : Items(w, o)' = Items(w, o)
  BY ConfStays
<1> QED
  BY <1>1 DEF PeersInOrder

\* Giving back references does not change them.
LEMMA ReleaseKeepsPeers ==
  ASSUME TypeOK, PeersInOrder, PoolsInOrder, conf' = conf, Release
  PROVE  PeersInOrder'
<1>1. pools' = Freed(Vertices)
  BY ReleaseFrees
<1>2. DOMAIN pools' = DOMAIN pools /\ \A id \in DOMAIN pools : pools'[id].items = pools[id].items
  BY <1>1 DEF Freed, Recounted
<1> QED
  BY <1>2, PeersStay

\* Neither does taking more.
LEMMA VisitKeepsPeers ==
  ASSUME TypeOK, PeersInOrder, PoolsInOrder, conf' = conf, NEW v, NEW s, initiate(v, s)
  PROVE  PeersInOrder'
<1>1. pools' = Shared(Copied(v), v)
  BY VisitShares
<1>2. DOMAIN pools' = DOMAIN pools /\ \A id \in DOMAIN pools : pools'[id].items = pools[id].items
  BY <1>1 DEF Shared, Recounted
<1> QED
  BY <1>2, PeersStay

\* A new pool has the peers of its option, and no address has been looked up.
LEMMA ParseKeepsPeers ==
  ASSUME TypeOK, PeersInOrder, parseVertex, VertexOK(pos)
  PROVE  PeersInOrder'
<1>1. /\ conf \in Cases /\ UNCHANGED conf /\ pos \in Vertices
      /\ pools' = [id \in (DOMAIN pools) \cup DOMAIN NewPools(pos) |->
                     IF id \in DOMAIN pools THEN pools[id] ELSE NewPools(pos)[id]]
  BY DEF parseVertex, TypeOK
<1>2. \A w, o : Items(w, o)' = Items(w, o)
  BY <1>1, ConfStays
<1>3. ASSUME NEW id \in DOMAIN pools', id[2] \in {"peers", "socksproxy"}
      PROVE  AsGiven(pools'[id].items, Items(id[1], id[2]))
  <2>1. CASE id \in DOMAIN pools
    BY <1>1, <1>3, <2>1 DEF PeersInOrder
  <2>2. CASE id \notin DOMAIN pools
    <3>1. id[1] = pos /\ pools'[id] = [items |-> Items(pos, id[2]), refs |-> 1]
      BY <1>1, <2>2, PoolIds
    <3>2. pools'[id].items = Items(id[1], id[2])
      BY <3>1
    <3>3. ASSUME NEW k \in DOMAIN Items(id[1], id[2])
          PROVE  \E ip \in {Items(id[1], id[2])[k].host, AnyAddress} :
                   Items(id[1], id[2])[k] = [Items(id[1], id[2])[k] EXCEPT !.ip = ip]
      <4>1. PICK t : Items(id[1], id[2])[k] = NewPeer(t)
        BY <1>3, <3>3, ItemIsPeer
      <4>2. /\ NewPeer(t).ip \in {NewPeer(t).host, AnyAddress}
            /\ NewPeer(t) = [NewPeer(t) EXCEPT !.ip = NewPeer(t).ip]
        BY DEF NewPeer
      <4> QED
        BY <4>1, <4>2
    <3> QED
      BY <3>2, <3>3 DEF AsGiven
  <2> QED
    BY <2>1, <2>2
<1> QED
  BY <1>2, <1>3 DEF PeersInOrder

\* A lookup only writes an address, and only one that the peer may have.
LEMMA LookupKeepsPeers ==
  ASSUME PeersInOrder, PoolsInOrder, conf' = conf, NEW id, NEW k,
         NEW ip \in Addresses(pools[id].items[k]), pools' = performLookups(id, k, ip)
  PROVE  PeersInOrder'
<1>1. DOMAIN pools' = DOMAIN pools /\ \A i \in DOMAIN pools : i # id => pools'[i] = pools[i]
  BY DEF performLookups
<1>2. \A w, o : Items(w, o)' = Items(w, o)
  BY ConfStays
<1>3. ASSUME id \in DOMAIN pools, id[2] \in {"peers", "socksproxy"}
      PROVE  AsGiven(pools'[id].items, Items(id[1], id[2]))
  <2> DEFINE items == pools[id].items
             given == Items(id[1], id[2])
  <2>1. /\ DOMAIN items = DOMAIN given
        /\ \A j \in DOMAIN given : \E x \in {given[j].host, AnyAddress} :
             items[j] = [given[j] EXCEPT !.ip = x]
    BY <1>3 DEF PeersInOrder, AsGiven
  <2>2. pools'[id].items = [items EXCEPT ![k].ip = ip]
    <3>1. pools[id] = [items |-> pools[id].items, refs |-> pools[id].refs]
      BY <1>3 DEF PoolsInOrder
    <3>2. pools'[id] = [pools[id] EXCEPT !.items = [pools[id].items EXCEPT ![k].ip = ip]]
      BY <1>3 DEF performLookups
    <3> QED
      BY <3>1, <3>2
  <2>3. ASSUME k \in DOMAIN given
        PROVE  \E x \in {given[k].host, AnyAddress} : [items[k] EXCEPT !.ip = ip] = [given[k] EXCEPT !.ip = x]
    <3>1. PICK t : given[k] = NewPeer(t)
      BY <1>3, <2>3, ItemIsPeer
    <3>2. PICK x \in {given[k].host, AnyAddress} : items[k] = [given[k] EXCEPT !.ip = x]
      BY <2>1, <2>3
    <3>3. items[k] = [NewPeer(t) EXCEPT !.ip = x] /\ x \in {t.host, AnyAddress}
      BY <3>1, <3>2 DEF NewPeer
    <3>4. /\ items[k].ip = x /\ items[k].host = t.host
          /\ [items[k] EXCEPT !.ip = ip] = [NewPeer(t) EXCEPT !.ip = ip]
      BY <3>3 DEF NewPeer
    <3>5. ip \in {items[k].host, AnyAddress}
      BY <3>3, <3>4, PeerAddresses
    <3>6. ip \in {given[k].host, AnyAddress}
      BY <3>1, <3>4, <3>5 DEF NewPeer
    <3> QED
      BY <3>1, <3>4, <3>6
  <2> HIDE DEF items, given
  <2>4. DOMAIN pools'[id].items = DOMAIN given
    BY <2>1, <2>2
  <2>5. ASSUME NEW j \in DOMAIN given
        PROVE  pools'[id].items[j] = IF j = k THEN [items[k] EXCEPT !.ip = ip] ELSE items[j]
    BY <2>1, <2>2
  <2>6. ASSUME NEW j \in DOMAIN given
        PROVE  \E x \in {given[j].host, AnyAddress} : pools'[id].items[j] = [given[j] EXCEPT !.ip = x]
    <3>1. CASE j = k
      BY <2>3, <2>5, <3>1
    <3>2. CASE j # k
      BY <2>1, <2>5, <3>2
    <3> QED
      BY <3>1, <3>2
  <2> QED
    BY <2>4, <2>6 DEF given, AsGiven
<1>4. ASSUME NEW i \in DOMAIN pools', i[2] \in {"peers", "socksproxy"}
      PROVE  AsGiven(pools'[i].items, Items(i[1], i[2]))
  <2>1. CASE i = id
    BY <1>1, <1>3, <1>4, <2>1
  <2>2. CASE i # id
    BY <1>1, <1>4, <2>2 DEF PeersInOrder
  <2> QED
    BY <2>1, <2>2
<1> QED
  BY <1>2, <1>4 DEF PeersInOrder

\* No step writes to the configuration.
LEMMA ConfKept ==
  ASSUME [Next]_vars
  PROVE  conf' = conf
<1>1. CASE parseGraphProperties \/ parseVertex \/ endVertices
  BY <1>1 DEF parseGraphProperties, parseVertex, endVertices
<1>2. CASE Walk
  BY <1>2, WalkFrame
<1>3. CASE UNCHANGED vars
  BY <1>3 DEF vars
<1> QED
  BY <1>1, <1>2, <1>3 DEF Next, Walk

\* Every step keeps the peers in the pools.
LEMMA PeersKept ==
  ASSUME TypeOK, LoadInOrder, OptionsInOrder, PoolsInOrder, PeersInOrder, [Next]_vars
  PROVE  PeersInOrder'
<1>1. conf' = conf
  BY ConfKept
<1>2. CASE UNCHANGED pools
  BY <1>1, <1>2, PeersStay
<1>3. CASE Release
  BY <1>1, <1>3, ReleaseKeepsPeers
<1>4. CASE parseVertex /\ VertexOK(pos)
  BY <1>4, ParseKeepsPeers
<1>5. ASSUME NEW v \in Vertices, NEW s \in Slots, initiate(v, s)
      PROVE  PeersInOrder'
  BY <1>1, <1>5, VisitKeepsPeers
<1>6. ASSUME NEW g, newActive(g)
      PROVE  PeersInOrder'
  <2>1. ASSUME NEW id, NEW k, NEW ip \in Addresses(pools[id].items[k]),
               pools' = performLookups(id, k, ip)
        PROVE  PeersInOrder'
    BY <1>1, <2>1, LookupKeepsPeers
  <2> QED
    BY <1>2, <1>6, <2>1, ActivePools
<1>7. CASE parseVertex \/ parseGraphProperties \/ endVertices \/ tgendriver_new \/ cleanup
  BY <1>2, <1>3, <1>4, <1>7
     DEF parseVertex, parseGraphProperties, endVertices, tgendriver_new, cleanup
<1>8. ASSUME NEW v \in Vertices, ProcessStart(v) \/ ProcessPause(v) \/ checkEndConditions(v)
      PROVE  PeersInOrder'
  BY <1>2, <1>8 DEF ProcessStart, ProcessPause, checkEndConditions
<1>9. ASSUME NEW g \in Slots, createStream(g)
      PROVE  PeersInOrder'
  <2>1. UNCHANGED pools \/ newActive(g)
    BY <1>9 DEF createStream
  <2> QED
    BY <1>2, <1>6, <2>1
<1>10. ASSUME NEW g \in Slots, NEW s \in Slots, onComplete(g) \/ createFlow(g, s)
       PROVE  PeersInOrder'
  BY <1>2, <1>10 DEF onComplete, createFlow
<1>11. ASSUME NEW path \in files, Rewrite(path)
       PROVE  PeersInOrder'
  BY <1>2, <1>11 DEF Rewrite
<1>12. CASE UNCHANGED vars
  BY <1>2, <1>12 DEF vars
<1> QED
  BY <1>5, <1>7, <1>8, <1>9, <1>10, <1>11, <1>12 DEF Next

\* There is a pool of proxies wherever an option asks for one.
LEMMA SocksPool ==
  ASSUME TypeOK, LoadInOrder, OptionsInOrder, PoolsInOrder, phase = "run",
         NEW v \in Vertices, TypeOf(v) \in Generating, NEW id, id = Defaulted(v)["socksproxy"]
  PROVE  id = Unset \/ (id \in DOMAIN pools /\ id[2] = "socksproxy")
<1>1. Stored = Vertices /\ DOMAIN pools = UNION {DOMAIN NewPools(w) : w \in Stored}
  BY StartOptions DEF PoolsInOrder
<1>2. ASSUME NEW w \in {v, startAction}, id = Options(w)["socksproxy"]
      PROVE  id = Unset \/ (id \in DOMAIN pools /\ id[2] = "socksproxy")
  <2>1. w \in Vertices /\ conf \in Cases /\ "socksproxy" \in PoolOptions(TypeOf(w))
    BY Sources
  <2>2. /\ id = IF HasPool(w, "socksproxy") THEN <<w, "socksproxy">> ELSE Unset
        /\ HasPool(w, "socksproxy") => <<w, "socksproxy">> \in DOMAIN NewPools(w)
    BY <1>2, <2>1, PoolIds
  <2> QED
    BY <1>1, <2>1, <2>2
<1>3. "socksproxy" \in DOMAIN Options(v)
  BY PeerOptions
<1>4. id = Options(v)["socksproxy"] \/ id = Options(startAction)["socksproxy"]
  BY <1>3 DEF Defaulted
<1> QED
  BY <1>2, <1>4

\* The proxies among which one is chosen stay the same.
LEMMA ProxiesStay ==
  ASSUME TypeOK, LoadInOrder, OptionsInOrder, PoolsInOrder, PoolsInOrder', PeersInOrder,
         PeersInOrder', phase = "run", UNCHANGED <<conf, pos>>,
         NEW v \in Vertices, TypeOf(v) \in Generating, NEW id, id = Defaulted(v)["socksproxy"]
  PROVE  getRandom(id)' = getRandom(id)
<1>1. id = Unset \/ (id \in DOMAIN pools /\ id[2] = "socksproxy")
  BY SocksPool
<1>2. DOMAIN pools' = DOMAIN pools
  <2>1. (UNION {DOMAIN NewPools(w) : w \in Stored})' = UNION {DOMAIN NewPools(w) : w \in Stored}
    BY ConfStays DEF Stored
  <2> QED
    BY <2>1 DEF PoolsInOrder
<1>3. CASE id = Unset
  BY <1>3 DEF getRandom
<1>4. CASE id # Unset
  <2>1. \A w, o : Items(w, o)' = Items(w, o)
    BY ConfStays
  <2>2. DOMAIN pools[id].items = DOMAIN Items(id[1], id[2])
    BY <1>1, <1>4 DEF PeersInOrder, AsGiven
  <2>3. DOMAIN pools'[id].items = DOMAIN Items(id[1], id[2])
    BY <1>1, <1>2, <1>4, <2>1 DEF PeersInOrder, AsGiven
  <2> QED
    BY <1>4, <2>2, <2>3 DEF getRandom
<1> QED
  BY <1>3, <1>4

\* So a generator stays as it was configured.
LEMMA ConfiguredStays ==
  ASSUME TypeOK, LoadInOrder, OptionsInOrder, PoolsInOrder, PoolsInOrder', PeersInOrder,
         PeersInOrder', phase = "run", UNCHANGED <<conf, pos, startAction>>, NEW x, Configured(x),
         x.kind # "NONE" => x.at \in Vertices /\ TypeOf(x.at) \in Generating
  PROVE  Configured(x)'
<1>1. CASE x.kind \notin {"stream", "flow"}
  BY <1>1 DEF Configured
<1>2. CASE x.kind \in {"stream", "flow"}
  <2>1. x.at \in Vertices /\ TypeOf(x.at) \in Generating
    BY <1>2
  <2>2. \A v : Defaulted(v)' = Defaulted(v)
    BY StoredStays
  <2>3. \A id : id = Defaulted(x.at)["socksproxy"] => getRandom(id)' = getRandom(id)
    BY <2>1, ProxiesStay
  <2>4. getRandom(Defaulted(x.at)["socksproxy"])' = getRandom(Defaulted(x.at)["socksproxy"])
    BY <2>2, <2>3
  <2> QED
    BY <2>2, <2>4 DEF Configured, initSocksAuthStrings
<1> QED
  BY <1>1, <1>2

\* A new generator is configured by the options that it is given.
LEMMA NewConfigured ==
  ASSUME OptionsInOrder, NEW s \in Slots, NEW kind \in Generating, NEW at, NEW parent,
         NewGenerator(s, kind, at, parent, Defaulted(at))
  PROVE  Configured(gens'[s])
<1>1. DOMAIN gens = Slots
  BY DEF OptionsInOrder
<1>2. CASE kind = "traffic"
  <2>1. gens'[s] = [NoGen EXCEPT !.kind = kind, !.at = at]
    BY <1>1, <1>2 DEF NewGenerator
  <2>2. gens'[s].kind = "traffic" /\ ~gens'[s].fresh
    BY <1>2, <2>1 DEF NoGen
  <2> QED
    BY <2>2 DEF Configured
<1>3. CASE kind # "traffic"
  <2> DEFINE single == kind = "stream" \/ ~HasModel(Defaulted(at)[ModelOption(kind)])
  <2>1. PICK p \in getRandom(Defaulted(at)["socksproxy"]) :
          gens' = [gens EXCEPT ![s] =
            [kind |-> IF single THEN "stream" ELSE "flow", at |-> at, parent |-> parent,
             fresh |-> single, proxy |-> p, auth |-> initSocksAuthStrings(Defaulted(at))]]
    BY <1>3 DEF NewGenerator
  <2> HIDE DEF single
  <2>2. /\ gens'[s].at = at /\ gens'[s].proxy = p
        /\ gens'[s].auth = initSocksAuthStrings(Defaulted(at))
        /\ gens'[s].fresh = single /\ (single => gens'[s].kind = "stream")
    BY <1>1, <2>1
  <2> QED
    BY <2>2 DEF Configured
<1> QED
  BY <1>2, <1>3

\* What a step of the walk leaves of the generators is configured.
LEMMA WalkConfigures ==
  ASSUME TypeOK, LoadInOrder, OptionsInOrder, GensInOrder, phase = "run", Walk
  PROVE  \A s \in Slots : Configured(gens'[s])
<1>1. DOMAIN gens = Slots /\ \A s \in Slots : Configured(gens[s])
  BY DEF OptionsInOrder, GensInOrder
<1>2. CASE UNCHANGED gens
  BY <1>1, <1>2
<1>3. Configured(NoGen)
  BY DEF Configured, NoGen
<1>4. CASE tgendriver_new \/ cleanup
  BY <1>2, <1>4 DEF tgendriver_new, cleanup, run
<1>5. ASSUME NEW v \in Vertices, ProcessStart(v) \/ ProcessPause(v) \/ checkEndConditions(v)
      PROVE  \A s \in Slots : Configured(gens'[s])
  BY <1>2, <1>5 DEF ProcessStart, ProcessPause, checkEndConditions
<1>6. ASSUME NEW s \in Slots, NEW kind \in Generating, NEW at, NEW parent,
             NewGenerator(s, kind, at, parent, Defaulted(at))
      PROVE  \A t \in Slots : Configured(gens'[t])
  <2>1. \A t \in Slots \ {s} : gens'[t] = gens[t]
    BY <1>6, NewGeneratorKeeps
  <2>2. Configured(gens'[s])
    BY <1>6, NewConfigured
  <2> QED
    BY <1>1, <2>1, <2>2
<1>7. ASSUME NEW v \in Vertices, NEW s \in Slots, initiate(v, s)
      PROVE  \A t \in Slots : Configured(gens'[t])
  <2>1. actions[v].type \in Generating /\ NewGenerator(s, actions[v].type, v, 0, CopyDefaults(v))
    BY <1>7, InitiateDoes
  <2>2. v \in Stored
    BY StartOptions
  <2>3. actions[v] = Own(v) \/ actions[v] = Visited(v)
    BY <2>2 DEF OptionsInOrder
  <2>4. TypeOf(v) \in Generating
    BY <2>1, <2>3 DEF Own, Visited
  <2>5. CopyDefaults(v) = Defaulted(v)
    BY <2>4, CopiesDefaults
  <2> QED
    BY <1>6, <2>1, <2>5
<1>8. ASSUME NEW g \in Slots, createStream(g)
      PROVE  \A t \in Slots : Configured(gens'[t])
  <2>1. gens' = [gens EXCEPT ![g].fresh = FALSE]
    BY <1>8 DEF createStream
  <2>2. ASSUME NEW t \in Slots, t # g
        PROVE  Configured(gens'[t])
    BY <1>1, <2>1, <2>2
  <2>3. Configured(gens'[g])
    <3>1. gens'[g] = [gens[g] EXCEPT !.fresh = FALSE] /\ DOMAIN gens[g] = DOMAIN NoGen
      BY <1>1, <2>1 DEF OptionsInOrder
    <3>2. /\ gens'[g].kind = gens[g].kind /\ gens'[g].at = gens[g].at /\ ~gens'[g].fresh
          /\ gens'[g].proxy = gens[g].proxy /\ gens'[g].auth = gens[g].auth
      BY <3>1 DEF NoGen
    <3> QED
      BY <1>1, <3>2 DEF Configured
  <2> QED
    BY <2>2, <2>3
<1>9. ASSUME NEW g \in Slots, onComplete(g)
      PROVE  \A t \in Slots : Configured(gens'[t])
  <2>1. gens' = [gens EXCEPT ![g] = NoGen]
    BY <1>9 DEF onComplete
  <2> QED
    BY <1>1, <1>3, <2>1
<1>10. ASSUME NEW g \in Slots, NEW s \in Slots, createFlow(g, s)
       PROVE  \A t \in Slots : Configured(gens'[t])
  <2>1. /\ gens[g].kind = "traffic"
        /\ NewGenerator(s, "flow", gens[g].at, g, actions[gens[g].at].options)
    BY <1>10 DEF createFlow
  <2>2. actions[gens[g].at] = Visited(gens[g].at)
    BY <2>1 DEF OptionsInOrder
  <2>3. actions[gens[g].at].options = Defaulted(gens[g].at) /\ "flow" \in Generating
    BY <2>2 DEF Visited, Generating
  <2> QED
    BY <1>6, <2>1, <2>3
<1>11. ASSUME NEW path \in files, Rewrite(path)
       PROVE  \A s \in Slots : Configured(gens'[s])
  BY <1>2, <1>11 DEF Rewrite, run
<1> QED
  BY <1>4, <1>5, <1>7, <1>8, <1>9, <1>10, <1>11 DEF Walk

\* Every step keeps the generators configured.
LEMMA GensKept ==
  ASSUME TypeOK, LoadInOrder, OptionsInOrder, PoolsInOrder, PeersInOrder, GensInOrder,
         OptionsInOrder', PoolsInOrder', PeersInOrder', [Next]_vars
  PROVE  GensInOrder'
<1>1. Slots' = Slots
  BY DEF Slots
<1>2. ASSUME UNCHANGED gens, Loading
      PROVE  \A s \in Slots : Configured(gens[s])'
  <2>1. \A s \in Slots : gens'[s] = NoGen
    BY <1>2, LoadingOptions
  <2> QED
    BY <2>1 DEF Configured, NoGen
<1>3. CASE parseGraphProperties \/ parseVertex \/ endVertices
  <2>1. Loading /\ UNCHANGED <<gens, last>>
    BY <1>3 DEF parseGraphProperties, parseVertex, endVertices, Loading, run
  <2> QED
    BY <1>1, <1>2, <2>1 DEF GensInOrder
<1>4. CASE Walk
  <2>1. ~Loading' /\ UNCHANGED <<conf, load>> /\ phase \in {"loaded", "run"}
    BY <1>4, WalkFrame DEF Loading
  <2>2. CASE phase = "loaded"
    <3>1. tgendriver_new
      BY <1>4, <2>2 DEF Walk, cleanup, Idle, ProcessStart, ProcessPause, checkEndConditions,
         createStream, onComplete, createFlow, Rewrite, initiate
    <3>2. UNCHANGED gens /\ Loading
      BY <2>2, <3>1 DEF tgendriver_new, Loading
    <3> QED
      BY <1>1, <1>2, <2>1, <3>2 DEF GensInOrder
  <2>3. CASE phase = "run"
    <3>1. UNCHANGED <<conf, pos, startAction>>
      BY <2>1 DEF load
    <3>2. ASSUME NEW s \in Slots, NEW x, x = gens'[s]
          PROVE  Configured(x)'
      <4>1. Configured(x)
        BY <1>4, <2>3, <3>2, WalkConfigures
      <4>2. x.kind # "NONE" => x.at \in Stored' /\ TypeOf(x.at)' \in Generating
        BY <1>1, <3>2 DEF OptionsInOrder
      <4>3. x.kind # "NONE" => x.at \in Vertices /\ TypeOf(x.at) \in Generating
        BY <2>3, <3>1, <4>2, ConfStays, StartOptions DEF Stored
      <4> QED
        BY <2>3, <3>1, <4>1, <4>3, ConfiguredStays
    <3> QED
      BY <1>1, <2>1, <3>2 DEF GensInOrder, Configured
  <2> QED
    BY <2>1, <2>2, <2>3
<1>5. CASE UNCHANGED vars
  <2>1. UNCHANGED <<conf, phase, startAction, pools, gens, last>>
    BY <1>5 DEF vars
  <2>2. \A v : Defaulted(v)' = Defaulted(v)
    BY <2>1, StoredStays
  <2> QED
    BY <1>1, <2>1, <2>2 DEF GensInOrder, Configured, Loading, getRandom, initSocksAuthStrings
<1> QED
  BY <1>3, <1>4, <1>5 DEF Next, Walk

\* What the configuration says does not change.
LEMMA HonoursStays ==
  ASSUME UNCHANGED <<conf, startAction>>
  PROVE  \A s : Honours(s)' = Honours(s)
<1>1. \A v, a : Setting(v, a)' = Setting(v, a)
  <2>1. \A v, a : Text(v, a)' = Text(v, a)
    BY ConfStays
  <2> QED
    BY <2>1 DEF Setting
<1>2. \A v : Proxies(v)' = Proxies(v)
  BY <1>1 DEF Proxies
<1> QED
  BY <1>1, <1>2 DEF Honours

\* Only createStream makes a stream.
LEMMA StreamsMade ==
  ASSUME [Next]_vars
  PROVE  \/ UNCHANGED last
         \/ \E g \in Slots : /\ phase = "run" /\ newActive(g)
                             /\ gens[g].fresh \/ gens[g].kind = "flow"
                             /\ actions[gens[g].at].options["peers"] # Unset
<1>1. CASE parseVertex \/ parseGraphProperties \/ endVertices \/ tgendriver_new \/ cleanup
  BY <1>1 DEF parseVertex, parseGraphProperties, endVertices, tgendriver_new, cleanup, run
<1>2. ASSUME NEW v \in Vertices, ProcessStart(v) \/ ProcessPause(v) \/ checkEndConditions(v)
      PROVE  UNCHANGED last
  BY <1>2 DEF ProcessStart, ProcessPause, checkEndConditions
<1>3. ASSUME NEW v \in Vertices, NEW s \in Slots, initiate(v, s)
      PROVE  UNCHANGED last
  BY <1>3, InitiateDoes
<1>4. ASSUME NEW g \in Slots, createStream(g), last' # last
      PROVE  /\ phase = "run" /\ newActive(g)
             /\ gens[g].fresh \/ gens[g].kind = "flow"
             /\ actions[gens[g].at].options["peers"] # Unset
  BY <1>4 DEF createStream
<1>5. ASSUME NEW g \in Slots, NEW s \in Slots, onComplete(g) \/ createFlow(g, s)
      PROVE  UNCHANGED last
  BY <1>5 DEF onComplete, createFlow
<1>6. ASSUME NEW path \in files, Rewrite(path)
      PROVE  UNCHANGED last
  BY <1>6 DEF Rewrite, run
<1>7. CASE UNCHANGED vars
  BY <1>7 DEF vars
<1> QED
  BY <1>1, <1>2, <1>3, <1>4, <1>5, <1>6, <1>7 DEF Next

\* Every stream is made as the configuration says.
LEMMA HonouredKept ==
  ASSUME TypeOK, LoadInOrder, OptionsInOrder, PeersInOrder, GensInOrder, OptionsHonoured, [Next]_vars
  PROVE  OptionsHonoured'
<1>1. (OptionsHonoured <=> \A s : s = last /\ s # NoStream => Honours(s))'
  BY DEF OptionsHonoured, Honours
<1>2. CASE Loading
  <2>1. last = NoStream /\ UNCHANGED last
    BY <1>2, StreamsMade DEF GensInOrder, Loading
  <2> QED
    BY <1>1, <2>1
<1>3. CASE ~Loading
  <2>1. UNCHANGED <<conf, startAction>>
    <3>1. CASE parseGraphProperties \/ parseVertex \/ endVertices
      BY <1>3, <3>1 DEF parseGraphProperties, parseVertex, endVertices, Loading
    <3>2. CASE Walk
      BY <3>2, WalkFrame DEF load
    <3>3. CASE UNCHANGED vars
      BY <3>3 DEF vars
    <3> QED
      BY <3>1, <3>2, <3>3 DEF Next, Walk
  <2>2. \A s : Honours(s)' = Honours(s)
    BY <2>1, HonoursStays
  <2>3. ASSUME NEW s, s = last', s # NoStream
        PROVE  Honours(s)
    <3>1. CASE UNCHANGED last
      <4>1. OptionsHonoured <=> \A r : r = last /\ r # NoStream => Honours(r)
        BY DEF OptionsHonoured, Honours
      <4> QED
        BY <2>3, <3>1, <4>1
    <3>2. ASSUME NEW g \in Slots, phase = "run", newActive(g),
                 gens[g].fresh \/ gens[g].kind = "flow",
                 actions[gens[g].at].options["peers"] # Unset
          PROVE  Honours(s)
      <4>1. gens[g].kind \in {"stream", "flow"}
        BY <3>2 DEF GensInOrder, Configured
      <4> QED
        BY <2>3, <3>2, <4>1, ActiveHonours
    <3> QED
      BY <3>1, <3>2, StreamsMade
  <2> QED
    BY <1>1, <2>2, <2>3
<1> QED
  BY <1>2, <1>3
-----------------------------------------------------------------------------
(* The types, and the theorems.                                            *)

\* The part of the types that says where pools and generators may be follows from the rest.
LEMMA NamesInOrder ==
  ASSUME conf \in Cases, pos \in 1 .. Len(conf.words) + 1,
         LoadInOrder, OptionsInOrder, PoolsInOrder
  PROVE  /\ \A v \in Vertices : \A o \in PoolOptions(actions[v].type) :
              actions[v].options[o] \in DOMAIN pools \cup {Unset}
         /\ \A s \in Slots : gens[s] # NoGen =>
              gens[s].at \in Vertices /\ actions[gens[s].at].type \in Generating
<1>1. Stored \subseteq Vertices
  <2>1. Vertices = 1 .. Len(conf.words) /\ Len(conf.words) \in Nat
    BY VertexNumbers
  <2> QED
    BY <2>1 DEF Stored
<1>2. DOMAIN pools = UNION {DOMAIN NewPools(v) : v \in Stored}
  BY DEF PoolsInOrder
<1>3. \A v \in Stored : \A o \in PoolOptions(TypeOf(v)) :
        Options(v)[o] \in DOMAIN pools \cup {Unset} /\ o \in DOMAIN Options(v)
  <2> SUFFICES ASSUME NEW v \in Stored, NEW o \in PoolOptions(TypeOf(v))
               PROVE  Options(v)[o] \in DOMAIN pools \cup {Unset} /\ o \in DOMAIN Options(v)
    OBVIOUS
  <2>1. v \in Vertices
    BY <1>1
  <2>2. /\ Options(v)[o] = IF HasPool(v, o) THEN <<v, o>> ELSE Unset
        /\ HasPool(v, o) => <<v, o>> \in DOMAIN NewPools(v)
    BY <2>1, PoolIds
  <2>3. o \in DOMAIN Options(v)
    BY DEF Options
  <2> QED
    BY <1>2, <2>2, <2>3
<1>4. ASSUME NEW v \in Vertices, NEW o \in PoolOptions(actions[v].type)
      PROVE  actions[v].options[o] \in DOMAIN pools \cup {Unset}
  <2>1. v \in Stored
    <3>1. PoolOptions(NoAction.type) = {}
      BY DEF PoolOptions, NoAction
    <3>2. v \notin Stored => actions[v] = NoAction
      BY DEF OptionsInOrder
    <3> QED
      BY <3>1, <3>2
  <2>2. CASE actions[v] = Own(v)
    BY <1>3, <2>1, <2>2 DEF Own
  <2>3. CASE actions[v] = Visited(v) /\ TypeOf(v) \in Generating /\ hasStartAction
    <3>1. startAction \in Stored /\ TypeOf(startAction) = "start"
      BY <2>3 DEF LoadInOrder
    <3>2. o \in PoolOptions(TypeOf(v)) /\ o \in PoolOptions(TypeOf(startAction))
      <4>1. o \in PoolOptions(TypeOf(v))
        BY <2>3 DEF Visited
      <4> QED
        BY <2>3, <3>1, <4>1, GeneratingTypes
    <3>3. actions[v].options[o] =
            IF Options(v)[o] = Unset THEN Options(startAction)[o] ELSE Options(v)[o]
      <4>1. o \in DOMAIN Options(v)
        BY <1>3, <2>1, <3>2
      <4> QED
        BY <2>3, <4>1 DEF Visited, Defaulted
    <3> QED
      BY <1>3, <2>1, <3>1, <3>2, <3>3
  <2> QED
    BY <2>1, <2>2, <2>3 DEF OptionsInOrder
<1>5. ASSUME NEW s \in Slots, gens[s] # NoGen
      PROVE  gens[s].at \in Vertices /\ actions[gens[s].at].type \in Generating
  <2>1. /\ gens[s].at \in Stored /\ TypeOf(gens[s].at) \in Generating
        /\ actions[gens[s].at] = Visited(gens[s].at)
    BY <1>5 DEF OptionsInOrder
  <2> QED
    BY <1>1, <2>1 DEF Visited
<1> QED
  BY <1>4, <1>5

\* The types of what the parser keeps.
LoadTypes ==
  /\ conf \in Cases /\ files \subseteq conf.models /\ changed \in BOOLEAN
  /\ phase \in Phases
  /\ pos \in 1 .. Len(conf.words) + 1 /\ startAction \in Vertices
  /\ {hasStartAction, startHasPeers, transferMissingPeers} \subseteq BOOLEAN
  /\ validated \subseteq conf.models

\* The parser keeps them.
LEMMA ParseTypes ==
  ASSUME TypeOK, LoadInOrder, parseVertex
  PROVE  LoadTypes'
<1>1. LoadTypes /\ phase = "vertices" /\ pos \in Vertices /\ UNCHANGED <<conf, files, changed>>
  BY DEF parseVertex, TypeOK, LoadTypes
<1>2. Vertices' = Vertices /\ Vertices = 1 .. Len(conf.words) /\ Len(conf.words) \in Nat
  BY <1>1, ConfStays, VertexNumbers DEF LoadTypes
<1>3. CASE VertexOK(pos)
  <2>1. /\ phase' = phase /\ pos' = pos + 1 /\ validated' = validated \cup ModelPaths(pos)
        /\ startAction' \in {startAction, pos}
        /\ {hasStartAction', startHasPeers', transferMissingPeers'} \subseteq BOOLEAN
    BY <1>3 DEF parseVertex, MissingPeers
  <2>2. ModelPaths(pos) \subseteq conf.models
    BY <1>1, <1>3, VertexChecked DEF VertexValid
  <2>3. pos' \in 1 .. Len(conf.words) + 1
    BY <1>1, <1>2, <2>1
  <2> QED
    BY <1>1, <1>2, <2>1, <2>2, <2>3 DEF LoadTypes
<1>4. CASE ~VertexOK(pos)
  <2>1. phase' = "rejected" /\ UNCHANGED load
    BY <1>4 DEF parseVertex
  <2> QED
    BY <1>1, <1>2, <2>1 DEF LoadTypes, load, Phases
<1> QED
  BY <1>3, <1>4

\* So does every step, and the others keep the rest.
LEMMA EffectsOfSteps ==
  ASSUME TypeOK, LoadInOrder, OptionsInOrder, [Next]_vars
  PROVE  LoadTypes' /\ Effects /\ conf' = conf /\ (changed => changed')
<1>1. LoadTypes /\ startAction \in Vertices
  BY DEF TypeOK, LoadTypes
<1>2. CASE parseVertex
  <2>1. UNCHANGED <<conf, changed, fault, todo, clientHasEnded, last, peerless>>
    BY <1>2 DEF parseVertex, run
  <2> QED
    BY <1>2, <2>1, ParseTypes DEF Effects, MayAbort, TypeOK
<1>3. CASE parseGraphProperties \/ endVertices
  <2>1. /\ UNCHANGED <<conf, files, changed, load, fault, todo, clientHasEnded, last, peerless>>
        /\ phase' \in Phases
    BY <1>3 DEF parseGraphProperties, endVertices, run, Phases
  <2> QED
    BY <1>1, <2>1, ConfStays DEF LoadTypes, load, Effects, MayAbort, TypeOK
<1>4. CASE Walk
  <2>1. /\ UNCHANGED <<conf, load>> /\ phase' \in {"run", "ended", "freed", "aborted"}
        /\ UNCHANGED <<files, changed>> \/ (changed' = TRUE /\ files' \subseteq files)
    BY <1>4, WalkFrame
  <2>2. LoadTypes'
    BY <1>1, <2>1, ConfStays DEF LoadTypes, load, Phases
  <2> QED
    BY <1>4, <2>1, <2>2, WalkEffects
<1>5. CASE UNCHANGED vars
  <2>1. /\ UNCHANGED <<conf, files, changed, phase, fault, pos, startAction, hasStartAction,
                       startHasPeers, transferMissingPeers, validated, todo, clientHasEnded, last,
                       peerless>>
    BY <1>5 DEF vars
  <2> QED
    BY <1>1, <2>1, ConfStays DEF LoadTypes, Effects, MayAbort, TypeOK
<1> QED
  BY <1>2, <1>3, <1>4, <1>5 DEF Next, Walk

\* The whole invariant is inductive.
LEMMA GraphKept ==
  ASSUME GraphInv, [Next]_vars
  PROVE  GraphInv'
<1>1. /\ TypeOK /\ PoolsExact /\ LoadInOrder /\ OptionsInOrder /\ PoolsInOrder
      /\ PeersInOrder /\ GensInOrder
  BY DEF GraphInv
<1>2. LoadInOrder' /\ OptionsInOrder' /\ PoolsOK' /\ PeersInOrder'
  BY <1>1, LoadKept, OptionsKept, PoolsKept, PeersKept
<1>3. LoadTypes' /\ Effects /\ conf' = conf
  BY <1>1, EffectsOfSteps
<1>4. fault' \in {"none", "type", "queue", "model"}
  BY <1>1, <1>3 DEF Effects, MayAbort, TypeOK
<1>5. (/\ \A v \in Vertices : \A o \in PoolOptions(actions[v].type) :
            actions[v].options[o] \in DOMAIN pools \cup {Unset}
       /\ \A s \in Slots : gens[s] # NoGen =>
            gens[s].at \in Vertices /\ actions[gens[s].at].type \in Generating)'
  <2>1. (conf \in Cases /\ pos \in 1 .. Len(conf.words) + 1 /\ LoadInOrder /\ OptionsInOrder
           /\ PoolsInOrder
         => /\ \A v \in Vertices : \A o \in PoolOptions(actions[v].type) :
                 actions[v].options[o] \in DOMAIN pools \cup {Unset}
            /\ \A s \in Slots : gens[s] # NoGen =>
                 gens[s].at \in Vertices /\ actions[gens[s].at].type \in Generating)'
    BY NamesInOrder, PTL
  <2> QED
    BY <1>2, <1>3, <2>1 DEF LoadTypes, PoolsOK
<1>6. Vertices' = Vertices
  BY <1>3, ConfStays
<1>7. TypeOK'
  BY <1>2, <1>3, <1>4, <1>5, <1>6 DEF TypeOK, LoadTypes, Effects, PoolsOK
<1>8. GensInOrder'
  BY <1>1, <1>2, GensKept DEF PoolsOK
<1> QED
  BY <1>2, <1>7, <1>8 DEF GraphInv, PoolsOK

\* The initial states are in order.
LEMMA GraphStarts ==
  ASSUME Init
  PROVE  GraphInv /\ AcceptsExactly /\ SafeUse /\ OptionsHonoured
<1> USE DEF Init
<1>1. conf \in Cases /\ Vertices = 1 .. Len(conf.words) /\ Len(conf.words) \in Nat \ {0}
  BY VertexNumbers
<1>2. Stored = {}
  BY DEF Stored
<1>3. pools = <<>> /\ DOMAIN pools = {}
  OBVIOUS
<1>4. \A v \in Vertices : actions[v] = NoAction
  OBVIOUS
<1>5. TypeOK
  <2>1. PoolOptions(NoAction.type) = {}
    BY DEF PoolOptions, NoAction
  <2>2. \A s \in Slots : gens[s] = NoGen
    OBVIOUS
  <2>3. last.at = 0
    BY DEF NoStream
  <2>4. /\ files \subseteq conf.models /\ changed \in BOOLEAN
        /\ phase \in Phases /\ fault \in {"none", "type", "queue", "model"}
    BY DEF Phases
  <2>5. pos \in 1 .. Len(conf.words) + 1 /\ startAction \in Vertices
    BY <1>1
  <2>6. {hasStartAction, startHasPeers, transferMissingPeers, clientHasEnded} \subseteq BOOLEAN
    OBVIOUS
  <2>7. validated \subseteq conf.models /\ todo \subseteq Vertices /\ peerless \subseteq Generating
    OBVIOUS
  <2> HIDE DEF Init
  <2> QED
    BY <1>1, <1>3, <1>4, <2>1, <2>2, <2>3, <2>4, <2>5, <2>6, <2>7 DEF TypeOK
<1>6. PoolsExact
  BY <1>3 DEF PoolsExact
<1>7. LoadInOrder
  BY <1>2 DEF LoadInOrder, Loading, Loaded
<1>8. OptionsInOrder
  <2>1. NoGen.kind = "NONE"
    BY DEF NoGen
  <2> QED
    BY <1>2, <2>1 DEF OptionsInOrder, Generating
<1>9. PoolsInOrder
  BY <1>2, <1>3 DEF PoolsInOrder
<1>10. PeersInOrder /\ GensInOrder
  BY <1>3 DEF PeersInOrder, GensInOrder, Configured, NoGen
<1>11. AcceptsExactly /\ SafeUse /\ OptionsHonoured
  BY DEF AcceptsExactly, SafeUse, Loaded, OptionsHonoured
<1> QED
  BY <1>5, <1>6, <1>7, <1>8, <1>9, <1>10, <1>11 DEF GraphInv

\* What validation promised is kept by every step.
LEMMA SafeKept ==
  ASSUME GraphInv, SafeUse, [Next]_vars
  PROVE  SafeUse'
<1>1. TypeOK /\ LoadInOrder /\ OptionsInOrder
  BY DEF GraphInv
<1>2. Effects /\ conf' = conf /\ (changed => changed')
  BY <1>1, EffectsOfSteps
<1>3. fault' = "type" => \A v \in Vertices' : TypeOf(v)' # "start"
  <2>1. phase = "loaded" /\ ~hasStartAction => \A v \in Vertices : TypeOf(v) # "start"
    BY <1>1 DEF LoadInOrder, Loaded
  <2> QED
    BY <1>2, <2>1, ConfStays DEF SafeUse, Effects, MayAbort
<1>4. fault' = "queue" => \E v \in Vertices' : /\ chooseActions(v)' # {}
                                               /\ totalWeight(chooseActions(v))' <= 0
  <2>1. fault' = "queue" => \E v \in Vertices : /\ chooseActions(v) # {}
                                                /\ totalWeight(chooseActions(v)) <= 0
    BY <1>2 DEF SafeUse, Effects, MayAbort
  <2> QED
    BY <1>2, <2>1, ConfStays, ChoiceStays
<1>5. fault' = "model" => changed'
  BY <1>2 DEF SafeUse, Effects, MayAbort
<1>6. "stream" \notin peerless'
  BY <1>2 DEF SafeUse, Effects
<1> QED
  BY <1>3, <1>4, <1>5, <1>6 DEF SafeUse

\* An option that is set is never changed by a step.
LEMMA OptionsStay ==
  ASSUME GraphInv, [Next]_vars, NEW v \in Vertices, actions[v].type # "NONE",
         NEW o \in DOMAIN actions[v].options, actions[v].options[o] # Unset
  PROVE  actions'[v].options[o] = actions[v].options[o]
<1>1. TypeOK /\ LoadInOrder /\ OptionsInOrder /\ DOMAIN actions = Vertices
  BY DEF GraphInv, OptionsInOrder
<1>2. CASE UNCHANGED actions
  BY <1>2
<1>3. CASE parseVertex
  <2>1. CASE VertexOK(pos)
    <3>1. /\ pos \in Vertices /\ phase = "vertices"
          /\ actions' = [actions EXCEPT ![pos] = [type |-> TypeOf(pos), options |-> Options(pos)]]
      BY <1>3, <2>1 DEF parseVertex
    <3>2. pos \notin Stored
      <4>1. pos \in Nat
        BY <1>1, <3>1, VertexNumbers DEF TypeOK
      <4> QED
        BY <4>1 DEF Stored
    <3>3. actions[pos] = NoAction
      BY <1>1, <3>1, <3>2 DEF OptionsInOrder
    <3>4. v # pos
      BY <3>3 DEF NoAction
    <3> QED
      BY <1>1, <3>1, <3>4
  <2>2. CASE ~VertexOK(pos)
    BY <1>3, <2>2 DEF parseVertex
  <2> QED
    BY <2>1, <2>2
<1>4. ASSUME NEW w \in Vertices, NEW s \in Slots, initiate(w, s)
      PROVE  actions'[v].options[o] = actions[v].options[o]
  <2>1. phase = "run" /\ actions' = [actions EXCEPT ![w].options = CopyDefaults(w)]
    BY <1>4, InitiateDoes
  <2>2. CASE v = w
    <3>1. actions[v] = Own(v) \/ actions[v] = Visited(v)
      BY <1>1, <2>1, StartOptions DEF OptionsInOrder
    <3>2. actions[v] = [type |-> actions[v].type, options |-> actions[v].options]
      BY <3>1 DEF Own, Visited
    <3>3. actions'[v] = [actions[v] EXCEPT !.options = CopyDefaults(v)]
      BY <1>1, <2>1, <2>2
    <3>4. actions'[v].options = CopyDefaults(v)
      BY <3>2, <3>3
    <3> QED
      BY <3>4 DEF CopyDefaults
  <2>3. CASE v # w
    BY <1>1, <2>1, <2>3
  <2> QED
    BY <2>2, <2>3
<1>5. ASSUME ~parseVertex, ~\E w \in Vertices, s \in Slots : initiate(w, s)
      PROVE  UNCHANGED actions
  <2>1. CASE parseGraphProperties \/ endVertices \/ tgendriver_new \/ cleanup
    BY <2>1 DEF parseGraphProperties, endVertices, tgendriver_new, cleanup
  <2>2. ASSUME NEW w \in Vertices, ProcessStart(w) \/ ProcessPause(w) \/ checkEndConditions(w)
        PROVE  UNCHANGED actions
    BY <2>2 DEF ProcessStart, ProcessPause, checkEndConditions
  <2>3. ASSUME NEW g \in Slots, NEW s \in Slots, createStream(g) \/ onComplete(g) \/ createFlow(g, s)
        PROVE  UNCHANGED actions
    BY <2>3 DEF createStream, onComplete, createFlow
  <2>4. ASSUME NEW path \in files, Rewrite(path)
        PROVE  UNCHANGED actions
    BY <2>4 DEF Rewrite
  <2>5. CASE UNCHANGED vars
    BY <2>5 DEF vars
  <2> QED
    BY <1>5, <2>1, <2>2, <2>3, <2>4, <2>5 DEF Next
<1> QED
  BY <1>2, <1>3, <1>4, <1>5

\* The graph is in order while it is loaded, used and freed: options name pools that
\* exist, an action has its own options and after a visit those of the start action where
\* it has none, and every pool has as many references as options that hold it.
THEOREM GraphInOrder == Spec => []GraphInv
<1>1. Init => GraphInv
  BY GraphStarts
<1>2. GraphInv /\ [Next]_vars => GraphInv'
  BY GraphKept
<1> QED
  BY <1>1, <1>2, PTL DEF Spec

\* tgengraph_new accepts the valid configurations and rejects the others, in whatever
\* order their vertices are listed.
THEOREM OnlyValidAccepted == Spec => []AcceptsExactly
<1>1. Init => AcceptsExactly
  BY GraphStarts
<1>2. GraphInv /\ GraphInv' /\ AcceptsExactly /\ [Next]_vars => AcceptsExactly'
  BY AcceptanceKept DEF GraphInv
<1> QED
  BY <1>1, <1>2, GraphInOrder, PTL DEF Spec

\* What validation promised holds at use: no process is aborted for a model that is still
\* there, and no stream action is without peers.
THEOREM ValidationHolds == Spec => []SafeUse
<1>1. Init => SafeUse
  BY GraphStarts
<1>2. GraphInv /\ SafeUse /\ [Next]_vars => SafeUse'
  BY SafeKept
<1> QED
  BY <1>1, <1>2, GraphInOrder, PTL DEF Spec

\* Every stream has the peer, proxy, address, credentials, sizes, times and model that the
\* texts of its action and of the start action say, whatever was parsed, inherited, drawn
\* from pools and looked up on the way.
THEOREM StreamsHonourOptions == Spec => []OptionsHonoured
<1>1. Init => OptionsHonoured
  BY GraphStarts
<1>2. GraphInv /\ OptionsHonoured /\ [Next]_vars => OptionsHonoured'
  BY HonouredKept DEF GraphInv
<1> QED
  BY <1>1, <1>2, GraphInOrder, PTL DEF Spec

\* An option that is set, by the action itself or by an earlier visit, is never changed.
THEOREM OptionsNeverChange == Spec => OptionsStick
<1>1. GraphInv /\ [Next]_vars =>
        [\A v \in Vertices : actions[v].type # "NONE" =>
           \A o \in DOMAIN actions[v].options :
             actions[v].options[o] # Unset => actions'[v].options[o] = actions[v].options[o]]_vars
  BY OptionsStay
<1> QED
  BY <1>1, GraphInOrder, PTL DEF Spec, OptionsStick

\* An action with weighted edges goes to each neighbour for as many of the random numbers
\* as the weights of its edges say, for all graphs whose weights make sense.
THEOREM ChoicesAreFair == Spec => []ChoiceIsFair
<1>1. TypeOK => ChoiceIsFair
  <2> DEFINE Set(v, u) == {i \in Out(v) : conf.edges[i].to = u /\ conf.edges[i].weight # Unset}
  <2> SUFFICES ASSUME TypeOK, NEW v \in Vertices, Sane(v), totalWeight(chooseActions(v)) > 0,
                      NEW u \in Vertices
               PROVE  Cardinality({r \in Draws(totalWeight(chooseActions(v))) :
                                     Exceeding(v, r) # {} /\ nextChoice(v, r) = u}) =
                        MapThenSumSet(LAMBDA i : conf.edges[i].weight, Set(v, u))
    BY DEF ChoiceIsFair, Sane
  <2>1. textWeight(Set(v, u)) = MapThenSumSet(LAMBDA i : conf.edges[i].weight, Set(v, u))
    BY DEF textWeight
  <2> QED
    BY <2>1, FairChoice DEF TypeOK
<1> QED
  BY <1>1, GraphInOrder, PTL DEF GraphInv
=============================================================================
