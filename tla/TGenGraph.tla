------------------------------ MODULE TGenGraph ------------------------------
(***************************************************************************)
(* The configuration: how the action graph is loaded and validated         *)
(* (src/src/tgen-graph.c), how actions inherit the options of the start    *)
(* action, which action follows which, and what becomes of the options     *)
(* when the driver and its generators create streams from them             *)
(* (src/src/tgen-generator.c, the connecting half of                       *)
(* src/src/tgen-transport.c, src/src/tgen-peer.c, src/src/tgen-pool.c).    *)
(*                                                                         *)
(* The order in which the driver processes actions, joins pauses and       *)
(* reaches its end is in TGenDriver, the life of the generators in         *)
(* TGenGenerator; here the driver may be at several actions and take them  *)
(* in any order.                                                           *)
(***************************************************************************)
EXTENDS TGenOptionParser, SequencesExt

CONSTANTS
  Cases,      \* configurations
  MaxGens     \* generators at the same time

\* Attributes, by the actions that have them.
StreamAttrs == {"packetmodelpath", "packetmodelmode", "markovmodelseed", "peers", "socksproxy",
                "socksusername", "sockspassword", "socksauthseed", "sendsize", "recvsize",
                "timeout", "stallout"}
FlowAttrs == StreamAttrs \cup {"streammodelpath"}
TrafficAttrs == FlowAttrs \cup {"flowmodelpath"}

AttrsOf(type) ==
  CASE type = "start"   -> TrafficAttrs \cup {"serverport", "time", "heartbeat", "loglevel"}
    [] type = "pause"   -> {"time"}
    [] type = "end"     -> {"time", "count", "sendsize", "recvsize"}
    [] type = "stream"  -> StreamAttrs
    [] type = "flow"    -> FlowAttrs
    [] type = "traffic" -> TrafficAttrs

\* The order in which parseGraphVertices looks for these words in a vertex id.
Keywords == <<"start", "end", "pause", "stream", "flow", "traffic">>

Generating == {"stream", "flow", "traffic"}

VertexAttributes == UNION {AttrsOf(Keywords[i]) : i \in DOMAIN Keywords}

ModelAttrs == {"packetmodelpath", "streammodelpath", "flowmodelpath"}

PoolNames == {"time", "peers", "socksproxy", "seedGenerator", "socksAuthGenerator"}

ASSUME CasesAssumption ==
  /\ MaxGens \in Nat
  /\ \A c \in Cases :
       /\ Len(c.words) \in Nat \ {0} /\ DOMAIN c.words = 1 .. Len(c.words)
       /\ DOMAIN c.attrs = DOMAIN c.words
       /\ Unset \notin (DOMAIN c.words) \X PoolNames
       /\ Len(c.edges) \in Nat /\ DOMAIN c.edges = 1 .. Len(c.edges)
       /\ \A i \in DOMAIN c.edges : /\ {c.edges[i].from, c.edges[i].to} \subseteq DOMAIN c.words
                                    /\ c.edges[i].weight \in Int \cup {Unset}
       /\ c.env # Unset => c.env.host # Unset /\ c.env.port \in Nat \cup {Unset}
       /\ \A v \in DOMAIN c.words : \A a \in DOMAIN c.attrs[v] :
            LET t == c.attrs[v][a] IN
            t # Unset => /\ a \in {"peers", "socksproxy"} => IsPeerList(t)
                         /\ a \in {"sendsize", "recvsize", "timeout", "stallout"} => IsAmount(t)
                         /\ a = "socksauthseed" => t \in Nat

VARIABLES
  conf,       \* the file: words in the vertices' ids, attributes, edges; TGENSOCKS
  files,      \* paths at which there is a valid Markov model
  changed,    \* a file was changed since the graph was loaded
  phase,      \* see Phases
  fault,      \* why the process was aborted
  pos,        \* vertex that is parsed next
  actions,    \* the actions that are stored
  startAction, hasStartAction, startHasPeers, transferMissingPeers,
  validated,  \* validatedMarkovModelPaths
  pools,      \* pools of peers, times and random generators
  todo,       \* actions to which the driver continues
  clientHasEnded,
  gens,       \* generators
  last,       \* the stream that was created last
  peerless    \* types of actions that could not create a stream without peers

run == <<todo, clientHasEnded, gens, last, peerless>>
load == <<pos, startAction, hasStartAction, startHasPeers, transferMissingPeers, validated>>
vars == <<conf, files, changed, phase, fault, pos, actions, startAction, hasStartAction,
          startHasPeers, transferMissingPeers, validated, pools, todo, clientHasEnded, gens, last,
          peerless>>

Vertices == DOMAIN conf.words
Slots == 1 .. MaxGens

Loading == phase \in {"read", "vertices", "loaded"}
Loaded == {"loaded", "run", "ended", "freed", "aborted"}
Phases == {"read", "vertices", "rejected", "loaded", "run", "ended", "freed", "aborted"}

NoAction == [type |-> "NONE", options |-> <<>>]
NoGen == [kind |-> "NONE", at |-> 0, parent |-> 0, fresh |-> FALSE, proxy |-> 0, auth |-> Unset]
NoStream == [at |-> 0]

Init ==
  /\ conf \in Cases
  /\ files = conf.models
  /\ changed = FALSE
  /\ phase = "read" /\ fault = "none"
  /\ pos = 1
  /\ actions = [v \in Vertices |-> NoAction]
  /\ startAction = 1 /\ hasStartAction = FALSE
  /\ startHasPeers = FALSE /\ transferMissingPeers = FALSE
  /\ validated = {}
  /\ pools = <<>>
  /\ todo = {} /\ clientHasEnded = FALSE
  /\ gens = [s \in Slots |-> NoGen]
  /\ last = NoStream
  /\ peerless = {}

Abort(why) == phase' = "aborted" /\ fault' = why

\* The options that hold pools.
PoolOptions(type) ==
  IF type = "pause" THEN {"time"}
  ELSE IF type \in {"end", "NONE"} THEN {}
  ELSE {"peers", "socksproxy", "seedGenerator", "socksAuthGenerator"}

\* The options of v that hold the pool.
Holds(acts, v, id) ==
  {o \in PoolOptions(acts[v].type) : acts[v].options[o] = id}

\* freeActionHelper, for the action at v: it gives back the pools of its options.
freeActionHelper(v, ps) ==
  [id \in DOMAIN ps |-> [ps[id] EXCEPT !.refs = @ - Cardinality(Holds(actions, v, id))]]

\* _tgengraph_free: all actions are freed.
Release == pools' = FoldSet(freeActionHelper, pools, Vertices)
-----------------------------------------------------------------------------
(* Loading.                                                                *)

\* igraph_is_connected
Connected ==
  \A part \in SUBSET Vertices \ {{}, Vertices} :
    \E i \in DOMAIN conf.edges : (conf.edges[i].from \in part) # (conf.edges[i].to \in part)

KnownAttributes == UNION {DOMAIN conf.attrs[v] : v \in Vertices}

OnlyKnownAttributes ==
  /\ KnownAttributes \subseteq VertexAttributes
  /\ \A i \in DOMAIN conf.edges : DOMAIN conf.edges[i] \subseteq {"from", "to", "weight"}

\* loadNewGraph, parseGraphProperties and parseGraphEdges
parseGraphProperties ==
  /\ phase = "read"
  /\ phase' = IF conf.readable /\ Connected /\ OnlyKnownAttributes THEN "vertices"
              ELSE "rejected"
  /\ UNCHANGED <<conf, files, changed, fault, load, actions, pools, run>>

TypeOf(v) ==
  LET found == {i \in DOMAIN Keywords : Keywords[i] \in conf.words[v]}
  IN IF found = {} THEN "unknown" ELSE Keywords[Min(found)]

hasSelfLoop(v) == \E i \in DOMAIN conf.edges : conf.edges[i].from = v /\ conf.edges[i].to = v

ParseAttribute(type, a, t) ==
  CASE a \in ModelAttrs \cup {"socksusername", "sockspassword", "packetmodelmode"} -> parseString(t)
    [] a \in {"markovmodelseed", "socksauthseed"} -> parseUInt(t, Max32)
    [] a = "serverport" -> parseUInt(t, Max16)
    [] a = "count" -> parseUInt(t, Word - 1)
    [] a \in {"peers", "socksproxy"} -> parsePeerList(t)
    [] a \in {"sendsize", "recvsize"} -> parseBytes(t)
    [] a = "time" /\ type = "pause" -> parseTimeList(t)
    [] a \in {"time", "heartbeat", "timeout", "stallout"} -> parseTime(t)
    [] a = "loglevel" -> parseLogLevel(t)

Text(v, a) == IF a \in DOMAIN conf.attrs[v] THEN conf.attrs[v][a] ELSE Unset

Value(v, a) == ParseAttribute(TypeOf(v), a, Text(v, a)).value

\* The attribute from which a pool is made.
Origin(o) ==
  CASE o = "seedGenerator" -> "markovmodelseed"
    [] o = "socksAuthGenerator" -> "socksauthseed"
    [] OTHER -> o

\* parseTimeList returns a pool even if it finds nothing to put into it.
HasPool(v, o) ==
  /\ o \in PoolOptions(TypeOf(v))
  /\ Value(v, Origin(o)) # Unset \/ (o = "time" /\ o \in KnownAttributes)

\* A peer has an address at once if its name is one; AnyAddress is 0.0.0.0.
AnyAddress == "0.0.0.0"
NewPeer(t) == [host |-> t.host, named |-> t.named, ip |-> IF t.named THEN AnyAddress ELSE t.host]

Items(v, o) ==
  LET value == Value(v, Origin(o)) IN
  IF value = Unset THEN <<>>
  ELSE IF o \in {"peers", "socksproxy"} THEN [i \in DOMAIN value |-> NewPeer(value[i])]
  ELSE IF o = "time" THEN value
  ELSE <<value>>

\* The pools that are created for a vertex
NewPools(v) ==
  [id \in {<<v, o>> : o \in {o \in PoolOptions(TypeOf(v)) : HasPool(v, o)}} |->
     [items |-> Items(v, id[2]), refs |-> 1]]

\* The options of an action; pools are named by where they were created.
Options(v) ==
  LET type == TypeOf(v) IN
  [o \in AttrsOf(type) \cup PoolOptions(type) |->
     IF o \in PoolOptions(type) THEN IF HasPool(v, o) THEN <<v, o>> ELSE Unset
     ELSE Value(v, o)]

ModelPaths(v) == {Value(v, a) : a \in ModelAttrs \cap AttrsOf(TypeOf(v))} \ {Unset}

ModeOK(v) ==
  "packetmodelmode" \in AttrsOf(TypeOf(v)) =>
    Value(v, "packetmodelmode") \in {Unset, "path", "graphml"}

\* Mutant of validateMarkovModels: one model that was read is enough.
validateMarkovModels_any(v) == ModelPaths(v) \subseteq files \/ validated # {}

\* validateMarkovModel does not read a path again that it has read before.
validateMarkovModels(v) == ModelPaths(v) \ validated \subseteq files

\* The parse...AttributesHelper of the vertex's type returns no error.
AttributesOK(v) ==
  /\ \A a \in AttrsOf(TypeOf(v)) : ~ParseAttribute(TypeOf(v), a, Text(v, a)).error
  /\ ModeOK(v)
  /\ validateMarkovModels(v)

VertexOK(v) ==
  /\ TypeOf(v) # "unknown"
  /\ TypeOf(v) = "start" => ~hasStartAction /\ ~hasSelfLoop(v)
  /\ AttributesOK(v)

\* Mutant of MissingPeers: streams without peers are not noticed.
MissingPeers_never(v) == FALSE

MissingPeers(v) == TypeOf(v) = "stream" /\ Options(v)["peers"] = Unset

\* parseGraphVertices, for one vertex.  What was allocated for the options of a
\* vertex with an error is leaked; the process exits then.
parseVertex ==
  /\ phase = "vertices" /\ pos \in Vertices
  /\ IF VertexOK(pos)
     THEN /\ actions' = [actions EXCEPT ![pos] = [type |-> TypeOf(pos), options |-> Options(pos)]]
          /\ pools' = [id \in (DOMAIN pools) \cup DOMAIN NewPools(pos) |->
                         IF id \in DOMAIN pools THEN pools[id] ELSE NewPools(pos)[id]]
          /\ validated' = validated \cup ModelPaths(pos)
          /\ startAction' = IF TypeOf(pos) = "start" THEN pos ELSE startAction
          /\ hasStartAction' = (hasStartAction \/ TypeOf(pos) = "start")
          /\ startHasPeers' =
               (startHasPeers \/ (TypeOf(pos) = "start" /\ Options(pos)["peers"] # Unset))
          /\ transferMissingPeers' = (transferMissingPeers \/ MissingPeers(pos))
          /\ pos' = pos + 1
          /\ UNCHANGED phase
     ELSE phase' = "rejected" /\ Release /\ UNCHANGED <<actions, load>>
  /\ UNCHANGED <<conf, files, changed, fault, run>>

\* The rest of parseGraphVertices and tgengraph_new
endVertices ==
  /\ phase = "vertices" /\ pos \notin Vertices
  /\ IF ~startHasPeers /\ transferMissingPeers
     THEN phase' = "rejected" /\ Release
     ELSE phase' = "loaded" /\ UNCHANGED pools
  /\ UNCHANGED <<conf, files, changed, fault, load, actions, run>>
-----------------------------------------------------------------------------
(* The walk through the graph.                                             *)

Out(v) == {i \in DOMAIN conf.edges : conf.edges[i].from = v}

\* igraph_get_eid: of several edges between the same two actions, the first.
get_eid(i) ==
  Min({j \in DOMAIN conf.edges : /\ conf.edges[j].from = conf.edges[i].from
                                 /\ conf.edges[j].to = conf.edges[i].to})

getWeight(i) == conf.edges[get_eid(i)].weight

\* The edges of which one is chosen.
chooseActions(v) == {i \in Out(v) : getWeight(i) # Unset}

totalWeight(edges) == MapThenSumSet(getWeight, edges)

\* The queue of these edges up to i: igraph_neighbors orders them by neighbour.
Queue(v, i) ==
  {j \in chooseActions(v) : \/ conf.edges[j].to < conf.edges[i].to
                            \/ conf.edges[j].to = conf.edges[i].to /\ j <= i}

\* g_random_double_range(0, total): r stands for the numbers from r up to r + 1.
Draws(total) == IF total > 0 THEN 0 .. total - 1 ELSE total .. 0

\* Mutant of Exceeding: the comparison is strict.
Exceeding_strict(v, r) == {i \in chooseActions(v) : totalWeight(Queue(v, i)) >= r}

\* The edges at which the cumulative weight exceeds the random one; the loop ends at
\* the first of them.
Exceeding(v, r) == {i \in chooseActions(v) : totalWeight(Queue(v, i)) > r}

nextChoice(v, r) == Min({conf.edges[i].to : i \in Exceeding(v, r)})

Unweighted(v) == {conf.edges[i].to : i \in {i \in Out(v) : getWeight(i) = Unset}}

\* continueNextActions and getNextActionIDs; processAction takes v from todo.
continueNextActions(v) ==
  IF clientHasEnded THEN todo' = todo \ {v} /\ UNCHANGED <<phase, fault>>
  ELSE IF chooseActions(v) = {}
  THEN todo' = (todo \ {v}) \cup Unweighted(v) /\ UNCHANGED <<phase, fault>>
  ELSE \E r \in Draws(totalWeight(chooseActions(v))) :
         IF Exceeding(v, r) = {} THEN Abort("queue") /\ UNCHANGED todo
         ELSE /\ todo' = (todo \ {v}) \cup Unweighted(v) \cup {nextChoice(v, r)}
              /\ UNCHANGED <<phase, fault>>

\* tgengraph_getStartOptions: an action of another type is only logged, and its
\* options are then read as if they were those of a start action.
getStartOptions == hasStartAction

\* main and tgendriver_new
tgendriver_new ==
  /\ phase = "loaded"
  /\ IF ~getStartOptions
     THEN Abort("type") /\ UNCHANGED <<pools, todo, clientHasEnded>>
     ELSE \/ \* the heartbeat, the server or the start timer could not be set up
             phase' = "freed" /\ Release /\ UNCHANGED <<fault, todo, clientHasEnded>>
          \/ /\ phase' = "run"
             /\ clientHasEnded' = (conf.edges = <<>>)
             /\ todo' = IF conf.edges = <<>> THEN {} ELSE {startAction}
             /\ UNCHANGED <<fault, pools>>
  /\ UNCHANGED <<conf, files, changed, load, actions, gens, last, peerless>>

\* A single stream is created at once when its generator is started.
Idle == phase = "run" /\ \A s \in Slots : ~gens[s].fresh

\* processAction: start, pause and end.  Whether a pause joins, and when an end is
\* reached, is in TGenDriver.
ProcessStart(v) ==
  /\ Idle /\ v \in todo /\ actions[v].type = "start"
  /\ continueNextActions(v)
  /\ UNCHANGED <<conf, files, changed, load, actions, pools, clientHasEnded, gens, last, peerless>>

ProcessPause(v) ==
  /\ Idle /\ v \in todo /\ actions[v].type = "pause"
  /\ \/ continueNextActions(v)
     \/ todo' = todo \ {v} /\ UNCHANGED <<phase, fault>>
  /\ UNCHANGED <<conf, files, changed, load, actions, pools, clientHasEnded, gens, last, peerless>>

checkEndConditions(v) ==
  /\ Idle /\ v \in todo /\ actions[v].type = "end"
  /\ \/ continueNextActions(v) /\ UNCHANGED clientHasEnded
     \/ /\ \E a \in AttrsOf("end") : actions[v].options[a] # Unset
        /\ clientHasEnded' = TRUE
        /\ todo' = todo \ {v} /\ UNCHANGED <<phase, fault>>
  /\ UNCHANGED <<conf, files, changed, load, actions, pools, gens, last, peerless>>
-----------------------------------------------------------------------------
(* Generators and streams.                                                 *)

\* Mutant of CopyDefaults: the defaults replace what the action has set.
CopyDefaults_override(v) ==
  LET start == actions[startAction].options IN
  [o \in DOMAIN actions[v].options |->
     IF start[o] = Unset THEN actions[v].options[o] ELSE start[o]]

\* copyDefaultStreamOptions, copyDefaultFlowOptions, copyDefaultTrafficOptions: what
\* is not set in the action is copied from the start action, for good.
CopyDefaults(v) ==
  LET start == actions[startAction].options IN
  [o \in DOMAIN actions[v].options |->
     IF actions[v].options[o] = Unset THEN start[o] ELSE actions[v].options[o]]

\* Mutant of Copied: every pool of the action takes a reference, at every visit.
Copied_again(v) == {o \in PoolOptions(actions[v].type) : CopyDefaults(v)[o] # Unset}

\* The options whose pool is shared from now on.
Copied(v) ==
  {o \in PoolOptions(actions[v].type) : actions[v].options[o] = Unset /\ CopyDefaults(v)[o] # Unset}

ModelOption(kind) == IF kind = "traffic" THEN "flowmodelpath" ELSE "streammodelpath"

\* createMarkovModel: without a path the internal model is used.
HasModel(path) == path = Unset \/ path \in files

\* tgenpool_getRandom; 0 if the pool is not set.
getRandom(id) == IF id = Unset THEN {0} ELSE DOMAIN pools[id].items

\* Mutant of initSocksAuthStrings: a seed does not hide the user name.
initSocksAuthStrings_named(opts) ==
  IF opts["socksusername"] = Unset /\ opts["socksAuthGenerator"] # Unset THEN "random"
  ELSE <<opts["socksusername"], opts["sockspassword"]>>

\* The credentials of a generator of streams.
initSocksAuthStrings(opts) ==
  IF opts["socksAuthGenerator"] # Unset THEN "random"
  ELSE <<opts["socksusername"], opts["sockspassword"]>>

FreeSlot == Min({s \in Slots : gens[s] = NoGen} \cup {MaxGens + 1})

\* tgengenerator_new and the beginning of tgengenerator_start: a generator of flows
\* that has no model fails an assertion, a generator of streams without a model
\* creates a single stream.
NewGenerator(s, kind, at, parent, opts) ==
  /\ s = FreeSlot
  /\ IF kind = "traffic"
     THEN /\ gens' = [gens EXCEPT ![s] = [NoGen EXCEPT !.kind = kind, !.at = at]]
          /\ IF HasModel(opts[ModelOption(kind)]) THEN UNCHANGED <<phase, fault>>
             ELSE Abort("model")
     ELSE LET single == kind = "stream" \/ ~HasModel(opts[ModelOption(kind)]) IN
          /\ \E p \in getRandom(opts["socksproxy"]) :
               gens' = [gens EXCEPT ![s] =
                 [kind |-> IF single THEN "stream" ELSE "flow", at |-> at, parent |-> parent,
                  fresh |-> single, proxy |-> p, auth |-> initSocksAuthStrings(opts)]]
          /\ UNCHANGED <<phase, fault>>

\* initiateStream, initiateFlow and initiateTraffic, up to the first stream or flow
initiate(v, s) ==
  /\ Idle /\ v \in todo /\ actions[v].type \in Generating
  /\ actions' = [actions EXCEPT ![v].options = CopyDefaults(v)]
  /\ pools' = FoldSet(LAMBDA o, ps : [ps EXCEPT ![CopyDefaults(v)[o]].refs = @ + 1],
                      pools, Copied(v))
  /\ NewGenerator(s, actions[v].type, v, 0, CopyDefaults(v))
  /\ todo' = todo \ {v}
  /\ UNCHANGED <<conf, files, changed, load, clientHasEnded, last, peerless>>

\* A model says that it is time for another flow.
createFlow(g, s) ==
  /\ Idle /\ gens[g].kind = "traffic"
  /\ NewGenerator(s, "flow", gens[g].at, g, actions[gens[g].at].options)
  /\ UNCHANGED <<conf, files, changed, load, actions, pools, todo, clientHasEnded, last, peerless>>

\* getProxyFromEnvHelper: a value that is not a peer is ignored.
getProxyFromEnv ==
  LET proxy == parsePeer(conf.env) IN IF proxy.error THEN Unset ELSE proxy.value

\* tgenpeer_performLookups: a name may not be found, and is looked up again then.
Addresses(peer) == IF peer.ip = AnyAddress /\ peer.named THEN {AnyAddress, peer.host} ELSE {peer.ip}

\* What a lookup finds is kept in the pool.
performLookups(id, k, ip) == [pools EXCEPT ![id].items[k].ip = ip]

\* The stream that createStream makes for g of the i-th peer.
NewStream(g, i, via, ip) ==
  LET opts == actions[gens[g].at].options IN
  [at |-> gens[g].at, dest |-> pools[opts["peers"]].items[i].host, via |-> via, ip |-> ip,
   auth |-> IF via = Unset THEN Unset ELSE gens[g].auth,
   sendsize |-> opts["sendsize"], recvsize |-> opts["recvsize"],
   timeout |-> opts["timeout"], stallout |-> opts["stallout"],
   model |-> opts["packetmodelpath"]]

\* newActive: the peer, the proxy, and whose address is looked up.
newActive(g) ==
  LET opts == actions[gens[g].at].options IN
  \E i \in getRandom(opts["peers"]) :
    IF getProxyFromEnv # Unset
    THEN \E ip \in Addresses(NewPeer(getProxyFromEnv)) :
           /\ last' = NewStream(g, i, getProxyFromEnv.host, ip)
           /\ UNCHANGED pools
    ELSE LET id == IF gens[g].proxy # 0 THEN opts["socksproxy"] ELSE opts["peers"]
             k  == IF gens[g].proxy # 0 THEN gens[g].proxy ELSE i
             via == IF gens[g].proxy # 0 THEN pools[id].items[k].host ELSE Unset
         IN \E ip \in Addresses(pools[id].items[k]) :
              /\ pools' = performLookups(id, k, ip)
              /\ last' = NewStream(g, i, via, ip)

\* createStream.  A model that is gone is noticed when the reference to it is to be
\* given back, after the transport was created.
createStream(g) ==
  /\ phase = "run"
  /\ gens[g].fresh \/ (gens[g].kind = "flow" /\ Idle)
  /\ gens' = [gens EXCEPT ![g].fresh = FALSE]
  /\ LET opts == actions[gens[g].at].options IN
     IF opts["peers"] = Unset
     THEN /\ peerless' = peerless \cup {actions[gens[g].at].type}
          /\ UNCHANGED <<phase, fault, pools, last>>
     ELSE /\ \/ \* the socket could not be created, bound or connected
                UNCHANGED <<phase, fault, pools, last>>
             \/ /\ newActive(g)
                /\ IF HasModel(opts["packetmodelpath"]) THEN UNCHANGED <<phase, fault>>
                   ELSE Abort("model")
          /\ UNCHANGED peerless
  /\ UNCHANGED <<conf, files, changed, load, actions, todo, clientHasEnded>>

\* onCompleteHelper: only the generators of an action let the driver continue.
onComplete(g) ==
  /\ Idle /\ gens[g] # NoGen
  /\ \A s \in Slots : gens[s].parent # g
  /\ gens' = [gens EXCEPT ![g] = NoGen]
  /\ IF gens[g].parent = 0 THEN continueNextActions(gens[g].at)
     ELSE UNCHANGED <<phase, fault, todo>>
  /\ UNCHANGED <<conf, files, changed, load, actions, pools, clientHasEnded, last, peerless>>

\* Environment: a file that held a model is replaced while the program runs.
Rewrite(path) ==
  /\ phase = "run" /\ path \in files
  /\ files' = files \ {path} /\ changed' = TRUE
  /\ UNCHANGED <<conf, phase, fault, load, actions, pools, run>>

\* The end of main; the driver is freed unless a generator still has a reference.
cleanup ==
  /\ Idle /\ clientHasEnded
  /\ conf.edges = <<>> => actions[startAction].options["serverport"] = Unset
  /\ \/ phase' = "freed" /\ Release
     \/ phase' = "ended" /\ UNCHANGED pools /\ \E s \in Slots : gens[s] # NoGen
  /\ UNCHANGED <<conf, files, changed, fault, load, actions, run>>

Next ==
  \/ parseGraphProperties \/ parseVertex \/ endVertices \/ tgendriver_new \/ cleanup
  \/ \E v \in Vertices : \/ ProcessStart(v) \/ ProcessPause(v) \/ checkEndConditions(v)
                         \/ \E s \in Slots : initiate(v, s)
  \/ \E g \in Slots : \/ createStream(g) \/ onComplete(g)
                      \/ \E s \in Slots : createFlow(g, s)
  \/ \E path \in files : Rewrite(path)

Spec == Init /\ [][Next]_vars
-----------------------------------------------------------------------------
(* Properties.                                                             *)

\* The variables stay in their domains: pools are only named where they exist, and
\* generators only belong to actions that generate.
TypeOK ==
  /\ conf \in Cases /\ files \subseteq conf.models /\ changed \in BOOLEAN
  /\ phase \in Phases /\ fault \in {"none", "type", "queue", "model"}
  /\ pos \in 1 .. Len(conf.words) + 1 /\ startAction \in Vertices
  /\ {hasStartAction, startHasPeers, transferMissingPeers, clientHasEnded} \subseteq BOOLEAN
  /\ validated \subseteq conf.models
  /\ \A v \in Vertices : \A o \in PoolOptions(actions[v].type) :
       actions[v].options[o] \in DOMAIN pools \cup {Unset}
  /\ \A id \in DOMAIN pools : pools[id].refs \in Nat
  /\ todo \subseteq Vertices
  /\ \A s \in Slots : gens[s] # NoGen =>
       gens[s].at \in Vertices /\ actions[gens[s].at].type \in Generating
  /\ last.at \in Vertices \cup {0}
  /\ peerless \subseteq Generating

\* A vertex for which nothing is wrong by itself.
VertexValid(v) ==
  /\ TypeOf(v) # "unknown"
  /\ \A a \in AttrsOf(TypeOf(v)) : ~ParseAttribute(TypeOf(v), a, Text(v, a)).error
  /\ ModeOK(v) /\ ModelPaths(v) \subseteq conf.models

\* What the documentation asks of a configuration.
Valid ==
  /\ conf.readable /\ Connected /\ OnlyKnownAttributes
  /\ \A v \in Vertices : VertexValid(v)
  /\ \A v, w \in Vertices : TypeOf(v) = "start" /\ TypeOf(w) = "start" => v = w /\ ~hasSelfLoop(v)
  /\ \A v \in Vertices : TypeOf(v) = "stream" =>
       \E w \in Vertices : (TypeOf(w) = "start" \/ w = v) /\ HasPool(w, "peers")

\* tgengraph_new accepts a configuration exactly if it is valid as a whole, in
\* whatever order its vertices are listed and however often a model is used.
AcceptsExactly ==
  /\ phase = "rejected" => ~Valid
  /\ phase \in Loaded => Valid

\* What was checked when the graph was loaded still holds when it is used: the
\* process is aborted only if there is no start action, if the weights of an
\* action's edges cannot be drawn from, or if a model was replaced in the meantime;
\* and a stream action always has peers, its own or those of the start action.
SafeUse ==
  /\ fault = "type" => \A v \in Vertices : TypeOf(v) # "start"
  /\ fault = "queue" => \E v \in Vertices : /\ chooseActions(v) # {}
                                            /\ totalWeight(chooseActions(v)) <= 0
  /\ fault = "model" => changed
  /\ "stream" \notin peerless

\* All the options that hold the pool, by vertex and name.
Holders(id) == {h \in Vertices \X PoolNames : h[2] \in Holds(actions, h[1], id)}

\* A pool has as many references as there are options that hold it, and none when
\* the graph was freed; options inherited from the start action share its pools, and
\* an action that is visited again takes no second reference.
PoolsExact ==
  \A id \in DOMAIN pools :
    pools[id].refs =
      IF phase \in {"freed", "rejected"} THEN 0
      ELSE Cardinality(Holders(id))

\* The vertices that are parsed.
Stored == 1 .. pos - 1

\* What the flags of the parser say of the vertices parsed so far, and what is known of
\* the configuration when loading ended one way or the other.
LoadInOrder ==
  /\ phase = "read" => pos = 1
  /\ phase \notin {"read", "rejected"} => conf.readable /\ Connected /\ OnlyKnownAttributes
  /\ \A v \in Stored : VertexValid(v)
  /\ \A v, w \in Stored : TypeOf(v) = "start" /\ TypeOf(w) = "start" => v = w /\ ~hasSelfLoop(v)
  /\ (hasStartAction <=> \E v \in Stored : TypeOf(v) = "start")
  /\ hasStartAction => startAction \in Stored /\ TypeOf(startAction) = "start"
  /\ (startHasPeers <=> \E v \in Stored : TypeOf(v) = "start" /\ HasPool(v, "peers"))
  /\ (transferMissingPeers <=> \E v \in Stored : TypeOf(v) = "stream" /\ ~HasPool(v, "peers"))
  /\ Loading \/ phase = "rejected" => ~changed
  /\ ~changed => files = conf.models
  /\ phase \in Loaded => Stored = Vertices /\ (startHasPeers \/ ~transferMissingPeers)

\* The options of an action that was visited.
Defaulted(v) ==
  [o \in DOMAIN Options(v) |->
     IF Options(v)[o] = Unset THEN Options(startAction)[o] ELSE Options(v)[o]]

Own(v) == [type |-> TypeOf(v), options |-> Options(v)]
Visited(v) == [type |-> TypeOf(v), options |-> Defaulted(v)]

\* An action has its own options until it is visited; one with generators was visited.
OptionsInOrder ==
  /\ DOMAIN actions = Vertices /\ DOMAIN gens = Slots
  /\ \A v \in Vertices \ Stored : actions[v] = NoAction
  /\ \A v \in Stored :
       \/ actions[v] = Own(v)
       \/ actions[v] = Visited(v) /\ TypeOf(v) \in Generating /\ hasStartAction /\ ~Loading
  /\ \A s \in Slots :
       /\ gens[s].kind \in Generating \cup {"NONE"} /\ DOMAIN gens[s] = DOMAIN NoGen
       /\ gens[s].kind = "NONE" => gens[s] = NoGen
       /\ gens[s].kind # "NONE" =>
            /\ gens[s].at \in Stored /\ TypeOf(gens[s].at) \in Generating
            /\ hasStartAction /\ ~Loading /\ actions[gens[s].at] = Visited(gens[s].at)
       /\ gens[s].kind = "traffic" => TypeOf(gens[s].at) = "traffic"
  /\ phase = "run" => hasStartAction

\* There is a pool for every option of a vertex that asks for one.
PoolsInOrder ==
  pools = [id \in UNION {DOMAIN NewPools(v) : v \in Stored} |->
             [items |-> pools[id].items, refs |-> pools[id].refs]]

\* The peers are those that are given, each with its address or without.
AsGiven(items, given) ==
  /\ DOMAIN items = DOMAIN given
  /\ \A k \in DOMAIN given : \E ip \in {given[k].host, AnyAddress} :
       items[k] = [given[k] EXCEPT !.ip = ip]

\* A pool of peers has those that its option lists; all that changes is an address.
PeersInOrder ==
  \A id \in DOMAIN pools : id[2] \in {"peers", "socksproxy"} =>
    AsGiven(pools[id].items, Items(id[1], id[2]))

\* A generator of streams has a proxy and credentials as the options of its action say.
Configured(gen) ==
  /\ gen.fresh => gen.kind = "stream"
  /\ gen.kind \in {"stream", "flow"} =>
       /\ gen.proxy \in getRandom(Defaulted(gen.at)["socksproxy"])
       /\ gen.auth = initSocksAuthStrings(Defaulted(gen.at))

GensInOrder == (Loading => last = NoStream) /\ \A s \in Slots : Configured(gens[s])

\* The graph is in order while it is loaded, used and freed: options name pools that
\* exist, pools are counted exactly and keep their peers, and generators belong to
\* actions that generate and are made of their options.
GraphInv ==
  /\ TypeOK /\ LoadInOrder /\ OptionsInOrder
  /\ PoolsInOrder /\ PoolsExact /\ PeersInOrder
  /\ GensInOrder

\* What the configuration says of an option of the action: its own text, or else
\* that of the start action.
Setting(v, a) ==
  LET Given(w) == Text(w, a) # Unset /\ (a \in {"peers", "socksproxy"} => Range(Text(w, a)) # {Unset})
  IN IF Given(v) THEN Text(v, a)
     ELSE IF Given(startAction) THEN Text(startAction, a)
     ELSE Unset

Hosts(list) == {t.host : t \in Range(list) \ {Unset}}

Amount(t, units, default) ==
  IF t = Unset THEN Unset ELSE t.num * units[IF t.suffix = Unset THEN default ELSE t.suffix]

\* The proxies of which one is used.
Proxies(v) ==
  IF conf.env # Unset /\ conf.env.port # Unset /\ conf.env.port <= Max16 THEN <<conf.env>>
  ELSE IF Setting(v, "socksproxy") = Unset THEN <<>>
  ELSE Setting(v, "socksproxy")

\* Every stream is made as the configuration says, through parsing, inheritance,
\* the generators and newActive: its peer, its proxy, whom it connects to, its
\* credentials, sizes, model and timeouts.  Times that overflow are left out, and
\* a name that is not found leaves 0.0.0.0 as the address.
OptionsHonoured ==
  last # NoStream =>
    LET v == last.at
        direct == Hosts(Proxies(v)) = {}
        connectee == IF direct THEN last.dest ELSE last.via
    IN /\ last.dest \in Hosts(Setting(v, "peers"))
       /\ IF direct THEN last.via = Unset ELSE last.via \in Hosts(Proxies(v))
       /\ last.ip \in {connectee, AnyAddress}
       /\ last.auth = IF direct THEN Unset
                      ELSE IF Setting(v, "socksauthseed") # Unset THEN "random"
                      ELSE <<Setting(v, "socksusername"), Setting(v, "sockspassword")>>
       /\ \A a \in {"sendsize", "recvsize"} : last[a] = Amount(Setting(v, a), ByteUnit, "b")
       /\ \A a \in {"timeout", "stallout"} :
            LET amount == Amount(Setting(v, a), TimeUnit, "s")
            IN last[a] = amount \/ (amount # Unset /\ amount >= Word)
       /\ last.model = Setting(v, "packetmodelpath")

\* An action with weighted edges goes to each neighbour as often as its weight says,
\* if no weight is negative and edges between the same two actions agree.
ChoiceIsFair ==
  phase = "loaded" => \A v \in Vertices :
    LET total == totalWeight(chooseActions(v))
        Sane == \A i \in Out(v) : /\ conf.edges[i].weight = Unset \/ conf.edges[i].weight >= 0
                                  /\ conf.edges[i].weight = getWeight(i)
        Chooses(r, u) == Exceeding(v, r) # {} /\ nextChoice(v, r) = u
    IN Sane /\ total > 0 =>
         \A u \in Vertices :
           Cardinality({r \in Draws(total) : Chooses(r, u)}) =
             MapThenSumSet(LAMBDA i : conf.edges[i].weight,
                           {i \in Out(v) : conf.edges[i].to = u /\ conf.edges[i].weight # Unset})

\* Generators hold on to the options of their action, and a visit of the action
\* while they run copies the defaults again: it never changes an option that is set.
OptionsStick ==
  [][\A v \in Vertices : actions[v].type # "NONE" =>
       \A o \in DOMAIN actions[v].options :
         actions[v].options[o] # Unset => actions'[v].options[o] = actions[v].options[o]]_vars
==============================================================================
