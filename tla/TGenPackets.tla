----------------------------- MODULE TGenPackets -----------------------------
(***************************************************************************)
(* The payload of one stream in bytes: the two ends of the stream walk the *)
(* same Markov model with the same seed, each sends the packets that are   *)
(* its own and counts the others as bytes to expect.  Models the loading   *)
(* of the model by the client and the server, _tgenstream_writePayload one *)
(* round of its loop at a time, and the conditions under which a stream    *)
(* has sent and received all (src/src/tgen-stream.c).  TGenStream has the  *)
(* protocol around the payload and the failures of the connection.         *)
(*                                                                         *)
(* Equal seeds mean that the n-th observation of both ends is the same as  *)
(* long as neither resets its walk.  tape is that common beginning: the    *)
(* end that is ahead extends it, the end that is behind follows it.        *)
(***************************************************************************)
EXTENDS TGenMarkovModel

CONSTANTS
  Unset,        \* an option that is not set
  Cases,        \* what the model's path holds, the sizes that the client's
                \* action sets and those that the server's start action sets
  PacketSize,   \* TGEN_MMODEL_PACKET_DATA_SIZE
  WriteMax,     \* DEFAULT_STREAM_WRITE_BUFLEN
  MaxExpected   \* the most bytes that a walk of a stream without sizes announces to
                \* either end; other counters of expected bytes stop here

Ends == {"client", "server"}

Peer(e) == IF e = "client" THEN "server" ELSE "client"

Own(e) == IF e = "client" THEN "TO_SERVER" ELSE "TO_ORIGIN"

MicrosAtOnce == 1

ASSUME PacketsAssumption ==
  /\ Unset \notin Nat
  /\ \A c \in Cases : /\ c.file.readable \in BOOLEAN /\ IsGraph(c.file.graph)
                      /\ \A o \in {c.client, c.server} :
                           o.sendsize \in Nat \cup {Unset} /\ o.recvsize \in Nat \cup {Unset}
  /\ PacketSize \in Nat \ {0} /\ WriteMax \in Nat \ {0} /\ MaxExpected \in Nat

VARIABLES
  file,     \* what is found at the model's path
  stage,    \* "load", "rejected", "differ", "run" or "aborted"
  want,     \* send.requestedBytes and send.requestedZero of each end
  awaits,   \* recv.requestedBytes and recv.requestedZero of each end
  walk,     \* the position of each end in the model and on the tape
  loop,     \* the local variables of writePayload, while it runs
  tape,     \* the observations of the walk that is not started again
  sent,     \* send.payloadBytes
  got,      \* recv.payloadBytes
  expected, \* recv.expectedBytes
  waiting,  \* send.deferBarrierMicros is set
  payload,  \* whether writePayload has returned TRUE
  promise,  \* what the loaded model promises (see Promises)
  closed    \* whether the end told its driver about success and closed

vars == <<file, stage, want, awaits, walk, loop, tape, sent, got, expected, waiting, payload,
          closed, promise>>

graph == file.graph

NoLoop == [on |-> FALSE, limit |-> 0, size |-> 0, delay |-> 0]

\* The sizes with which tgenstream_new creates a stream from options o.
NewSizes(o) ==
  LET bytes(n) == IF n = Unset THEN 0 ELSE n
  IN [send |-> [bytes |-> bytes(o.sendsize), zero |-> o.sendsize = 0 /\ o.recvsize # Unset],
      recv |-> [bytes |-> bytes(o.recvsize), zero |-> o.recvsize = 0]]

\* Mutant of ReadSize: a size of zero is read as the number that it looks like.
ReadSize_number(own, size) == [bytes |-> size.bytes, zero |-> own.zero]

\* What readHeader makes of a size that writeCommand has written, "~" for zero,
\* if the stream was created with the size own.
ReadSize(own, size) ==
  IF size.zero THEN [bytes |-> 0, zero |-> TRUE] ELSE [bytes |-> size.bytes, zero |-> own.zero]

\* The sizes of the client, and those of the server once it has read the header.
\* The server creates the stream with the options of its own start action.
InitSizes(c) ==
  LET client == NewSizes(c.client)
      own == NewSizes(c.server)
  IN /\ want = [e \in Ends |-> IF e = "client" THEN client.send
                                ELSE ReadSize(own.send, client.recv)]
     /\ awaits = [e \in Ends |-> IF e = "client" THEN client.recv
                                  ELSE ReadSize(own.recv, client.send)]

IsSized(size) == size.bytes > 0 \/ size.zero

\* Both ends mean the same number of bytes.
Agree ==
  \A e \in Ends : /\ want[e].bytes = awaits[Peer(e)].bytes
                  /\ IsSized(want[e]) = IsSized(awaits[Peer(e)])

Init ==
  /\ \E c \in Cases : file = c.file /\ InitSizes(c)
  /\ stage = "load"
  /\ walk = [e \in Ends |-> [state |-> 0, ended |-> FALSE, first |-> TRUE, pos |-> 0]]
  /\ loop = [e \in Ends |-> NoLoop]
  /\ tape = <<>>
  /\ sent = [e \in Ends |-> 0]
  /\ got = [e \in Ends |-> 0]
  /\ expected = [e \in Ends |-> 0]
  /\ waiting = [e \in Ends |-> FALSE]
  /\ payload = [e \in Ends |-> FALSE]
  /\ closed = [e \in Ends |-> FALSE]
  /\ promise = {}
-----------------------------------------------------------------------------
(* What a model promises, for the properties below.                        *)

NextDraws(g, v) == getNextObservation(g, [state |-> v, ended |-> FALSE])

\* No set of states keeps a walk, started again at each END, for ever away from
\* packets in direction dir.
Emitting(g, dir) ==
  LET silent == {v \in DOMAIN g.vertices : /\ ~vertexIDIsEmission(g.vertices[v].name)
                                           /\ \A o \in NextDraws(g, v) : o.obs # dir}
      follow(o) == IF o.obs = "END" THEN startVertexIndex(g) ELSE o.walk.state
      stay == [v \in silent |-> {follow(o) : o \in NextDraws(g, v)}]
  IN \A trap \in SUBSET silent \ {{}} : \E v \in trap : stay[v] \cap trap = {}

\* No set of states keeps a walk from its start for ever away from its end.
Ending(g) ==
  LET stay == [v \in DOMAIN g.vertices |->
                 {o.walk.state : o \in {o \in NextDraws(g, v) : ~o.walk.ended}}]
  IN \A trap \in SUBSET DOMAIN g.vertices :
       startVertexIndex(g) \in trap => \E v \in trap : stay[v] \cap trap = {}

Aborting(g) == \E v \in DOMAIN g.vertices : \E o \in NextDraws(g, v) : o.obs = "ABORT"

Promises(g) ==
  {p \in {"productive", "ending"} :
     /\ ~Aborting(g)
     /\ IF p = "ending" THEN Ending(g) ELSE \A e \in Ends : Emitting(g, Own(e))}
-----------------------------------------------------------------------------
\* The client loads the model, and the server one with the same graph, from the
\* path or from the string in the command.  What two ends do that differ on the
\* sizes is left out.
Load ==
  /\ stage = "load"
  /\ IF newFrom(file)
     THEN /\ stage' = IF Agree THEN "run" ELSE "differ"
          /\ promise' = Promises(graph)
          /\ walk' = [e \in Ends |-> [walk[e] EXCEPT !.state = startVertexIndex(graph)]]
     ELSE stage' = "rejected" /\ UNCHANGED <<walk, promise>>
  /\ UNCHANGED <<file, want, awaits, loop, tape, sent, got, expected, waiting, payload, closed>>
-----------------------------------------------------------------------------
(* Sending: _tgenstream_writePayload.                                      *)

Sized(e) == IsSized(want[e])

Bounded == \A e \in Ends : Sized(e)
Unsized == \A e \in Ends : ~Sized(e)

Sending(e) == stage = "run" /\ ~closed[e] /\ ~payload[e]

doneSending(e) ==
  IF want[e].bytes > 0 THEN sent[e] >= want[e].bytes
  ELSE want[e].zero \/ walk[e].ended

BeginPayload(e) ==
  /\ Sending(e) /\ ~loop[e].on /\ ~waiting[e]
  /\ IF doneSending(e)
     THEN payload' = [payload EXCEPT ![e] = TRUE] /\ UNCHANGED loop
     ELSE /\ loop' = [loop EXCEPT ![e] =
               [NoLoop EXCEPT !.on = TRUE,
                              !.limit = IF want[e].bytes > 0
                                        THEN Min({want[e].bytes - sent[e], WriteMax})
                                        ELSE WriteMax]]
          /\ UNCHANGED payload
  /\ UNCHANGED <<file, stage, want, awaits, walk, tape, sent, got, expected, waiting, closed,
                 promise>>

Here(e) == [state |-> walk[e].state, ended |-> walk[e].ended]

\* No edge can be chosen: each call returns END and leaves the walk where it is.
Rests(e) == getNextObservation(graph, Here(e)) = {Premature(Here(e))}

\* The next observation is one of the tape.  Comparing the walks makes a difference
\* only if a size is not set and there is something to draw.
Compared(e) == walk[e].first /\ ~Bounded /\ ~Rests(e)

Behind(e) == Compared(e) /\ walk[e].pos < Len(tape)

Draws(e) ==
  IF Behind(e) THEN {tape[walk[e].pos + 1]}
  ELSE getNextObservation(graph, Here(e))

\* Mutant of NewBufLen: the buffer is cut at its limit even if no size is set.
NewBufLen_cut(e, size) == Min({loop[e].limit, size})

NewBufLen(e, size) == IF want[e].bytes > 0 THEN Min({loop[e].limit, size}) ELSE size

\* interPacketDelay: the delays of the other end's packets add up.
NextDelay(e, o) ==
  IF o.obs = "END" THEN loop[e].delay
  ELSE IF o.obs = Own(e) THEN o.delay
  ELSE loop[e].delay + o.delay

\* Mutant of Repeats: the walk is not started again at the end of the model.
Repeats_never(e) == FALSE

Repeats(e) == want[e].bytes > 0

\* The walk after observation o: started again at its end if there is a size.
Advance(e, o) ==
  LET w == IF o.obs = "END" /\ Repeats(e) THEN ResetWalk(graph, o.walk) ELSE o.walk
  IN [state |-> w.state, ended |-> w.ended,
      first |-> walk[e].first /\ ~(o.obs = "END" /\ Repeats(e)),
      pos |-> IF Compared(e) THEN walk[e].pos + 1 ELSE walk[e].pos]

\* The walk stays within the bytes that are looked at.
Room(e, o) == Unsized /\ o.obs = Own(Peer(e)) => expected[e] + PacketSize <= MaxExpected

\* One round of the loop, and with its last round the buffer that is written.
\* The socket accepts all of the buffer here.
Round(e, o) ==
  LET size == loop[e].size + (IF o.obs = Own(e) THEN PacketSize ELSE 0)
      delay == NextDelay(e, o)
      stop == o.obs = "END" /\ want[e].bytes = 0
      pause == ~stop /\ delay > MicrosAtOnce
      over == stop \/ pause \/ size >= loop[e].limit
  IN
  /\ Sending(e) /\ loop[e].on
  /\ o.obs # "ABORT" /\ Room(e, o)
  /\ walk' = [walk EXCEPT ![e] = Advance(e, o)]
  /\ tape' = IF Compared(e) /\ ~Behind(e) THEN Append(tape, o) ELSE tape
  /\ expected' = [expected EXCEPT ![e] =
       IF o.obs = Own(Peer(e)) THEN Min({MaxExpected, @ + PacketSize}) ELSE @]
  /\ waiting' = [waiting EXCEPT ![e] = pause]
  /\ loop' = [loop EXCEPT ![e] =
       IF over THEN NoLoop ELSE [@ EXCEPT !.size = size, !.delay = delay]]
  /\ sent' = [sent EXCEPT ![e] = IF over THEN @ + NewBufLen(e, size) ELSE @]
  /\ UNCHANGED <<file, stage, want, awaits, got, payload, closed, promise>>

\* An assertion of tgen-markovmodel.c fails in one of the processes.
Abort(e, o) ==
  /\ Sending(e) /\ loop[e].on
  /\ o.obs = "ABORT"
  /\ stage' = "aborted"
  /\ UNCHANGED <<file, want, awaits, walk, loop, tape, sent, got, expected, waiting, payload,
                 closed, promise>>

getObservation(e) == loop[e].on /\ \E o \in Draws(e) : Round(e, o) \/ Abort(e, o)

\* The deferred write is due.
Resume(e) ==
  /\ Sending(e) /\ waiting[e]
  /\ waiting' = [waiting EXCEPT ![e] = FALSE]
  /\ UNCHANGED <<file, stage, want, awaits, walk, loop, tape, sent, got, expected, payload, closed,
                 promise>>
-----------------------------------------------------------------------------
(* Receiving, and the end of the stream.                                   *)

Remaining(e) ==
  LET left == sent[Peer(e)] - got[e]
      bytes == want[Peer(e)].bytes
  IN IF bytes > 0 THEN Min({left, bytes - got[e]}) ELSE left

readPayload(e) ==
  /\ stage = "run" /\ ~closed[e] /\ ~loop[e].on
  /\ \E n \in 1 .. Remaining(e) : got' = [got EXCEPT ![e] = @ + n]
  /\ UNCHANGED <<file, stage, want, awaits, walk, loop, tape, sent, expected, waiting, payload,
                 closed, promise>>

\* All payload is read, as far as readPayload can tell: the size is reached, or
\* the other end has closed the connection.
PayloadRead(e) ==
  IF Sized(Peer(e)) THEN got[e] >= want[Peer(e)].bytes
  ELSE closed[Peer(e)] /\ got[e] = sent[Peer(e)]

\* A sized stream sends its footer once it has read all payload itself.
sendDone(e) == payload[e] /\ (Sized(e) => PayloadRead(e))

\* A sized stream waits for the footer; without a size the Markov model tells
\* how much there is to receive (the special case of computeWantedEvents).
recvDone(e) ==
  IF Sized(Peer(e)) THEN PayloadRead(e) /\ sendDone(Peer(e))
  ELSE \/ PayloadRead(e)
       \/ sendDone(e) /\ got[e] >= expected[e]

Close(e) ==
  /\ stage = "run" /\ ~closed[e] /\ ~loop[e].on
  /\ sendDone(e) /\ recvDone(e)
  /\ closed' = [closed EXCEPT ![e] = TRUE]
  /\ UNCHANGED <<file, stage, want, awaits, walk, loop, tape, sent, got, expected, waiting, payload,
                 promise>>
-----------------------------------------------------------------------------
Process(e) ==
  \/ BeginPayload(e) \/ getObservation(e) \/ Resume(e) \/ readPayload(e) \/ Close(e)

Next ==
  \/ Load
  \/ \E e \in Ends : Process(e)

Spec == Init /\ [][Next]_vars

\* The processes run, timers fire, and a draw that is possible again and again
\* is made: the generator is not biased against any edge with a weight.  An end
\* that is to receive nothing may never be asked to write its footer (TGenStream
\* has how that comes about), so that it may, but need not, come to its end.
FairSpec ==
  /\ Spec
  /\ WF_vars(Load)
  /\ \A e \in Ends : /\ WF_vars(Process(e) /\ ~(want[Peer(e)].zero /\ closed'[e]))
                     /\ SF_vars(loop[e].on /\ \E o \in Draws(e) : o.obs = Own(e) /\ Round(e, o))
-----------------------------------------------------------------------------
(* Properties.                                                             *)

\* The variables hold values of their types.
TypeOK ==
  /\ stage \in {"load", "rejected", "differ", "run", "aborted"}
  /\ want \in [Ends -> [bytes : Nat, zero : BOOLEAN]]
  /\ awaits \in [Ends -> [bytes : Nat, zero : BOOLEAN]]
  /\ walk \in [Ends -> [state : 0 .. Len(graph.vertices), ended : BOOLEAN, first : BOOLEAN,
                        pos : 0 .. Len(tape)]]
  /\ stage = "run" => \A e \in Ends : walk[e].state \in DOMAIN graph.vertices
  /\ loop \in [Ends -> [on : BOOLEAN, limit : 0 .. WriteMax, size : Nat, delay : Nat]]
  /\ sent \in [Ends -> Nat] /\ got \in [Ends -> Nat]
  /\ expected \in [Ends -> 0 .. MaxExpected]
  /\ waiting \in [Ends -> BOOLEAN] /\ payload \in [Ends -> BOOLEAN]
  /\ closed \in [Ends -> BOOLEAN]
  /\ promise \subseteq {"productive", "ending"}

\* An end that reports success has read every byte that the other end sends, then
\* and later, and on a stream without sizes that is what its own walk over the
\* model announced: the byte counts to which the two walks lead agree, whatever
\* the packet size, the limit of the write buffer and the pauses are.
ExactTransfer ==
  \A e \in Ends : closed[e] => /\ got[e] = sent[Peer(e)]
                               /\ Unsized => got[e] = expected[e]

\* Client and server mean the same sizes after the header, whichever the client's
\* action sets, with one exception: a size of zero that the server's own start action
\* sets, as a default for the server's own actions, stays in force for the streams
\* of others that leave this size to the model.
SizesAgree ==
  \/ Agree
  \/ ~IsSized(want["client"]) /\ awaits["server"].zero
  \/ ~IsSized(awaits["client"]) /\ want["server"].zero

Positions == [state : DOMAIN graph.vertices, ended : BOOLEAN]

\* A model is walked only after it was validated, and a walk has ended only with an END.
WalksInOrder ==
  /\ IsGraph(graph)
  /\ stage \in {"run", "aborted"} => Valid(graph)
  /\ stage = "load" => tape = <<>>
  /\ tape \in Seq([obs : {"TO_SERVER", "TO_ORIGIN", "END"}, delay : 0 .. 2, walk : Positions])
  /\ \A i \in DOMAIN tape : tape[i].walk.ended => tape[i].obs = "END"

\* The loop runs only while there is something to send and leaves nothing unsent, and what
\* is sent stays within the size.
SendingInOrder(e) ==
  /\ loop[e].on => ~doneSending(e)
  /\ ~loop[e].on => loop[e].size = 0
  /\ payload[e] => doneSending(e) /\ ~loop[e].on
  /\ want[e].bytes > 0 => /\ sent[e] <= want[e].bytes
                          /\ loop[e].on => sent[e] + loop[e].limit <= want[e].bytes
  /\ want[e].bytes = 0 /\ want[e].zero => sent[e] = 0

\* An end closes after it has sent all, and after the other end has too or has closed,
\* except where neither has a size.
ClosingInOrder(e) ==
  /\ got[e] <= sent[Peer(e)]
  /\ closed[e] => /\ payload[e]
                  /\ Sized(Peer(e)) => payload[Peer(e)]
                  /\ Sized(e) /\ ~Sized(Peer(e)) => closed[Peer(e)]

\* The bytes in direction dir of the first n observations.
Emitted(dir, n) == PacketSize * Cardinality({i \in 1 .. n : tape[i].obs = dir})

\* Without sizes both ends walk along the tape to its one end, and have sent and expect
\* what is on the part that they have walked.
WalkedTogether ==
  Unsized =>
    /\ \A e \in Ends :
         /\ walk[e].first
         /\ sent[e] + loop[e].size = Emitted(Own(e), walk[e].pos)
         /\ expected[e] = Emitted(Own(Peer(e)), walk[e].pos)
         /\ IF walk[e].pos = 0 THEN ~walk[e].ended ELSE Here(e) = tape[walk[e].pos].walk
    /\ \A i \in DOMAIN tape : tape[i].walk.ended => i = Len(tape)

\* The stream is in order from the creation of both ends on: a walk that goes on is at a
\* vertex of a valid model, counters are in bounds, the sizes agree, and the two walks
\* account for the bytes that were sent and are expected.
PacketsInv ==
  /\ TypeOK /\ SizesAgree /\ WalksInOrder
  /\ \A e \in Ends : SendingInOrder(e) /\ ClosingInOrder(e)
  /\ WalkedTogether

\* A model that passed validation trips an assertion while it is used only in
\* two ways that validation does not look for: an emission edge leads to a state
\* whose name begins like an observation, or a distribution with infinite
\* location and scale, or scale zero and a small shape, generates a NaN.
AssertionsHold ==
  stage = "aborted" =>
    \E i \in DOMAIN graph.edges : LET e == graph.edges[i] IN
      /\ e.type = "emission"
      /\ \/ graph.vertices[e.to].type # "observation"
         \/ e.dist \in {"normal", "lognormal"} /\ e.a = PlusInf /\ e.b = PlusInf
         \/ e.dist = "pareto" /\ e.a = 0 /\ e.b = 1

\* A stream completes at both ends, and the loop of writePayload returns each time,
\* if both its sizes are set and neither is zero and its model goes on producing
\* packets of both directions, or if neither size is set and its model comes to an
\* end.
StreamCompletes ==
  (/\ stage = "run"
   /\ \/ (\A e \in Ends : want[e].bytes > 0) /\ "productive" \in promise
      \/ Unsized /\ "ending" \in promise)
    ~> (\A e \in Ends : closed[e])
=============================================================================
