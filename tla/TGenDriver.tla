----------------------------- MODULE TGenDriver -----------------------------
(***************************************************************************)
(* The driver of one TGen process (src/src/tgen-driver.c): it walks the    *)
(* action graph (src/src/tgen-graph.c) from the start action, keeps the    *)
(* actions that are under way, serves peers, counts what happens, logs it  *)
(* with a heartbeat, which also finds streams that time out, and ends the  *)
(* process when the conditions of an end action are met.                   *)
(*                                                                         *)
(* A stream, flow or traffic action that is under way is seen from the     *)
(* driver: open streams, and whether more may be created.  That is the     *)
(* promise in TGenActivity, which the generators keep (TGenGenerator).     *)
(*                                                                         *)
(* continueNextActions and processAction call each other; agenda lists the *)
(* edges that the nested loops have still to follow, innermost first.  An  *)
(* event is handled only when it is empty, as the process has one thread.  *)
(***************************************************************************)
EXTENDS Integers, Sequences, FiniteSets

CONSTANTS
  Unset,       \* an option that is not set, or an edge without weight
  Actions,     \* vertices of the action graph
  Start,       \* the start action
  Type,        \* Type[a]: "start", "stream", "flow" (or traffic), "pause", "end"
  Out,         \* Out[a]: the outgoing edges of a, with their weights
  PauseTimes,  \* PauseTimes[a]: the times of a pause, or Unset
  EndOptions,  \* EndOptions[a]: the limits of an end action
  Slots,       \* room for actions that are under way
  Server,      \* the slot of the streams that peers started
  HasServer,   \* TRUE if serverport is set
  Heartbeat,   \* FALSE if the heartbeat is set to 0
  StartDelay,  \* the time option of the start action
  Failures,    \* TRUE if an action may complete in the call that starts it
  Stalls,      \* TRUE if a stream may stall and end only by a timeout
  MaxStreams,  \* bound on the streams of flows and of peers
  MaxBytes,    \* bound on the bytes counted
  MaxTime      \* bound on the clock

Edge == [to : Actions, weight : Nat \cup {Unset}]
Limits == [count : Nat \cup {Unset}, sendsize : Nat \cup {Unset},
           recvsize : Nat \cup {Unset}, time : Nat \cup {Unset}]

ASSUME GraphAssumption ==
  /\ Unset \notin Nat /\ Unset \notin Actions
  /\ Start \in Actions
  /\ Type \in [Actions -> {"start", "stream", "flow", "pause", "end"}]
  /\ Out \in [Actions -> Seq(Edge)]
  /\ DOMAIN PauseTimes = Actions
  /\ \A a \in Actions : PauseTimes[a] = Unset \/ PauseTimes[a] \subseteq Nat
  /\ EndOptions \in [Actions -> Limits]
ASSUME SlotsAssumption == Server \notin Slots
ASSUME BoundsAssumption ==
  /\ MaxStreams \in Nat /\ MaxBytes \in Nat /\ MaxTime \in Nat /\ StartDelay \in Nat
  /\ HasServer \in BOOLEAN /\ Heartbeat \in BOOLEAN
  /\ Failures \in BOOLEAN /\ Stalls \in BOOLEAN

VARIABLES
  clientHasEnded, serverHasEnded,
  stopped,      \* the main loop was left
  startTimer,   \* the timer that starts the client is armed
  startTime,    \* startTimeMicros
  now,          \* the clock
  agenda,       \* edges that are still to be followed
  pauses,       \* pauses[a]: armed timers of the pause action a
  visited,      \* completedIncomingEdges of a pause action
  acts,         \* what is under way in each slot
  total,        \* streams created and completed so far
  beat,         \* streams created and completed since the last heartbeat
  logged,       \* streams created and completed in heartbeats before
  bytes,        \* bytes sent and received, by own streams and those of peers
  sweep         \* the heartbeat is checking timeouts

walk == <<agenda, pauses, visited>>
counts == <<total, beat, logged, bytes>>
vars == <<clientHasEnded, serverHasEnded, stopped, startTimer, startTime, now,
          agenda, pauses, visited, acts, total, beat, logged, bytes, sweep>>

NoAction == [action |-> Unset, open |-> 0, stuck |-> 0, more |-> FALSE]
NoStreams == [created |-> 0, completed |-> 0]
NoBytes == [sent |-> 0, received |-> 0]

\* tgendriver_new
Init ==
  /\ clientHasEnded = (\A a \in Actions : Out[a] = <<>>)
  /\ serverHasEnded = ~HasServer
  /\ stopped = FALSE
  /\ startTimer = ~clientHasEnded
  /\ startTime = 0 /\ now = 0
  /\ agenda = <<>>
  /\ pauses = [a \in Actions |-> 0]
  /\ visited = [a \in Actions |-> 0]
  /\ acts = [s \in Slots \cup {Server} |->
       IF s = Server THEN [NoAction EXCEPT !.more = HasServer] ELSE NoAction]
  /\ total = NoStreams /\ beat = NoStreams /\ logged = NoStreams
  /\ bytes = NoBytes
  /\ sweep = FALSE
-----------------------------------------------------------------------------
(* The graph.                                                               *)

Follow(a, edges) == [i \in 1 .. Len(edges) |-> [src |-> a, to |-> edges[i].to]]

\* The edges without weight, as the loop over the outgoing edges collects them.
Unweighted(a) ==
  LET result[i \in 0 .. Len(Out[a])] ==
        IF i = 0 THEN <<>>
        ELSE IF Out[a][i].weight = Unset THEN Append(result[i - 1], Out[a][i])
        ELSE result[i - 1]
  IN  result[Len(Out[a])]

\* tgengraph_getNextActionIDs: every edge without weight, then one of those
\* with a weight, which is not one that weighs nothing.
NextActionIDs(a) ==
  LET choices == {i \in 1 .. Len(Out[a]) : Out[a][i].weight # Unset}
  IN  IF choices = {} THEN {Follow(a, Unweighted(a))}
      ELSE {Follow(a, Append(Unweighted(a), Out[a][i])) :
              i \in {j \in choices : Out[a][j].weight > 0}}

\* _tgendriver_continueNextActions; rest is what the callers have left.
ContinueNextActions(a, ended, rest) ==
  IF ended THEN agenda' = rest
  ELSE \E next \in NextActionIDs(a) : agenda' = next \o rest

\* _tgengraph_countIncomingEdges
Incoming(a) ==
  UNION {{<<x, i>> : i \in {j \in 1 .. Len(Out[x]) : Out[x][j].to = a}} : x \in Actions}

Sources(a) == {edge[1] : edge \in Incoming(a)}

Arrived(type) == agenda # <<>> /\ Type[Head(agenda).to] = type

Idle == agenda = <<>> /\ ~sweep /\ ~stopped

CountCreated ==
  /\ total' = [total EXCEPT !.created = @ + 1]
  /\ beat' = [beat EXCEPT !.created = @ + 1]
  /\ UNCHANGED <<logged, bytes>>

CountCompleted ==
  /\ total' = [total EXCEPT !.completed = @ + 1]
  /\ beat' = [beat EXCEPT !.completed = @ + 1]
  /\ UNCHANGED <<logged, bytes>>
-----------------------------------------------------------------------------
(* processAction: the action that the first edge on the agenda leads to.    *)

processStart ==
  /\ Arrived("start")
  /\ ContinueNextActions(Head(agenda).to, clientHasEnded, Tail(agenda))
  /\ UNCHANGED <<clientHasEnded, serverHasEnded, stopped, startTimer, startTime,
                 now, pauses, visited, acts, counts, sweep>>

\* initiateStream: one stream is created, or the action fails at once.
initiateStream ==
  LET a == Head(agenda).to IN
  /\ Arrived("stream")
  /\ \/ /\ \E s \in Slots :
             /\ acts[s] = NoAction
             /\ acts' = [acts EXCEPT ![s] = [@ EXCEPT !.action = a, !.open = 1]]
        /\ CountCreated
        /\ agenda' = Tail(agenda)
     \/ /\ Failures
        /\ ContinueNextActions(a, clientHasEnded, Tail(agenda))
        /\ UNCHANGED <<acts, counts>>
  /\ UNCHANGED <<clientHasEnded, serverHasEnded, stopped, startTimer, startTime,
                 now, pauses, visited, sweep>>

\* initiateFlow, initiateTraffic: streams follow as the models say.
initiateFlow ==
  LET a == Head(agenda).to IN
  /\ Arrived("flow")
  /\ \/ /\ \E s \in Slots :
             /\ acts[s] = NoAction
             /\ acts' = [acts EXCEPT ![s] = [@ EXCEPT !.action = a, !.more = TRUE]]
        /\ agenda' = Tail(agenda)
     \/ /\ Failures
        /\ ContinueNextActions(a, clientHasEnded, Tail(agenda))
        /\ UNCHANGED acts
  /\ UNCHANGED <<clientHasEnded, serverHasEnded, stopped, startTimer, startTime,
                 now, pauses, visited, counts, sweep>>

\* Mutant of initiatePause: a pause of 0 is skipped, and nothing follows it.
initiatePause_dropping ==
  LET a == Head(agenda).to IN
  /\ Arrived("pause")
  /\ PauseTimes[a] # Unset
  /\ \E time \in PauseTimes[a] :
       pauses' = [pauses EXCEPT ![a] = IF time = 0 THEN @ ELSE @ + 1]
  /\ agenda' = Tail(agenda)
  /\ UNCHANGED <<clientHasEnded, serverHasEnded, stopped, startTimer, startTime,
                 now, visited, acts, counts, sweep>>

\* handlePause with times: a timer, or on with the walk if the time is 0.
initiatePause ==
  LET a == Head(agenda).to IN
  /\ Arrived("pause")
  /\ PauseTimes[a] # Unset
  /\ \E time \in PauseTimes[a] :
       IF time = 0
       THEN /\ ContinueNextActions(a, clientHasEnded, Tail(agenda))
            /\ UNCHANGED pauses
       ELSE /\ pauses' = [pauses EXCEPT ![a] = @ + 1]
            /\ agenda' = Tail(agenda)
  /\ UNCHANGED <<clientHasEnded, serverHasEnded, stopped, startTimer, startTime,
                 now, visited, acts, counts, sweep>>

\* Mutant of incrementPauseVisited: the visits are not reset.
incrementPauseVisited_keeping ==
  LET a == Head(agenda).to IN
  /\ Arrived("pause")
  /\ PauseTimes[a] = Unset
  /\ visited' = [visited EXCEPT ![a] = @ + 1]
  /\ IF visited[a] + 1 >= Cardinality(Incoming(a))
     THEN ContinueNextActions(a, clientHasEnded, Tail(agenda))
     ELSE agenda' = Tail(agenda)
  /\ UNCHANGED <<clientHasEnded, serverHasEnded, stopped, startTimer, startTime,
                 now, pauses, acts, counts, sweep>>

\* handlePause without times: wait for as many visits as there are edges.
incrementPauseVisited ==
  LET a == Head(agenda).to IN
  /\ Arrived("pause")
  /\ PauseTimes[a] = Unset
  /\ IF visited[a] + 1 >= Cardinality(Incoming(a))
     THEN /\ visited' = [visited EXCEPT ![a] = 0]
          /\ ContinueNextActions(a, clientHasEnded, Tail(agenda))
     ELSE /\ visited' = [visited EXCEPT ![a] = @ + 1]
          /\ agenda' = Tail(agenda)
  /\ UNCHANGED <<clientHasEnded, serverHasEnded, stopped, startTimer, startTime,
                 now, pauses, acts, counts, sweep>>

Reached(value, limit) == limit # Unset /\ value >= limit

\* Mutant of checkEndConditions: the server goes on.
checkEndConditions_client ==
  LET a == Head(agenda).to IN
  /\ Arrived("end")
  /\ clientHasEnded' = (clientHasEnded \/ Reached(total.completed, EndOptions[a].count))
  /\ ContinueNextActions(a, clientHasEnded', Tail(agenda))
  /\ UNCHANGED <<serverHasEnded, stopped, startTimer, startTime, now, pauses,
                 visited, acts, counts, sweep>>

checkEndConditions ==
  LET a   == Head(agenda).to
      opt == EndOptions[a]
      met == \/ Reached(bytes.sent, opt.sendsize)
             \/ Reached(bytes.received, opt.recvsize)
             \/ Reached(total.completed, opt.count)
             \/ Reached(now - startTime, opt.time)
  IN
  /\ Arrived("end")
  /\ clientHasEnded' = (clientHasEnded \/ met)
  /\ serverHasEnded' = (serverHasEnded \/ met)
  /\ ContinueNextActions(a, clientHasEnded', Tail(agenda))
  /\ UNCHANGED <<stopped, startTimer, startTime, now, pauses, visited, acts,
                 counts, sweep>>

processAction ==
  \/ processStart \/ initiateStream \/ initiateFlow
  \/ initiatePause \/ incrementPauseVisited \/ checkEndConditions
-----------------------------------------------------------------------------
(* Events.                                                                  *)

onStartClientTimerExpired ==
  /\ Idle
  /\ startTimer
  /\ now >= StartDelay
  /\ startTimer' = FALSE
  /\ startTime' = now
  /\ ContinueNextActions(Start, clientHasEnded, <<>>)
  /\ UNCHANGED <<clientHasEnded, serverHasEnded, stopped, now, pauses, visited, acts,
                 counts, sweep>>

onPauseTimerExpired(a) ==
  /\ Idle
  /\ pauses[a] > 0
  /\ pauses' = [pauses EXCEPT ![a] = @ - 1]
  /\ ContinueNextActions(a, clientHasEnded, <<>>)
  /\ UNCHANGED <<clientHasEnded, serverHasEnded, stopped, startTimer, startTime,
                 now, visited, acts, counts, sweep>>

\* A flow creates a stream, or a peer connects to a server that has not ended
\* (onNewPeer; a server that has ended closes the connection).
create(s) ==
  /\ Idle
  /\ acts[s].more
  /\ s = Server => ~serverHasEnded
  /\ total.created < MaxStreams
  /\ acts' = [acts EXCEPT ![s].open = @ + 1]
  /\ CountCreated
  /\ UNCHANGED <<clientHasEnded, serverHasEnded, stopped, startTimer, startTime,
                 now, walk, sweep>>

\* The slot in its new state r: an action without open streams that will not
\* create more is complete, and the walk continues after it.
Update(s, r) ==
  IF r.open = 0 /\ ~r.more /\ s # Server
  THEN /\ acts' = [acts EXCEPT ![s] = NoAction]
       /\ ContinueNextActions(r.action, clientHasEnded, agenda)
  ELSE /\ acts' = [acts EXCEPT ![s] = r]
       /\ UNCHANGED agenda

\* A flow reaches the end of its models.
noMore(s) ==
  /\ Idle
  /\ s # Server
  /\ acts[s].more
  /\ Update(s, [acts[s] EXCEPT !.more = FALSE])
  /\ UNCHANGED <<clientHasEnded, serverHasEnded, stopped, startTimer, startTime,
                 now, pauses, visited, counts, sweep>>

\* A stream completes, successfully or not.
complete(s) ==
  /\ Idle
  /\ acts[s].open > acts[s].stuck
  /\ Update(s, [acts[s] EXCEPT !.open = @ - 1])
  /\ CountCompleted
  /\ UNCHANGED <<clientHasEnded, serverHasEnded, stopped, startTimer, startTime,
                 now, pauses, visited, sweep>>

\* A stream makes no progress any more.
stall(s) ==
  /\ Stalls
  /\ Idle
  /\ acts[s].open > acts[s].stuck
  /\ acts' = [acts EXCEPT ![s].stuck = @ + 1]
  /\ UNCHANGED <<clientHasEnded, serverHasEnded, stopped, startTimer, startTime,
                 now, walk, counts, sweep>>

\* _tgendriver_onBytesTransferred
onBytesTransferred(s) ==
  /\ Idle
  /\ acts[s].open > acts[s].stuck
  /\ \E way \in {"sent", "received"} :
       /\ bytes[way] < MaxBytes
       /\ bytes' = [bytes EXCEPT ![way] = @ + 1]
  /\ UNCHANGED <<clientHasEnded, serverHasEnded, stopped, startTimer, startTime,
                 now, walk, acts, total, beat, logged, sweep>>
-----------------------------------------------------------------------------
(* onHeartbeat: check timeouts, log, reset.  A heartbeat that has nothing   *)
(* to do changes nothing and is left out.                                   *)

onHeartbeat ==
  /\ Heartbeat
  /\ Idle
  /\ beat # NoStreams \/ \E s \in DOMAIN acts : acts[s].stuck > 0
  /\ sweep' = TRUE
  /\ UNCHANGED <<clientHasEnded, serverHasEnded, stopped, startTimer, startTime,
                 now, walk, acts, counts>>

\* Mutant of checkTimeout: the check ends at a stream of a peer.
checkTimeout_own(s) ==
  /\ sweep
  /\ agenda = <<>>
  /\ acts[s].stuck > 0
  /\ IF s = Server THEN sweep' = FALSE /\ UNCHANGED <<acts, agenda, counts>>
     ELSE /\ Update(s, [acts[s] EXCEPT !.open = @ - 1, !.stuck = @ - 1])
          /\ CountCompleted
          /\ UNCHANGED sweep
  /\ UNCHANGED <<clientHasEnded, serverHasEnded, stopped, startTimer, startTime,
                 now, pauses, visited>>

checkTimeout(s) ==
  /\ sweep
  /\ agenda = <<>>
  /\ acts[s].stuck > 0
  /\ Update(s, [acts[s] EXCEPT !.open = @ - 1, !.stuck = @ - 1])
  /\ CountCompleted
  /\ UNCHANGED <<clientHasEnded, serverHasEnded, stopped, startTimer, startTime,
                 now, pauses, visited, sweep>>

\* Mutant of logHeartbeat: the log is written before the timeouts are checked.
logHeartbeat_first ==
  /\ sweep
  /\ agenda = <<>>
  /\ \A s \in DOMAIN acts : acts[s].stuck = 0
  /\ logged' = [created |-> logged.created + beat.created, completed |-> logged.completed]
  /\ beat' = NoStreams
  /\ sweep' = FALSE
  /\ UNCHANGED <<clientHasEnded, serverHasEnded, stopped, startTimer, startTime,
                 now, walk, acts, total, bytes>>

logHeartbeat ==
  /\ sweep
  /\ agenda = <<>>
  /\ \A s \in DOMAIN acts : acts[s].stuck = 0
  /\ logged' = [created   |-> logged.created + beat.created,
                completed |-> logged.completed + beat.completed]
  /\ beat' = NoStreams
  /\ sweep' = FALSE
  /\ UNCHANGED <<clientHasEnded, serverHasEnded, stopped, startTimer, startTime,
                 now, walk, acts, total, bytes>>

\* The clock.
tick ==
  /\ ~stopped
  /\ now < MaxTime
  /\ now' = now + 1
  /\ UNCHANGED <<clientHasEnded, serverHasEnded, stopped, startTimer, startTime,
                 walk, acts, counts, sweep>>

\* The main loop checks tgendriver_hasEnded after each round of events.
stop ==
  /\ Idle
  /\ clientHasEnded /\ serverHasEnded
  /\ stopped' = TRUE
  /\ UNCHANGED <<clientHasEnded, serverHasEnded, startTimer, startTime, now, walk,
                 acts, counts, sweep>>

event(s) == complete(s) \/ noMore(s) \/ checkTimeout(s)

\* The process has ended.
over == stopped /\ UNCHANGED vars

Next ==
  \/ processAction \/ onStartClientTimerExpired
  \/ \E a \in Actions : onPauseTimerExpired(a)
  \/ \E s \in Slots \cup {Server} :
       event(s) \/ create(s) \/ stall(s) \/ onBytesTransferred(s)
  \/ onHeartbeat \/ logHeartbeat \/ tick \/ stop \/ over

Spec == Init /\ [][Next]_vars

Fairness ==
  /\ WF_vars(processAction) /\ WF_vars(onStartClientTimerExpired) /\ WF_vars(stop)
  /\ \A a \in Actions : WF_vars(onPauseTimerExpired(a))
  /\ \A s \in Slots \cup {Server} : WF_vars(event(s))
  /\ WF_vars(onHeartbeat) /\ WF_vars(logHeartbeat) /\ WF_vars(tick)

FairSpec == Spec /\ Fairness
-----------------------------------------------------------------------------
(* Properties.                                                              *)

SlotType == [action : Actions \cup {Unset}, open : Nat, stuck : Nat, more : BOOLEAN]
StreamCounts == [created : Nat, completed : Nat]

\* Every variable has its type.
TypeOK ==
  /\ {clientHasEnded, serverHasEnded, stopped, startTimer, sweep} \subseteq BOOLEAN
  /\ startTime \in Nat /\ now \in Nat
  /\ agenda \in Seq([src : Actions, to : Actions])
  /\ pauses \in [Actions -> Nat] /\ visited \in [Actions -> Nat]
  /\ acts \in [Slots \cup {Server} -> SlotType]
  /\ {total, beat, logged} \subseteq StreamCounts
  /\ bytes \in [sent : Nat, received : Nat]

UnderWay(a) ==
  \/ \E s \in Slots : acts[s].action = a
  \/ \E i \in 1 .. Len(agenda) : agenda[i].to = a

\* In a graph without dead ends the walk is never lost: until the client has
\* ended, an edge is to be followed, an action is under way, a timer is armed,
\* or a pause was visited and waits for more visits.
WalkAlive ==
  (\A a \in Actions : Out[a] # <<>>) /\ ~clientHasEnded =>
    \/ startTimer \/ agenda # <<>>
    \/ \E s \in Slots : acts[s].action # Unset
    \/ \E a \in Actions : pauses[a] > 0 \/ visited[a] > 0

\* A pause without times joins parallel actions (TGen-Overview.md, "wait for
\* them all to finish"): when it lets the walk go on, none of the actions that
\* lead to it is under way.
PauseJoins ==
  agenda # <<>> /\ Type[Head(agenda).src] = "pause" /\ PauseTimes[Head(agenda).src] = Unset =>
    \A a \in Sources(Head(agenda).src) : ~UnderWay(a)

\* Every stream that was created or completed is in exactly one heartbeat, also
\* one that the heartbeat itself finds to have timed out.
HeartbeatsAddUp ==
  /\ total.created = logged.created + beat.created
  /\ total.completed = logged.completed + beat.completed

\* A slot is taken exactly as long as its action has open streams or may create more, and
\* no more streams are stuck than open: no action is left behind, or ended twice.
SlotsInOrder ==
  /\ \A s \in Slots :
       \/ acts[s] = NoAction
       \/ acts[s].action \in Actions /\ (acts[s].open > 0 \/ acts[s].more)
  /\ \A s \in Slots \cup {Server} : acts[s].stuck <= acts[s].open

\* The driver is in order in every state, also while the heartbeat checks timeouts: its
\* variables have their types, no stream is missing from the heartbeats' counts, and an
\* action is under way as long as it has streams, or may have.
DriverInv == TypeOK /\ HeartbeatsAddUp /\ SlotsInOrder

\* A walk that comes by an end action with a limit on streams ends the process.
Stops == <>stopped

\* TGen-Options.md, stallout: a stalled stream is given up on, unless the
\* process ends before.
StalledGiveUp ==
  \A s \in Slots \cup {Server} : acts[s].stuck > 0 ~> acts[s].stuck = 0 \/ stopped
=============================================================================
