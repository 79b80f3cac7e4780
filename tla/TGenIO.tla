------------------------------- MODULE TGenIO -------------------------------
(***************************************************************************)
(* The I/O loop of a TGen process (src/src/tgen-io.c) with its timers      *)
(* (src/src/tgen-timer.c) and its server (src/src/tgen-server.c): epoll    *)
(* reports a batch of descriptors that are ready, and the loop looks up    *)
(* the child that is registered for each of them and lets it handle the    *)
(* event.  A handler may open and close other descriptors before the rest  *)
(* of the batch is handled, and the kernel gives a new descriptor the      *)
(* lowest number that is free.                                             *)
(*                                                                         *)
(* A descriptor stands for all that lives exactly as long as it is open:   *)
(* the socket or timerfd, the stream, server or timer that owns it, and    *)
(* the child of the I/O loop.  What streams do is left open (TGenStream),  *)
(* and what the driver starts when something completes (TGenDriver).       *)
(***************************************************************************)
EXTENDS Integers, FiniteSets

CONSTANTS
  MaxFd,      \* descriptors are 1 .. MaxFd
  MaxEvents,  \* events that epoll_wait reports at most in one call
  HasServer,  \* TRUE if the process has a server
  Timeouts,   \* TRUE if the heartbeat runs, and streams may time out
  Exhausts    \* TRUE if a stream may need a timer when no descriptor is free

ASSUME MaxFdAssumption == MaxFd \in Nat /\ MaxFd >= 3
ASSUME MaxEventsAssumption == MaxEvents \in Nat \ {0}
ASSUME SwitchAssumption == HasServer \in BOOLEAN /\ Timeouts \in BOOLEAN /\ Exhausts \in BOOLEAN

VARIABLES
  d,        \* the descriptors
  batch,    \* events of the last epoll_wait that are still to be handled
  stopping, \* the main loop was left and the I/O loop is being freed
  aborted,  \* the assertion that has failed, if any
  misled    \* an event has reached a child that was not there when it was reported

vars == <<d, batch, stopping, aborted, misled>>

Fds == 1 .. MaxFd
None == 0

\* reg: in the table of children; refs: of the child; watch: its events;
\* defer, barrier: the defer timer of a stream, and its write barrier;
\* trefs, armed, owner: of a timer, which may be the defer timer of a stream.
Closed == [kind |-> "closed", reg |-> FALSE, refs |-> 0, watch |-> {},
           defer |-> None, barrier |-> "none", trefs |-> 0, armed |-> "off", owner |-> None]

\* tgenio_register of a new stream, server, or one-time or heartbeat timer
Registered(kind) ==
  [Closed EXCEPT !.kind = kind, !.reg = TRUE, !.refs = 1, !.watch = {"IN", "OUT"},
     !.trefs = IF kind \in {"timer", "heartbeat"} THEN 1 ELSE 0,
     !.armed = IF kind \in {"timer", "heartbeat"} THEN "armed" ELSE "off"]

Unused(D) == {f \in Fds : D[f].kind = "closed"}
Lowest(D) == CHOOSE f \in Unused(D) : \A g \in Unused(D) : f <= g

\* socket(), accept() or timerfd_create(), and tgenio_register; without a
\* descriptor, what was to be created is not.
Open(D, kind) == IF Unused(D) = {} THEN D ELSE [D EXCEPT ![Lowest(D)] = Registered(kind)]

OpenIf(D, wanted, kind) == IF wanted THEN Open(D, kind) ELSE D

\* What the driver and the generators start when something completes or a
\* timer expires: nothing, a stream, a pause or delay, or both.
Spawns == SUBSET {"stream", "timer"}

Spawn(D, kinds) == OpenIf(OpenIf(D, "stream" \in kinds, "stream"), "timer" \in kinds, "timer")

\* tgendriver_new
Init ==
  /\ d = Open(OpenIf(OpenIf([f \in Fds |-> Closed], Timeouts, "heartbeat"),
                     HasServer, "server"),
              "timer")
  /\ batch = {}
  /\ stopping = FALSE
  /\ aborted = "no"
  /\ misled = FALSE
-----------------------------------------------------------------------------
(* References.  A stream's child and its defer timer refer to each other,   *)
(* and the table to the child and, through its child, to the timer.         *)

\* _tgeniochild_unref of a stream's child, whose defer timer is gone
ChildUnref(D, f) ==
  IF D[f].refs > 1 THEN [D EXCEPT ![f].refs = @ - 1] ELSE [D EXCEPT ![f] = Closed]

\* tgentimer_unref, which may close the timer and release the stream's child
TimerUnref(D, t) ==
  IF D[t].trefs > 1 THEN [D EXCEPT ![t].trefs = @ - 1]
  ELSE LET E == [D EXCEPT ![t] = Closed]
       IN  IF D[t].owner = None THEN E ELSE ChildUnref(E, D[t].owner)

\* The child cancels its defer timer and forgets it.
DropDeferTimer(D, f) ==
  IF D[f].defer = None THEN D
  ELSE TimerUnref([D EXCEPT ![f].defer = None, ![D[f].defer].armed = "off"], D[f].defer)

\* Mutant of HashTableDestroy: the references are left as they are.
HashTableDestroy_plain(D, f) ==
  LET E == [D EXCEPT ![f].reg = FALSE] IN
  IF D[f].kind = "stream" THEN ChildUnref(E, f)
  ELSE IF D[f].trefs > 0 THEN TimerUnref([E EXCEPT ![f].refs = 0], f)
  ELSE [E EXCEPT ![f] = Closed]

\* _tgeniochild_hashTableDestroy, for a child that leaves the table
HashTableDestroy(D, f) ==
  LET E == [D EXCEPT ![f].reg = FALSE] IN
  IF D[f].kind = "stream" THEN ChildUnref(DropDeferTimer(E, f), f)
  ELSE IF D[f].trefs > 0 THEN TimerUnref([E EXCEPT ![f].refs = 0], f)
  ELSE [E EXCEPT ![f] = Closed]

\* Mutant of Deregister: the defer timer stays.
Deregister_plain(D, f) ==
  IF D[f].reg THEN HashTableDestroy_plain(D, f) ELSE D

\* _tgenio_deregister, with the defer timer of a stream
Deregister(D, f) ==
  IF ~D[f].reg THEN D
  ELSE LET t == D[f].defer
           E == IF t = None THEN D ELSE HashTableDestroy(DropDeferTimer(D, f), t)
       IN  HashTableDestroy(E, f)

\* The descriptors in T are deregistered, one after the other.
DeregisterAll(D, T) ==
  LET upTo[n \in 0 .. MaxFd] ==
        IF n = 0 THEN D
        ELSE IF n \in T THEN Deregister(upTo[n - 1], n) ELSE upTo[n - 1]
  IN  upTo[MaxFd]
-----------------------------------------------------------------------------
(* loopOnce: collect a batch, and handle its events.                        *)

Streams == {f \in Fds : d[f].reg /\ d[f].kind = "stream"}

Expired == {f \in Fds : d[f].reg /\ d[f].armed = "expired"}

\* epoll_wait: sockets that happen to be ready (a listening socket only to be
\* read, and every socket also when it fails) and the timers that have expired.
loopOnce ==
  /\ batch = {} /\ ~stopping
  /\ \E T \in SUBSET Expired, L \in SUBSET {f \in Fds : d[f].kind = "server"},
        S \in SUBSET Streams :
       /\ T \cup L \cup S # {}
       /\ Cardinality(T \cup L \cup S) <= MaxEvents
       /\ T = Expired \/ Cardinality(T \cup L \cup S) = MaxEvents
       /\ \E ev \in [S -> SUBSET {"IN", "OUT", "DONE"} \ {{}}] :
            /\ \A f \in S : ev[f] \subseteq d[f].watch \cup {"DONE"}
            /\ batch' = {[fd |-> f, ev |-> IF f \in S THEN ev[f] ELSE {"IN"},
                         stale |-> FALSE] : f \in T \cup L \cup S}
  /\ UNCHANGED <<d, stopping, aborted, misled>>

\* e reaches the child that is registered now, whoever it was reported for.
Meets(e) == misled' = (misled \/ (e.stale /\ d[e.fd].reg))

\* The event e was handled, and the descriptors are D now.  What is left in
\* the batch for a descriptor that was closed is out of date.
Handled(e, D) ==
  /\ d' = D
  /\ batch' = {[x EXCEPT !.stale = @ \/ D[x.fd].kind = "closed"] : x \in batch \ {e}}
  /\ Meets(e)
  /\ UNCHANGED <<stopping, aborted>>

\* _tgenio_helper after a handler that returned events to watch: a child whose
\* event says that it is done is deregistered all the same.
HandledUnlessDone(e, D) == Handled(e, IF "DONE" \in e.ev THEN Deregister(D, e.fd) ELSE D)

Aborts(e, why) == aborted' = why /\ Meets(e) /\ UNCHANGED <<d, batch, stopping>>

\* The first lines of onEvent of a timer and of the server
ReadOnly(e) == d[e.fd].reg /\ d[e.fd].kind # "stream"

notReadable(e) ==
  /\ ReadOnly(e)
  /\ "IN" \notin e.ev
  /\ Aborts(e, "not readable")

\* The child is gone: the descriptor is deregistered once more.
noChild(e) ==
  /\ ~d[e.fd].reg
  /\ Handled(e, Deregister(d, e.fd))

\* Mutant of setDeferTimer: the timer's reference to the child is not counted.
setDeferTimer_unref(e, D) ==
  LET f == e.fd IN
  /\ D[f].defer = None /\ Unused(D) # {}
  /\ LET t == Lowest(D) IN
     Handled(e, [D EXCEPT ![f].defer = t,
       ![t] = [Registered("defer") EXCEPT !.trefs = 2, !.armed = "armed", !.owner = f]])

\* _tgenio_setDeferTimer; D has the stream's new barrier and events.
setDeferTimer(e, D) ==
  LET f == e.fd IN
  \/ /\ D[f].defer # None
     /\ IF D[D[f].defer].reg THEN Handled(e, [D EXCEPT ![D[f].defer].armed = "armed"])
        ELSE Aborts(e, "timer is not registered")
  \/ /\ D[f].defer = None /\ Unused(D) # {}
     /\ LET t == Lowest(D) IN
        Handled(e, [D EXCEPT ![f].refs = @ + 1, ![f].defer = t,
          ![t] = [Registered("defer") EXCEPT !.trefs = 2, !.armed = "armed", !.owner = f]])
  \/ /\ D[f].defer = None /\ Unused(D) = {} /\ Exhausts
     /\ Aborts(e, "no timer")

\* A stream goes on: after writing it may defer its next write, and until the
\* barrier has passed the write events wait for the defer timer.
streamGoesOn(e) ==
  LET f == e.fd
      With(barrier, watch) == [d EXCEPT ![f].barrier = barrier, ![f].watch = watch]
  IN
  /\ d[f].reg /\ d[f].kind = "stream"
  /\ "DONE" \notin e.ev
  /\ IF "OUT" \in e.ev /\ d[f].barrier = "future" THEN Aborts(e, "wrote before the barrier")
     ELSE \E barrier \in IF "OUT" \in e.ev THEN {"none", "future"} ELSE {d[f].barrier} :
       \/ /\ barrier = "none"
          /\ \E watch \in SUBSET {"IN", "OUT"} \ {{}} : Handled(e, With(barrier, watch))
       \/ /\ barrier = "past"
          /\ \E watch \in SUBSET {"IN"} : Handled(e, With(barrier, watch \cup {"OUT"}))
       \/ /\ barrier = "future"
          /\ \E watch \in SUBSET {"IN"} : setDeferTimer(e, With(barrier, watch))

\* A stream completes, or epoll reports an error: the driver is notified, then
\* the stream is deregistered.
streamCompletes(e) ==
  /\ d[e.fd].reg /\ d[e.fd].kind = "stream"
  /\ \E kinds \in Spawns : Handled(e, Deregister(Spawn(d, kinds), e.fd))

\* tgentimer_onEvent when the timer was set again since: read() has nothing.
timerNotReady(e) ==
  /\ ReadOnly(e) /\ d[e.fd].kind # "server"
  /\ "IN" \in e.ev
  /\ d[e.fd].armed # "expired"
  /\ HandledUnlessDone(e, [d EXCEPT ![e.fd].watch = {"IN"}])

\* A pause or a delay is over, and the one-time timer is freed.
timerExpires(e) ==
  /\ d[e.fd].reg /\ d[e.fd].kind = "timer"
  /\ "IN" \in e.ev /\ d[e.fd].armed = "expired"
  /\ \E kinds \in Spawns : Handled(e, Deregister(Spawn(d, kinds), e.fd))

\* Mutant of onDeferTimerExpired: the events are not written back to epoll.
onDeferTimerExpired_unsynced(e) ==
  /\ d[e.fd].reg /\ d[e.fd].kind = "defer"
  /\ "IN" \in e.ev /\ d[e.fd].armed = "expired"
  /\ Handled(e, [d EXCEPT ![e.fd].armed = "off", ![e.fd].watch = {"IN"}])

onDeferTimerExpired(e) ==
  LET f == d[e.fd].owner IN
  /\ d[e.fd].reg /\ d[e.fd].kind = "defer"
  /\ "IN" \in e.ev /\ d[e.fd].armed = "expired"
  /\ IF ~d[f].reg \/ d[f].defer # e.fd THEN Aborts(e, "not the child")
     ELSE HandledUnlessDone(e,
            [d EXCEPT ![e.fd].armed = "off", ![e.fd].watch = {"IN"}, ![f].watch = @ \cup {"OUT"}])

\* checkTimeouts: the driver is notified of every stream that has timed out,
\* and then they are deregistered; the heartbeat timer is persistent.
onHeartbeat(e) ==
  /\ d[e.fd].reg /\ d[e.fd].kind = "heartbeat"
  /\ "IN" \in e.ev /\ d[e.fd].armed = "expired"
  /\ \E T \in SUBSET Streams, kinds \in Spawns :
       /\ T = {} => kinds = {}
       /\ LET D == Spawn([d EXCEPT ![e.fd].armed = "armed", ![e.fd].watch = {"IN"}], kinds)
          IN  HandledUnlessDone(e, DeregisterAll(D, T))

\* The server accepts one peer, or none (accepting more takes more events).
acceptPeer(e) ==
  /\ d[e.fd].reg /\ d[e.fd].kind = "server"
  /\ "IN" \in e.ev
  /\ \E kinds \in {{}, {"stream"}} :
       HandledUnlessDone(e, Spawn([d EXCEPT ![e.fd].watch = {"IN"}], kinds))

handle(e) ==
  \/ notReadable(e) \/ noChild(e) \/ streamGoesOn(e) \/ streamCompletes(e)
  \/ timerNotReady(e) \/ timerExpires(e) \/ onDeferTimerExpired(e) \/ onHeartbeat(e)
  \/ acceptPeer(e)
-----------------------------------------------------------------------------
(* Time (external), and the end of the process.                             *)

barrierPasses(f) ==
  /\ d[f].barrier = "future"
  /\ d' = [d EXCEPT ![f].barrier = "past"]
  /\ UNCHANGED <<batch, stopping, aborted, misled>>

\* A defer timer was set for what was left until the barrier.
expire(t) ==
  /\ d[t].armed = "armed"
  /\ d[t].kind = "defer" => d[d[t].owner].barrier # "future"
  /\ d' = [d EXCEPT ![t].armed = "expired"]
  /\ UNCHANGED <<batch, stopping, aborted, misled>>

\* tgendriver_shutdownIO: the table is destroyed, in no particular order.
shutdownIO ==
  /\ batch = {} /\ ~stopping
  /\ stopping' = TRUE
  /\ UNCHANGED <<d, batch, aborted, misled>>

destroy(f) ==
  /\ stopping
  /\ d[f].reg
  /\ d' = HashTableDestroy(d, f)
  /\ UNCHANGED <<batch, stopping, aborted, misled>>

Running == aborted = "no"

\* Everything was freed, or the process was aborted.
over ==
  /\ ~Running \/ (stopping /\ \A f \in Fds : ~d[f].reg)
  /\ UNCHANGED vars

Next ==
  \/ /\ Running
     /\ \/ loopOnce \/ shutdownIO
        \/ \E e \in batch : handle(e)
        \/ \E f \in Fds : barrierPasses(f) \/ expire(f) \/ destroy(f)
  \/ over

Spec == Init /\ [][Next]_vars

Fairness ==
  /\ WF_vars(Running /\ loopOnce)
  /\ WF_vars(Running /\ \E e \in batch : handle(e))
  /\ \A f \in Fds : WF_vars(Running /\ barrierPasses(f)) /\ WF_vars(Running /\ expire(f))

FairSpec == Spec /\ Fairness
-----------------------------------------------------------------------------
(* Properties.                                                              *)

FdType == [kind : {"closed", "stream", "server", "timer", "defer", "heartbeat"},
           reg : BOOLEAN, refs : 0 .. 2, watch : SUBSET {"IN", "OUT"}, defer : Fds \cup {None},
           barrier : {"none", "future", "past"}, trefs : 0 .. 2,
           armed : {"off", "armed", "expired"}, owner : Fds \cup {None}]

\* Every variable has its type.
TypeOK ==
  /\ d \in [Fds -> FdType]
  /\ batch \subseteq [fd : Fds, ev : SUBSET {"IN", "OUT", "DONE"}, stale : BOOLEAN]
  /\ stopping \in BOOLEAN /\ misled \in BOOLEAN
  /\ aborted \in {"no", "no timer", "not readable", "not the child", "timer is not registered",
                  "wrote before the barrier"}

One(b) == IF b THEN 1 ELSE 0

\* t is a timer that was created for deferred writes of f.
Serves(D, t, f) == D[t].kind = "defer" /\ D[t].owner = f

\* A stream's child is referred to by the table and by its defer timer; it refers to this
\* timer as long as it is in the table, and has no other.
ChildRefs(D, f) == One(D[f].reg) + One(\E t \in Fds : Serves(D, t, f))

ChildCounts(D, f) ==
  /\ D[f].trefs = 0
  /\ D[f].refs = ChildRefs(D, f) /\ D[f].refs > 0
  /\ D[f].defer # None => D[f].reg /\ Serves(D, D[f].defer, f)

\* A defer timer is referred to by the table and by the stream's child.
TimerRefs(D, t) == One(D[t].reg) + One(D[D[t].owner].defer = t)

TimerCounts(D, t) ==
  /\ D[t].defer = None
  /\ D[t].owner # None /\ D[D[t].owner].kind = "stream"
  /\ D[t].trefs = TimerRefs(D, t) /\ D[t].trefs > 0
  /\ D[D[t].owner].reg => D[D[t].owner].defer = t

\* All others are referred to only by the table, and what is closed by nobody.
OtherCounts(D, f) ==
  /\ D[f].defer = None /\ D[f].owner = None
  /\ D[f].reg /\ D[f].trefs = One(D[f].kind # "server")

\* Whatever happened, children and timers count each other, as the comment on
\* hashTableDestroy says ("the child and timer hold refs to each other").
CountsInOrder(D) ==
  \A f \in Fds :
    /\ D[f].kind = "closed" => D[f] = Closed
    /\ D[f].kind = "stream" => ChildCounts(D, f)
    /\ D[f].kind = "defer" => TimerCounts(D, f)
    /\ D[f].kind \in {"server", "timer", "heartbeat"} => OtherCounts(D, f)
    /\ \A g, t \in Fds : Serves(D, f, g) /\ Serves(D, t, g) => f = t

\* Writes that are deferred are not watched for, and no timer has expired for them.
BarriersInOrder(D) ==
  \A f \in Fds :
    D[f].barrier = "future" =>
      /\ D[f].kind = "stream" /\ "OUT" \notin D[f].watch
      /\ \A t \in Fds : Serves(D, t, f) => D[t].armed # "expired"

\* A descriptor has one event in a batch at most; an event that is not out of date is for a
\* child that is open, and is one that this child can handle.
BatchInOrder ==
  /\ stopping => batch = {}
  /\ \A e \in batch :
       /\ \A x \in batch : x.fd = e.fd => x = e
       /\ ~e.stale =>
            /\ d[e.fd].kind # "closed"
            /\ d[e.fd].kind # "stream" => e.ev = {"IN"}
            /\ "OUT" \in e.ev => d[e.fd].barrier # "future"

\* While the loop runs nothing is open that it does not watch, and the references
\* that a stream's child and its defer timer hold to each other are counted, as
\* long as no event was handed to a child that it was not reported for.
RefcountsExact ==
  ~stopping /\ ~misled =>
    \A f \in Fds :
      /\ d[f].kind # "closed" => d[f].reg
      /\ d[f].kind = "stream" => d[f].refs = IF d[f].defer = None THEN 1 ELSE 2
      /\ d[f].defer # None => d[d[f].defer].kind = "defer" /\ d[d[f].defer].owner = f
      /\ d[f].kind = "defer" => d[f].trefs = 2 /\ d[d[f].owner].defer = f

\* The loop's table is in order after every event: its entries have their types, children
\* and timers count each other, writes wait for their barrier and events for their child.
IOInv == TypeOK /\ CountsInOrder(d) /\ BarriersInOrder(d) /\ BatchInOrder /\ RefcountsExact

\* When the table has been destroyed, in whatever order, nothing is left open
\* (the comment on hashTableDestroy: "the child and timer hold refs to each other").
AllReleased ==
  stopping /\ (\A f \in Fds : ~d[f].reg) => \A f \in Fds : d[f].kind = "closed"

\* The assertions of onDeferTimerExpired, setDeferTimer, tgentimer_onEvent,
\* tgenserver_onEvent and of the stream's write barrier hold.
AssertionsHold == aborted = "no"

\* They hold as long as there are descriptors for timers and no event was handed
\* to a child that it was not reported for.
AssertionsHoldInTime == aborted \in {"no", "no timer"} \/ misled

\* A stream that defers its writes gets write events again, or it is closed.
DeferredWritesResume ==
  \A f \in Fds :
    d[f].barrier = "future" ~>
      ("OUT" \in d[f].watch \/ d[f].kind # "stream" \/ stopping \/ ~Running \/ misled)
=============================================================================
