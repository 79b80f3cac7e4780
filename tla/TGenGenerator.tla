--------------------------- MODULE TGenGenerator ----------------------------
(***************************************************************************)
(* The generators of one action of the graph (src/src/tgen-generator.c):   *)
(* a traffic generator creates flow generators, a flow generator creates   *)
(* streams, each when its Markov model says so and a delay timer later; a  *)
(* stream action is a generator that creates one stream.  Completions      *)
(* climb from the streams through the generators to the driver, and the    *)
(* generators live as long as somebody holds a reference to them.          *)
(*                                                                         *)
(* The program is single-threaded and its calls nest: calls is the stack   *)
(* of what is left to do in the event being handled, and one step executes *)
(* the call on top of it.  An event (a timer expires, a stream completes)  *)
(* is taken from epoll only when the stack is empty.                       *)
(***************************************************************************)
EXTENDS Integers, Sequences, FiniteSets

CONSTANTS
  Gens,      \* generator objects
  Root,      \* the generator that the driver starts for the action
  Kinds,     \* types of action: "traffic", "flow" or "stream"
  MaxObs,    \* observations of a Markov model before its end, at most
  Failures   \* TRUE if transports and timers may fail to be created

ASSUME GensAssumption == IsFiniteSet(Gens) /\ Root \in Gens
ASSUME KindsAssumption == Kinds \subseteq {"traffic", "flow", "stream"}
ASSUME MaxObsAssumption == MaxObs \in Nat
ASSUME FailuresAssumption == Failures \in BOOLEAN

VARIABLES
  gen,       \* the generators
  streams,   \* streams that notify a generator and are not destroyed
  calls,     \* calls left to execute, innermost first
  totals,    \* the driver's counters
  continued  \* how often the driver continued in the action graph

vars == <<gen, streams, calls, totals, continued>>

Free == [kind |-> "free", numGenerated |-> 0, numCompleted |-> 0,
         reachedEndState |-> FALSE, hasError |-> FALSE, refcount |-> 0,
         timer |-> FALSE, obs |-> 0]

\* tgengenerator_new: the caller's reference; a single stream has no model.
New(kind) == [Free EXCEPT !.kind = kind, !.refcount = 1,
                          !.obs = IF kind = "stream" THEN 0 ELSE MaxObs]

Things == {"stream", "flow", "traffic"}

\* TGEN_NOTIFY_..._COMPLETE and ..._SUCCESS
Flags == Things \X {"complete", "success"}

\* A call on g; a notification carries flags, and to the driver also whether
\* the action's id comes with them or -1.
CallWith(op, g, flags, id) == [op |-> op, g |-> g, flags |-> flags, id |-> id]

Call(op, g) == CallWith(op, g, {}, FALSE)

\* What the driver counts a generator as: flows, unless it generates flows.
CountedAs(kind) == IF kind = "traffic" THEN "traffic" ELSE "flow"

Created(tot, what) == [tot EXCEPT ![what].created = @ + 1]

Init ==
  /\ \E kind \in Kinds :
       /\ gen = [g \in Gens |-> IF g = Root THEN New(kind) ELSE Free]
       /\ totals = [w \in Things |->
            [created |-> IF w = CountedAs(kind) THEN 1 ELSE 0, success |-> 0, error |-> 0]]
  /\ streams = [g \in Gens |-> 0]
  /\ calls = <<Call("start", Root)>>
  /\ continued = 0

On(op, g) == calls # <<>> /\ Head(calls).op = op /\ Head(calls).g = g

\* The call on top returns, after having made these calls.
Do(seq) == calls' = seq \o Tail(calls)

Succeeds == IF Failures THEN BOOLEAN ELSE {TRUE}
-----------------------------------------------------------------------------
\* A stream holds a reference to the generator that it notifies.
StreamStarts(g, r) ==
  /\ gen' = [gen EXCEPT ![g] = [r EXCEPT !.numGenerated = @ + 1, !.refcount = @ + 1]]
  /\ streams' = [streams EXCEPT ![g] = @ + 1]
  /\ totals' = Created(totals, "stream")

StreamFailsToStart(g, r) ==
  /\ gen' = [gen EXCEPT ![g] = r]
  /\ UNCHANGED <<streams, totals>>

\* tgengenerator_start
start(g) ==
  /\ On("start", g)
  /\ IF gen[g].kind # "stream"
     THEN Do(<<Call("generateNext", g)>>) /\ UNCHANGED <<gen, streams, totals>>
     ELSE \E ok \in Succeeds :
       IF ok
       THEN StreamStarts(g, [gen[g] EXCEPT !.reachedEndState = TRUE]) /\ Do(<<>>)
       ELSE /\ StreamFailsToStart(g, [gen[g] EXCEPT !.hasError = TRUE])
            /\ Do(<<Call("onComplete", g)>>)
  /\ UNCHANGED continued

\* generateNext, for the three things that an observation may lead to.
createFlow(g) ==
  /\ On("generateNext", g)
  /\ gen[g].kind = "traffic"
  /\ gen[g].obs > 0
  /\ \E f \in Gens :
       /\ gen[f].kind = "free"
       /\ gen' = [gen EXCEPT
            ![f] = New("flow"),
            ![g] = [gen[g] EXCEPT !.numGenerated = @ + 1, !.refcount = @ + 1, !.obs = @ - 1]]
       /\ Do(<<Call("start", f), Call("setTimer", g)>>)
  /\ totals' = Created(totals, "flow")
  /\ UNCHANGED <<streams, continued>>

createStream(g) ==
  LET r == [gen[g] EXCEPT !.obs = @ - 1] IN
  /\ On("generateNext", g)
  /\ gen[g].kind = "flow"
  /\ gen[g].obs > 0
  /\ \E ok \in Succeeds : IF ok THEN StreamStarts(g, r) ELSE StreamFailsToStart(g, r)
  /\ Do(<<Call("setTimer", g)>>)
  /\ UNCHANGED continued

\* Mutant of endObserved: the delay timer is set also after the end.
endObserved_again(g) ==
  /\ On("generateNext", g)
  /\ gen' = [gen EXCEPT ![g].reachedEndState = TRUE]
  /\ Do(<<Call("setTimer", g), Call("onComplete", g)>>)
  /\ UNCHANGED <<streams, totals, continued>>

endObserved(g) ==
  /\ On("generateNext", g)
  /\ gen' = [gen EXCEPT ![g].reachedEndState = TRUE]
  /\ Do(<<Call("onComplete", g)>>)
  /\ UNCHANGED <<streams, totals, continued>>

\* Mutant of setTimer: the timer's reference is not counted.
setTimer_uncounted(g) ==
  /\ On("setTimer", g)
  /\ gen' = [gen EXCEPT ![g].timer = TRUE]
  /\ Do(<<>>)
  /\ UNCHANGED <<streams, totals, continued>>

\* The timer holds a reference to the generator.
setTimer(g) ==
  /\ On("setTimer", g)
  /\ \E ok \in Succeeds :
       IF ok
       THEN /\ gen' = [gen EXCEPT ![g].timer = TRUE, ![g].refcount = @ + 1]
            /\ Do(<<>>)
       ELSE /\ gen' = [gen EXCEPT ![g].hasError = TRUE]
            /\ Do(<<Call("onComplete", g)>>)
  /\ UNCHANGED <<streams, totals, continued>>
-----------------------------------------------------------------------------
\* Mutant of AllDone: what was generated so far is complete.
AllDone_soFar(r) == r.numCompleted >= r.numGenerated

\* Mutant of AllDone: off by one, more must complete than was generated.
AllDone_strict(r) ==
  (r.hasError \/ r.reachedEndState) /\ r.numCompleted > r.numGenerated

\* The test at the top of onCompleteHelper.
AllDone(r) ==
  (r.hasError \/ r.reachedEndState) /\ r.numCompleted >= r.numGenerated

\* Mutant of Tell: what a child reported is lost when the parent completes too.
Tell_lastOnly(g, flags, id) ==
  CallWith(IF g = Root THEN "driver" ELSE "onNotify", Root,
           IF id THEN flags \ {<<"stream", "complete">>} ELSE flags, id /\ g = Root)

\* notifyCB: the driver for the generator it started, which continues in the
\* graph if the action's id comes along; the traffic generator for its flows.
Tell(g, flags, id) ==
  CallWith(IF g = Root THEN "driver" ELSE "onNotify", Root, flags, id /\ g = Root)

\* _tgengenerator_onCompleteHelper
onComplete(g) ==
  LET r     == gen[g]
      what  == CountedAs(r.kind)
      flags == Head(calls).flags
      final == {<<what, "complete">>} \cup
               (IF r.hasError THEN {} ELSE {<<what, "success">>})
  IN
  /\ On("onComplete", g)
  /\ Do(IF AllDone(r) THEN <<Tell(g, flags \cup final, TRUE), Call("unref", g)>>
        ELSE IF flags # {} THEN <<Tell(g, flags, FALSE)>>
        ELSE <<>>)
  /\ UNCHANGED <<gen, streams, totals, continued>>

\* A flow that completes counts for a traffic generator, a stream for others.
Counts(kind, flags) ==
  \/ kind = "traffic" /\ <<"flow", "complete">> \in flags
  \/ kind # "traffic" /\ <<"stream", "complete">> \in flags

\* _tgengenerator_onNotify of something that completed
onNotify(g) ==
  LET flags == Head(calls).flags IN
  /\ On("onNotify", g)
  /\ gen' = [gen EXCEPT ![g].numCompleted =
               IF Counts(gen[g].kind, flags) THEN @ + 1 ELSE @]
  /\ Do(<<CallWith("onComplete", g, flags, FALSE)>>)
  /\ UNCHANGED <<streams, totals, continued>>

\* _tgendriver_onNotify, for completions
driver(g) ==
  LET flags == Head(calls).flags IN
  /\ On("driver", g)
  /\ totals' = [w \in Things |->
       IF <<w, "complete">> \notin flags THEN totals[w]
       ELSE IF <<w, "success">> \in flags
       THEN [totals[w] EXCEPT !.success = @ + 1]
       ELSE [totals[w] EXCEPT !.error = @ + 1]]
  /\ continued' = IF Head(calls).id THEN continued + 1 ELSE continued
  /\ Do(<<>>)
  /\ UNCHANGED <<gen, streams>>

\* Mutant of unref: a freed generator keeps its reference to its parent.
unref_leaking(g) ==
  /\ On("unref", g)
  /\ gen' = [gen EXCEPT ![g] = IF @.refcount = 1 THEN Free
                               ELSE [@ EXCEPT !.refcount = @ - 1]]
  /\ Do(<<>>)
  /\ UNCHANGED <<streams, totals, continued>>

\* _tgengenerator_unref; a freed generator unrefs whom it notifies.
unref(g) ==
  /\ On("unref", g)
  /\ IF gen[g].refcount = 1
     THEN /\ gen' = [gen EXCEPT ![g] = Free]
          /\ Do(IF g = Root THEN <<>> ELSE <<Call("unref", Root)>>)
     ELSE /\ gen' = [gen EXCEPT ![g].refcount = @ - 1]
          /\ Do(<<>>)
  /\ UNCHANGED <<streams, totals, continued>>
-----------------------------------------------------------------------------
\* The delay is over: generate, then the one-time timer is freed.
onTimerExpired(g) ==
  /\ calls = <<>>
  /\ gen[g].timer
  /\ gen' = [gen EXCEPT ![g].timer = FALSE]
  /\ calls' = <<Call("generateNext", g), Call("unref", g)>>
  /\ UNCHANGED <<streams, totals, continued>>

\* A stream notifies its generator, then it is destroyed.
streamCompletes(g) ==
  /\ calls = <<>>
  /\ streams[g] > 0
  /\ streams' = [streams EXCEPT ![g] = @ - 1]
  /\ \E flags \in {{<<"stream", "complete">>},
                   {<<"stream", "complete">>, <<"stream", "success">>}} :
       calls' = <<CallWith("onNotify", g, flags, FALSE), Call("unref", g)>>
  /\ UNCHANGED <<gen, totals, continued>>

step(g) ==
  \/ start(g) \/ createFlow(g) \/ createStream(g) \/ endObserved(g) \/ setTimer(g)
  \/ onComplete(g) \/ onNotify(g) \/ driver(g) \/ unref(g)

\* No event will come for the action any more.
over ==
  /\ calls = <<>>
  /\ \A g \in Gens : ~gen[g].timer /\ streams[g] = 0
  /\ UNCHANGED vars

Next ==
  \/ \E g \in Gens : step(g) \/ onTimerExpired(g) \/ streamCompletes(g)
  \/ over

Spec == Init /\ [][Next]_vars

\* epoll reports an expired timer, and streams complete (by a timeout at worst).
Fairness ==
  \A g \in Gens : WF_vars(step(g)) /\ WF_vars(onTimerExpired(g)) /\ WF_vars(streamCompletes(g))

FairSpec == Spec /\ Fairness
-----------------------------------------------------------------------------
(* Properties.                                                              *)

GenType == [kind : {"free", "traffic", "flow", "stream"}, numGenerated : Nat,
            numCompleted : Nat, reachedEndState : BOOLEAN, hasError : BOOLEAN,
            refcount : Nat, timer : BOOLEAN, obs : Nat]

Ops == {"start", "generateNext", "setTimer", "onComplete", "onNotify", "driver", "unref"}
CallType == [op : Ops, g : Gens, flags : SUBSET Flags, id : BOOLEAN]

\* Every variable has its type.
TypeOK ==
  /\ gen \in [Gens -> GenType]
  /\ streams \in [Gens -> Nat]
  /\ totals \in [Things -> [created : Nat, success : Nat, error : Nat]]
  /\ continued \in Nat
  /\ calls \in Seq(CallType)

Live(g) == gen[g].kind # "free"

\* Flow generators that hold a reference to g, which they notify.
Children(g) == IF g = Root THEN {f \in Gens \ {Root} : Live(f)} ELSE {}

\* No call, timer, stream or flow is left with a generator that was freed: the
\* "be careful after this call" of onNotify, generateNext and start.
NoUseAfterFree ==
  /\ \A i \in 1 .. Len(calls) : calls[i].op # "driver" => Live(calls[i].g)
  /\ \A g \in Gens : streams[g] > 0 \/ Children(g) # {} => Live(g)

\* Between events a generator exists exactly as long as something may still
\* happen to it, and its reference count is the number of its holders.
RefcountsExact ==
  calls = <<>> =>
    \A g \in Gens :
      gen[g].refcount =
        LET held == (IF gen[g].timer THEN 1 ELSE 0) + streams[g] + Cardinality(Children(g))
        IN  IF held = 0 THEN 0 ELSE held + 1

\* The assertion of generateNext: a generator that reached the end of its
\* model, or failed to set a timer, is not asked to generate again.
NoneAfterEnd ==
  calls # <<>> /\ Head(calls).op = "generateNext" =>
    LET r == gen[Head(calls).g] IN ~r.reachedEndState /\ ~r.hasError

One(b) == IF b THEN 1 ELSE 0

\* How many calls of op on g are left to execute.
Num(op, g) == Cardinality({i \in 1 .. Len(calls) : calls[i].op = op /\ calls[i].g = g})

Ended(g) == gen[g].hasError \/ gen[g].reachedEndState

\* The generator holds the reference to itself that it drops when it is done: after all it
\* generated is complete, the next call of onComplete tells whoever listens.
Own(g) == Live(g) /\ (~AllDone(gen[g]) \/ On("onComplete", g))

\* The flows that will still complete.
OpenFlows == {f \in Gens \ {Root} : Own(f)}

\* The streams that will still complete.
OpenStreams == UNION {{g} \X (1 .. streams[g]) : g \in Gens}

\* The call on top brings news of something that completed.
Carries(what) == calls # <<>> /\ <<what, "complete">> \in Head(calls).flags

\* Only timers to set and references to drop are left when a call returns; news of streams
\* reaches any generator, of flows the traffic generator and of traffic only the driver; the
\* action's id comes only to the driver, and when the generator it started is done.
StackInOrder ==
  /\ \A i \in 2 .. Len(calls) : calls[i].op \in {"setTimer", "unref"}
  /\ \A i \in 1 .. Len(calls) :
       /\ calls[i].op \in {"start", "generateNext", "setTimer", "unref"} => calls[i].flags = {}
       /\ calls[i].op \in {"onComplete", "onNotify"} =>
            \A flag \in calls[i].flags :
              flag[1] = "stream" \/ (flag[1] = "flow" /\ gen[calls[i].g].kind = "traffic")
       /\ calls[i].op = "onNotify" => ~AllDone(gen[calls[i].g])
       /\ calls[i].op # "driver" => Live(calls[i].g) /\ ~calls[i].id
       /\ calls[i].op = "driver" /\ ~calls[i].id => Own(Root)

\* A generator that lives is counted right: its references are its own, those of its timer,
\* streams and flows, and those about to be dropped; it has ended, or waits for its timer, or
\* is generating, and only one of the three; and what it generated is complete, or open, or
\* about to be counted as complete.
CountedRight(g) ==
  /\ gen[g].refcount > 0
  /\ gen[g].refcount = One(Own(g)) + One(gen[g].timer) + streams[g] + Cardinality(Children(g))
                         + Num("unref", g)
  /\ One(Ended(g)) + One(gen[g].timer) + One(On("start", g)) + One(On("generateNext", g))
       + Num("setTimer", g) = 1
  /\ IF gen[g].kind = "traffic"
     THEN /\ g = Root /\ streams[g] = 0
          /\ gen[g].numGenerated = gen[g].numCompleted + Cardinality(OpenFlows)
                                     + One(On("onNotify", g) /\ Carries("flow"))
     ELSE gen[g].numGenerated = gen[g].numCompleted + streams[g]
                                  + One(On("onNotify", g) /\ Carries("stream"))

\* Only the traffic generator has flows, and of a generator that was freed nothing is left.
GensInOrder ==
  \A g \in Gens :
    /\ Live(g) => CountedRight(g)
    /\ Live(g) /\ g # Root => gen[g].kind = "flow" /\ gen[Root].kind = "traffic"
    /\ ~Live(g) => gen[g] = Free /\ streams[g] = 0

Pending(w) == totals[w].created - totals[w].success - totals[w].error

\* What the driver counts as pending is what exists, or what the call on top brings news of;
\* and it has continued, or is about to, or the action has not told it yet.
DriverInformed ==
  /\ Pending("traffic") = One(Own(Root) /\ gen[Root].kind = "traffic") + One(Carries("traffic"))
  /\ Pending("flow") = Cardinality({g \in Gens : Own(g) /\ gen[g].kind # "traffic"})
                         + One(Carries("flow"))
  /\ Pending("stream") = Cardinality(OpenStreams) + One(Carries("stream"))
  /\ continued + One(calls # <<>> /\ Head(calls).id) + One(Own(Root)) = 1

\* The generators are in order in every state, also within nested calls: their fields
\* have their types, none is asked to generate after its end, their counts are right, and
\* so are the driver's.
GeneratorInv == TypeOK /\ NoneAfterEnd /\ StackInOrder /\ GensInOrder /\ DriverInformed

\* The heartbeat's unsigned subtractions: between events, what the driver
\* counts as pending is what exists, at each of the three levels.
PendingExact ==
  calls = <<>> =>
    /\ Pending("traffic") = Cardinality({g \in Gens : gen[g].kind = "traffic"})
    /\ Pending("flow") = Cardinality({g \in Gens : gen[g].kind \in {"flow", "stream"}})
    /\ Pending("stream") = Cardinality(OpenStreams)

Activity == INSTANCE TGenActivity WITH open <- Pending("stream"), done <- continued > 0

\* The generators keep what an action promises the driver (TGenActivity).
KeepsPromise == Activity!Spec

\* An action whose models end and whose streams complete is continued after,
\* exactly once, and leaves no generator behind.
WalkContinues == <>[](continued = 1 /\ \A g \in Gens : ~Live(g))
=============================================================================
