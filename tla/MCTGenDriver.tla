---------------------------- MODULE MCTGenDriver ----------------------------
(* Action graphs for TLC.                                                   *)
EXTENDS TGenDriver, TLC

To(a) == [to |-> a, weight |-> Unset]
Weighing(a, w) == [to |-> a, weight |-> w]

NoLimits == [count |-> Unset, sendsize |-> Unset, recvsize |-> Unset, time |-> Unset]

\* start -> two actions in parallel -> pause -> end -> one of two timed pauses,
\* and from there the two actions, or the start action, again.
JoinActions == 0 .. 6
JoinType == <<"stream", "flow", "pause", "end", "pause", "pause">> @@ 0 :> "start"
JoinOut == <<<<To(3)>>, <<To(3)>>, <<To(4)>>, <<Weighing(5, 1), Weighing(6, 2)>>,
             <<To(1), To(2)>>, <<To(0)>>>> @@ 0 :> <<To(1), To(2)>>
JoinTimes == [a \in JoinActions |-> CASE a = 5 -> {0, 1} [] a = 6 -> {1} [] OTHER -> Unset]
JoinLimits == [a \in JoinActions |->
  IF a = 4 THEN [count |-> 2, sendsize |-> 2, recvsize |-> 2, time |-> 1] ELSE NoLimits]
JoinCount == [a \in JoinActions |-> IF a = 4 THEN [NoLimits EXCEPT !.count = 3] ELSE NoLimits]
=============================================================================
