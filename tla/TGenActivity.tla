---------------------------- MODULE TGenActivity ----------------------------
(***************************************************************************)
(* What a stream, flow or traffic action promises the driver that started  *)
(* it: the driver hears of streams that are created and of streams that    *)
(* complete, and it is told exactly once to continue its walk through the  *)
(* action graph, in or after the notification that leaves no stream open.  *)
(* Nothing follows.                                                        *)
(***************************************************************************)
EXTENDS Naturals

VARIABLES
  open,  \* streams that the driver was told of and that are not complete
  done   \* the driver was told to continue with the next actions

Init == open = 0 /\ done = FALSE

create ==
  /\ ~done
  /\ open' = open + 1
  /\ UNCHANGED done

\* A stream completes; if no other is open, this may complete the action.
close ==
  /\ ~done
  /\ open > 0
  /\ open' = open - 1
  /\ \/ UNCHANGED done
     \/ open' = 0 /\ done' = TRUE

\* The action ends while no stream is open.
finish ==
  /\ ~done
  /\ open = 0
  /\ done' = TRUE
  /\ UNCHANGED open

Next == create \/ close \/ finish

Spec == Init /\ [][Next]_<<open, done>>
=============================================================================
