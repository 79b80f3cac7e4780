---------------------------- MODULE MCTGenStream ----------------------------
(***************************************************************************)
(* Instances of TGenStream for TLC: the option pairs and commands that the *)
(* configurations choose from.                                             *)
(***************************************************************************)
EXTENDS TGenStream

Opt(s, r) == [sendsize |-> s, recvsize |-> r]

\* The size options with which both ends can tell that a stream is over.
WorkingOptions == {Opt(2, 1), Opt(Unset, Unset)}

\* One kind of size in each direction: a number, zero, or until the model ends.
MixedOptions == {Opt(1, 1), Opt(0, 1), Opt(1, 0), Opt(Unset, Unset)}

\* A pair that can complete by itself and one that needs the timeout.
EndingOptions == {Opt(1, 1), Opt(1, 0)}

Cmd(a, h, m, p) == [auth |-> a, header |-> h, model |-> m, path |-> p]

GoodCommands == {Cmd(TRUE, TRUE, TRUE, p) : p \in BOOLEAN}

PathCommand == {Cmd(TRUE, TRUE, TRUE, TRUE)}

\* At most one thing is wrong with the command.
OneFlawCommands ==
  GoodCommands \cup {Cmd(FALSE, TRUE, TRUE, TRUE), Cmd(TRUE, FALSE, TRUE, TRUE)}
    \cup {Cmd(TRUE, TRUE, FALSE, p) : p \in BOOLEAN}
=============================================================================
