----------------------------- MODULE MCTGenGraph -----------------------------
(***************************************************************************)
(* Configurations for TGenGraph.  Units and widths are scaled down: a      *)
(* guint64 holds 64 values, so that times can overflow.                    *)
(***************************************************************************)
EXTENDS TGenGraph

MCByteUnit == "b" :> 1 @@ "kb" :> 3
MCTimeUnit == "s" :> 20 @@ "ms" :> 2

Host(h) == [host |-> h, port |-> 1, named |-> FALSE]
Name(h) == [host |-> h, port |-> 1, named |-> TRUE]
NoPort(h) == [host |-> h, port |-> Unset, named |-> FALSE]
BigPort(h) == [host |-> h, port |-> Max16 + 1, named |-> FALSE]
Size(n, suffix) == [num |-> n, suffix |-> suffix, digits |-> TRUE]
Text0 == [num |-> 0, suffix |-> Unset, digits |-> FALSE]

Edge(v, w) == [from |-> v, to |-> w, weight |-> Unset]
Choice(v, w, n) == [from |-> v, to |-> w, weight |-> n]

None == <<>>
SomePeers == "peers" :> <<Host("A"), Unset, Name("b")>>

Base ==
  [readable |-> TRUE, models |-> {"m"}, env |-> Unset,
   words |-> <<{"start"}, {"stream"}, {"end"}>>,
   attrs |-> <<SomePeers @@ "recvsize" :> Size(2, Unset), "sendsize" :> Size(1, "kb"),
               "count" :> 1>>,
   edges |-> <<Edge(1, 2), Edge(2, 3), Edge(3, 1)>>]

\* Everything that is set for a stream, in one place or the other, or in both.
Options1 ==
  [Base EXCEPT !.attrs =
     <<SomePeers @@ "socksproxy" :> <<Name("p"), Host("Q")>> @@ "socksusername" :> "u"
         @@ "timeout" :> Size(2, Unset) @@ "stallout" :> Size(3, "ms") @@ "sendsize" :> Size(2, "kb"),
       "sockspassword" :> "x" @@ "timeout" :> Size(1, "ms") @@ "sendsize" :> Size(0, Unset)
         @@ "packetmodelpath" :> "m" @@ "packetmodelmode" :> "path",
       "time" :> Size(4, Unset)>>]

Options2 ==
  [Options1 EXCEPT !.attrs[1] = @ @@ "socksauthseed" :> 7 @@ "markovmodelseed" :> 300,
                   !.attrs[2] = @ @@ "peers" :> <<Host("C")>> @@ "socksusername" :> "v"
                                  @@ "markovmodelseed" :> 1]

Options3 ==
  [Options1 EXCEPT !.attrs[2] = @ @@ "socksproxy" :> <<Host("R")>> @@ "peers" :> <<Unset>>]

Environments == {Name("e"), NoPort("E"), BigPort("E")}

\* A flow and a traffic action beside each other, joined by a pause, again and again.
Generators ==
  [Base EXCEPT !.words = <<{"start"}, {"flow"}, {"traffic"}, {"pause"}, {"end"}>>,
               !.attrs = <<SomePeers @@ "streammodelpath" :> "m", "socksproxy" :> <<Host("Q")>>,
                           "flowmodelpath" :> "m" @@ "recvsize" :> Size(1, "b"),
                           "time" :> <<Size(1, "s"), Size(2, "ms")>>, "sendsize" :> Size(9, Unset)>>,
               !.edges = <<Edge(1, 2), Edge(1, 3), Edge(2, 4), Edge(3, 4), Choice(4, 1, 1),
                           Choice(4, 5, 1)>>]

Walks ==
  {[Base EXCEPT !.words = <<{"start"}, {"pause"}, {"pause"}, {"end"}>>,
                !.attrs = <<None, None, "time" :> <<Size(1, Unset)>>, None>>,
                !.edges = edges] :
     edges \in {<<Choice(1, 2, 2), Choice(1, 3, 3), Edge(1, 4), Choice(1, 4, 1)>>,
                <<Choice(1, 4, 1), Choice(1, 2, 0), Choice(1, 3, 2), Edge(3, 3)>>,
                <<Choice(1, 2, 0), Choice(1, 3, 0), Edge(1, 4)>>,
                <<Choice(1, 2, 2), Choice(1, 3, -1), Choice(1, 4, 2)>>,
                <<Choice(1, 2, -2), Choice(1, 3, 1), Edge(1, 4)>>,
                <<Choice(1, 2, 1), Choice(1, 2, 3), Choice(1, 3, 1), Edge(3, 4)>>}}

\* Configurations that are wrong in one place, and some that are strange but accepted.
Odd ==
  {[Base EXCEPT !.readable = FALSE],
   [Base EXCEPT !.edges = <<Edge(1, 2)>>],
   [Base EXCEPT !.edges = @ \o <<Edge(1, 1)>>],
   [Base EXCEPT !.edges[1] = @ @@ "colour" :> "red"],
   [Base EXCEPT !.words[3] = {"other"}],
   [Base EXCEPT !.words[3] = {"start"}, !.attrs[3] = None],
   [Base EXCEPT !.words[2] = {"stream", "end"}],
   [Base EXCEPT !.words[1] = {"flow"}],
   [Base EXCEPT !.attrs[1] = None],
   [Base EXCEPT !.attrs[1] = None, !.words[2] = {"flow"}],
   [Base EXCEPT !.attrs[1] = None, !.attrs[2] = SomePeers],
   [Base EXCEPT !.words = <<{"stream"}, {"start"}>>, !.attrs = <<None, SomePeers>>,
                !.edges = <<Edge(2, 1)>>],
   [Base EXCEPT !.words = <<{"start"}>>, !.attrs = <<None>>, !.edges = <<>>],
   [Base EXCEPT !.words = <<{"start"}>>, !.attrs = <<"serverport" :> 9>>, !.edges = <<>>],
   [Base EXCEPT !.attrs[1] = SomePeers @@ "packetmodelpath" :> "m",
                !.attrs[2] = "packetmodelpath" :> "n"]}

Texts ==
  {"peers" :> <<NoPort("A")>>, "socksproxy" :> <<Host("A"), BigPort("B")>>,
   "sendsize" :> Text0, "recvsize" :> Size(1, "lb"), "sendsize" :> Size(0, "kb"),
   "timeout" :> Size(1, "h"), "stallout" :> Text0, "timeout" :> Size(4, "s"),
   "packetmodelmode" :> "file", "colour" :> "red", "socksauthseed" :> 3}

Malformeds ==
  {[Base EXCEPT !.attrs[2] = t] : t \in Texts}
    \cup {[Base EXCEPT !.attrs[1] = SomePeers @@ t] :
            t \in {"loglevel" :> "loud", "loglevel" :> "info", "heartbeat" :> Size(1, Unset)}}
    \cup {[Base EXCEPT !.words[3] = {"pause"}, !.attrs[3] = "time" :> t] :
            t \in {<<Unset>>, <<Size(1, "ms"), Size(1, "h")>>, Unset}}

MCCases ==
  {Base, Options1, Options2, Options3, Generators} \cup Walks \cup Odd \cup Malformeds
    \cup {[Options1 EXCEPT !.env = e] : e \in Environments}
==============================================================================
