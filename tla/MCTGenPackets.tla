---------------------------- MODULE MCTGenPackets ----------------------------
(***************************************************************************)
(* Markov models and sizes for TLC to check TGenPackets with.              *)
(***************************************************************************)
EXTENDS TGenPackets

V(name, type) == [name |-> name, type |-> type]

T(from, to, weight) ==
  [from |-> from, to |-> to, type |-> "transition", weight |-> weight,
   dist |-> "none", a |-> NaN, b |-> NaN]

E(from, to, weight, dist, a, b) ==
  [from |-> from, to |-> to, type |-> "emission", weight |-> weight,
   dist |-> dist, a |-> a, b |-> b]

\* An emission whose delay is nothing, or at most small, or anything.
E0(from, to) == E(from, to, 1, "uniform", 0, 0)
E1(from, to) == E(from, to, 1, "uniform", 0, 1)
E2(from, to) == E(from, to, 1, "exponential", 1, NaN)

G(vertices, edges) == [typeKey |-> TRUE, vertices |-> vertices, edges |-> edges]

\* A start, two states and the three observations.
Vs == <<V("start", "none"), V("other", "state"), V("other", "state"),
        V("+", "observation"), V("-", "observation"), V("F", "observation")>>

\* Two packets in any directions, the end, and where the next walk starts.
Ends3 == G(Vs, <<T(1, 2, 1), T(2, 3, 1), T(3, 1, 1), E0(2, 4), E1(2, 5), E2(3, 6)>>)
Sequence ==
  G(Append(Vs, V("other", "state")),
    <<T(1, 2, 1), T(2, 3, 1), T(3, 7, 1), E0(2, 4), E2(2, 5), E0(3, 4), E0(3, 5), E0(7, 6)>>)
\* Packets of both directions until the walk happens to end.
Random == G(Vs, <<T(1, 2, 1), T(2, 2, 1), E0(2, 4), E2(2, 5), E1(2, 6)>>)
\* Packets of one direction only, and no packets at all.
OneSided == G(Vs, <<T(1, 2, 1), T(2, 2, 1), E0(2, 4)>>)
Empty == G(Vs, <<>>)
\* An END because there is nothing to choose: no transition, no emission.
Stuck == G(Vs, <<T(1, 2, 1), E0(2, 4)>>)
Mute == G(Vs, <<T(1, 2, 1), T(2, 3, 1), E0(2, 5)>>)
\* The walk goes on after such an END: packets in any directions, and the end.
Late ==
  G(Append(Vs, V("other", "state")),
    <<T(1, 2, 1), T(2, 3, 1), T(3, 7, 1), E0(3, 4), E0(3, 5), E0(7, 6)>>)
\* An edge without weight comes first.
Weightless == G(Vs, <<T(1, 3, 0), T(1, 2, 1), T(2, 3, 1), E0(2, 4), E0(2, 5), E0(3, 6)>>)

\* The models on which a stream without sizes sends finitely many packets.
FiniteWalks == {Ends3, Sequence, Empty, Stuck, Mute, Late, Weightless}
EndlessWalks == {DefaultPacketMarkovModel, Random, OneSided}

\* One emission with any distribution and any parameters.
Distributed ==
  {G(Vs, <<T(1, 2, 1), E(2, 4, 1, d, a, b)>>) :
     d \in Dists, a \in Doubles \cup {NaN}, b \in Doubles \cup {NaN}}

\* One vertex or one edge is not as it should be.
Plain == G(Vs, <<T(1, 2, 1), E0(2, 4)>>)
Flawed ==
  {[Plain EXCEPT !.vertices[i] = V(n, t)] : i \in {1, 2, 4}, n \in Names, t \in VertexTypes}
    \cup {[Plain EXCEPT !.edges[i].type = t, !.edges[i].weight = w] :
            i \in {1, 2}, t \in EdgeTypes, w \in {NaN, -1, 0, 1}}
    \cup {[Plain EXCEPT !.typeKey = FALSE]}

File(g) == [readable |-> TRUE, graph |-> g]

Sizes(s, r) == [sendsize |-> s, recvsize |-> r]

Case(f, s, r) == [file |-> f, client |-> Sizes(s, r), server |-> Sizes(Unset, Unset)]

\* All sizes at both ends.
ServerCases ==
  {[file |-> File(Plain), client |-> Sizes(s, r), server |-> Sizes(t, u)] :
     s \in {Unset, 0, 1}, r \in {Unset, 0, 1}, t \in {Unset, 0, 1}, u \in {Unset, 0, 1}}

\* Both sizes: a packet and a half, less than a packet, nothing.
SizedCases ==
  {Case(File(g), s[1], s[2]) : g \in FiniteWalks \cup EndlessWalks,
                               s \in {<<3, 1>>, <<0, 3>>, <<3, 0>>, <<0, 0>>}}

\* At least one size is not set.
UnsizedCases ==
  {Case(File(g), s[1], s[2]) : g \in FiniteWalks,
     s \in {<<Unset, Unset>>, <<3, Unset>>, <<Unset, 3>>, <<0, Unset>>}}

LoadCases ==
  {Case(File(g), 1, 1) : g \in Distributed \cup Flawed}
    \cup {Case([readable |-> FALSE, graph |-> Plain], 1, 1)}

CasesMC == SizedCases \cup UnsizedCases \cup LoadCases \cup ServerCases
=============================================================================
