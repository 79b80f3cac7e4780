-------------------------- MODULE MCTGenTransport ---------------------------
(* Instances of TGenTransport for TLC.                                      *)
EXTENDS TGenTransport

\* Every way that a connection may go: one without a proxy, and all with one.
AllProxies ==
  {p \in ProxyType :
     p.via \/ (~p.auth /\ Granted(p) /\ p.login /\ p.atype = "IPV4" /\ ~p.split)}

\* Connections that nobody refuses, with answers that arrive whole.
GoodProxies == {p \in AllProxies : Granted(p) /\ ~p.split}
=============================================================================
