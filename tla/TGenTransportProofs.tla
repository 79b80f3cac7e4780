------------------------ MODULE TGenTransportProofs -------------------------
(***************************************************************************)
(* Proofs about TGenTransport, for all proxies and all message lengths:    *)
(* TransportInv is inductive, and a stream begins exactly behind the       *)
(* handshake.  Only a transport that the I/O loop holds and that has not   *)
(* opened takes a step (Live), so every action lemma starts from there.    *)
(***************************************************************************)
EXTENDS TGenTransport, TLAPS

Live == registered /\ state # "SUCCESSOPEN"

\* The lengths of the messages, and the states that follow them.
LEMMA Lengths ==
  /\ MessageLen("PROXY_INIT") = 3
  /\ MessageLen("PROXY_AUTHREQUEST") = AuthLen
  /\ MessageLen("PROXY_REQUEST") = RequestLen
  /\ \A m \in Sending : MessageLen(m) \in Nat /\ MessageLen(m) > 0
  /\ NextState("PROXY_INIT") = "PROXY_CHOICE"
  /\ NextState("PROXY_AUTHREQUEST") = "PROXY_AUTHRESPONSE"
  /\ NextState("PROXY_REQUEST") = "PROXY_RESPONSE_STATUS"
BY LengthAssumption DEF MessageLen, NextState, Sending

\* What every receiving state asks for.
LEMMA Amounts ==
  /\ Asked("PROXY_CHOICE") = 2
  /\ Asked("PROXY_AUTHRESPONSE") = 2
  /\ Asked("PROXY_RESPONSE_STATUS") = 2
  /\ Asked("PROXY_RESPONSE_TYPE") = 2
  /\ Asked("PROXY_RESPONSE_TYPE_IPV4") = 6
  /\ Asked("PROXY_RESPONSE_TYPE_NAME_LEN") = 1
  /\ Asked("PROXY_RESPONSE_TYPE_NAME") = NameLen + 3
  /\ \A s \in Receiving : Asked(s) \in Nat
BY LengthAssumption DEF Asked, Receiving

\* The three messages are distinct, and no state both sends and receives.
LEMMA Kinds ==
  /\ \A m \in Sending :
       m = "PROXY_INIT" \/ m = "PROXY_AUTHREQUEST" \/ m = "PROXY_REQUEST"
  /\ \A s \in Receiving : s \notin Sending /\ s # "ERROR" /\ s # "SUCCESSOPEN" /\ s # "CONNECT"
  /\ \A s \in Sending : s \notin Receiving /\ s # "ERROR" /\ s # "SUCCESSOPEN" /\ s # "CONNECT"
  /\ \A m \in Sending : NextState(m) \in Receiving
BY DEF Sending, Receiving, NextState

\* The states in which a message is waited for.
LEMMA AwaitedValues ==
  /\ Awaited("PROXY_CHOICE") = {"PROXY_INIT"}
  /\ Awaited("PROXY_AUTHRESPONSE") = {"PROXY_AUTHREQUEST"}
  /\ Awaited("PROXY_RESPONSE_STATUS") = {"PROXY_REQUEST"}
  /\ \A s : s \notin {"PROXY_CHOICE", "PROXY_AUTHRESPONSE", "PROXY_RESPONSE_STATUS"}
       => Awaited(s) = {}
BY Lengths DEF Awaited, Sending

\* The messages settled in every state of a handshake.
LEMMA SettledValues ==
  /\ \A s \in {"CONNECT", "PROXY_INIT", "PROXY_CHOICE"} : Settled(s) = {}
  /\ \A s \in {"PROXY_AUTHREQUEST", "PROXY_AUTHRESPONSE"} : Settled(s) = {"PROXY_INIT"}
  /\ \A s \in {"PROXY_REQUEST", "PROXY_RESPONSE_STATUS"} :
       Settled(s) = {"PROXY_INIT"} \cup (IF proxy.auth THEN {"PROXY_AUTHREQUEST"} ELSE {})
  /\ \A s \in {"PROXY_RESPONSE_TYPE", "PROXY_RESPONSE_TYPE_IPV4",
               "PROXY_RESPONSE_TYPE_NAME_LEN", "PROXY_RESPONSE_TYPE_NAME", "SUCCESSOPEN"} :
       Settled(s) = {"PROXY_INIT", "PROXY_REQUEST"}
                      \cup (IF proxy.auth THEN {"PROXY_AUTHREQUEST"} ELSE {})
BY DEF Settled, Sending

\* The bytes to be read in every state.
LEMMA UnreadValues ==
  /\ Unread("PROXY_CHOICE") = 2
  /\ Unread("PROXY_AUTHRESPONSE") = 2
  /\ Unread("PROXY_RESPONSE_STATUS") = AnswerLen("PROXY_REQUEST")
  /\ Unread("PROXY_RESPONSE_TYPE") = AnswerLen("PROXY_REQUEST") - 2
  /\ Unread("PROXY_RESPONSE_TYPE_IPV4") = 6
  /\ Unread("PROXY_RESPONSE_TYPE_NAME_LEN") = NameLen + 3
  /\ Unread("PROXY_RESPONSE_TYPE_NAME") = NameLen + 3
  /\ \A s : s \notin Receiving => Unread(s) = 0
BY DEF Unread, Receiving

\* The lengths of the proxy's answers.
LEMMA Answers ==
  /\ AnswerLen("PROXY_INIT") = 2
  /\ AnswerLen("PROXY_AUTHREQUEST") = 2
  /\ ~proxy.status => AnswerLen("PROXY_REQUEST") = 2
  /\ proxy.status /\ proxy.atype = "IPV4" => AnswerLen("PROXY_REQUEST") = 10
  /\ proxy.status /\ proxy.atype = "NAME" => AnswerLen("PROXY_REQUEST") = NameLen + 7
  /\ proxy.status /\ proxy.atype = "OTHER" => AnswerLen("PROXY_REQUEST") = 4
BY LengthAssumption DEF AnswerLen

\* The proxy is of its type, and its answers have lengths.
LEMMA ProxyFacts ==
  ASSUME proxy \in Proxies
  PROVE  /\ proxy \in ProxyType
         /\ proxy.atype \in {"IPV4", "NAME", "OTHER"}
         /\ \A m \in Sending : AnswerLen(m) \in Nat
<1>1. proxy \in ProxyType
  BY ProxiesAssumption
<1>2. proxy.atype \in {"IPV4", "NAME", "OTHER"}
  BY <1>1 DEF ProxyType
<1> QED
  BY <1>1, <1>2, Answers, LengthAssumption DEF Sending
-----------------------------------------------------------------------------
(* The initial states.                                                      *)

\* A transport starts in the invariant.
LEMMA InitKeeps == Init => TransportInv
<1> SUFFICES ASSUME Init PROVE TransportInv
  OBVIOUS
<1>1. TypeOK
  <2>1. wrote \in [Sending -> Nat] /\ \A m \in Sending : wrote[m] <= MessageLen(m)
    BY Lengths DEF Init
  <2>2. ev \subseteq {"READ", "WRITE", "DONE", "IDLE"} /\ watch \subseteq {"READ", "WRITE"}
    BY DEF Init, Idle
  <2>3. {registered, note, progress, connected, reset, eof} \subseteq BOOLEAN
    BY DEF Init
  <2> QED
    BY <2>1, <2>2, <2>3 DEF Init, TypeOK, States, Errors, None
<1>2. BufferIsOwn
  BY DEF Init, BufferIsOwn, None, Sending, Receiving
<1>3. HandshakeInOrder
  <2>1. GrantedUpTo("CONNECT")
    BY SettledValues DEF GrantedUpTo
  <2> QED
    BY <2>1, SettledValues, AwaitedValues, UnreadValues, Kinds
    DEF Init, HandshakeInOrder, None, Sending, Receiving
<1> QED
  BY <1>1, <1>2, <1>3 DEF TransportInv
-----------------------------------------------------------------------------
(* Events in and out.                                                       *)

\* What is returned to the I/O loop keeps the types of what it decides.
LEMMA ReturnKeeps ==
  ASSUME TypeOK, NEW wanted \in SUBSET {"READ", "WRITE", "DONE"}, Return(wanted)
  PROVE  /\ ev' \subseteq {"READ", "WRITE", "DONE", "IDLE"}
         /\ watch' \subseteq {"READ", "WRITE"}
         /\ registered' \in BOOLEAN /\ note' \in BOOLEAN /\ progress' \in BOOLEAN
         /\ registered' => wanted # {}
<1>1. CASE "DONE" \in wanted
  BY <1>1 DEF Return, TypeOK, Idle
<1>2. CASE "DONE" \notin wanted
  BY <1>2 DEF Return, TypeOK, Idle
<1> QED
  BY <1>1, <1>2

\* The parts of a step that say nothing about the handshake.
LEMMA SameHandshake ==
  ASSUME TransportInv, Live,
         UNCHANGED <<proxy, state, buf, wrote, answered, coming, avail>>
  PROVE  BufferIsOwn' /\ HandshakeInOrder'
<1>1. /\ \A s : Settled(s)' = Settled(s)
      /\ \A s : Awaited(s)' = Awaited(s)
      /\ \A s : Unread(s)' = Unread(s)
      /\ \A s : GrantedUpTo(s)' = GrantedUpTo(s)
  BY DEF Settled, Awaited, Unread, AnswerLen, GrantedUpTo, NextState
<1> QED
  BY <1>1 DEF TransportInv, BufferIsOwn, HandshakeInOrder, Live, Held, MessageLen, Asked,
    None

\* A step that leaves the network alone and ends the event keeps the types.
LEMMA ReturnTypes ==
  ASSUME TypeOK, NEW wanted \in SUBSET {"READ", "WRITE", "DONE"}, Return(wanted),
         UNCHANGED <<proxy, connected, reset, eof>>,
         state' \in States, error' \in Errors, buf' \in Nat \cup {None},
         wrote' \in [Sending -> Nat] /\ \A m \in Sending : wrote'[m] <= MessageLen(m),
         answered' \subseteq Sending, coming' \in Nat, avail' \in Nat
  PROVE  TypeOK'
<1>1. {registered, note, progress, connected, reset, eof}' \subseteq BOOLEAN
  BY ReturnKeeps DEF TypeOK
<1>2. \A m : MessageLen(m)' = MessageLen(m)
  BY DEF MessageLen
<1> QED
  BY <1>1, <1>2, ReturnKeeps DEF TypeOK

\* A step that goes on in the same event keeps the types.
LEMMA ContinueTypes ==
  ASSUME TypeOK, Continue, UNCHANGED <<proxy, connected, wrote, answered, coming, reset, eof>>,
         state' \in States, error' \in Errors, buf' \in Nat \cup {None}, avail' \in Nat
  PROVE  TypeOK'
<1>1. \A m : MessageLen(m)' = MessageLen(m)
  BY DEF MessageLen
<1> QED
  BY <1>1 DEF TypeOK, Continue

\* An event that epoll reports.
LEMMA OnEventKeeps == TransportInv /\ Live /\ onEvent => TransportInv'
<1> SUFFICES ASSUME TransportInv, Live, onEvent PROVE TransportInv'
  OBVIOUS
<1>1. ev' \subseteq {"READ", "WRITE", "DONE", "IDLE"}
  BY DEF onEvent
<1>2. TypeOK'
  BY <1>1 DEF onEvent, network, TransportInv, TypeOK, MessageLen
<1> QED
  BY <1>2, SameHandshake DEF onEvent, network, TransportInv

\* An event that the state does not wait for.
LEMMA WaitsKeeps == TransportInv /\ Live /\ waits => TransportInv'
<1> SUFFICES ASSUME TransportInv, Live, waits PROVE TransportInv'
  OBVIOUS
<1>1. PICK s \in Sending \cup Receiving :
        /\ Handling(s)
        /\ Return({IF s \in Sending THEN "WRITE" ELSE "READ"})
        /\ UNCHANGED <<state, error, buf, network>>
  BY DEF waits
<1>2. TypeOK'
  BY <1>1, ReturnTypes DEF Handling, network, TransportInv, TypeOK
<1> QED
  BY <1>1, <1>2, SameHandshake DEF Handling, network, TransportInv

\* A failure ends the handshake: nothing is left to keep in order.
LEMMA FailKeeps ==
  ASSUME TransportInv, Live, NEW err \in Errors, Fail(err),
         UNCHANGED <<proxy, connected, wrote, answered, coming, reset, eof>>,
         buf' = None, avail' \in Nat
  PROVE  TransportInv'
<1>1. state' = "ERROR" /\ error' = err /\ ~registered'
  BY DEF Fail, Return
<1>2. TypeOK'
  BY <1>1, ReturnTypes DEF Fail, TransportInv, TypeOK, States
<1>3. BufferIsOwn' /\ HandshakeInOrder'
  BY <1>1, Kinds DEF TransportInv, BufferIsOwn, HandshakeInOrder, None
<1> QED
  BY <1>2, <1>3 DEF TransportInv

\* The connection is there, or it failed.
LEMMA ConnectKeeps == TransportInv /\ Live /\ connect => TransportInv'
<1> SUFFICES ASSUME TransportInv, Live, connect PROVE TransportInv'
  OBVIOUS
<1> USE DEF Handling, network
<1>0. state = "CONNECT" /\ UNCHANGED <<proxy, buf, connected, wrote, answered, coming, avail,
                                       reset, eof>>
  BY DEF connect
<1>1. CASE "DONE" \in ev
  BY <1>0, <1>1, FailKeeps, Kinds
  DEF connect, Errors, TransportInv, TypeOK, BufferIsOwn, Sending, Receiving
<1>2. CASE "DONE" \notin ev /\ "WRITE" \notin ev
  <2>1. Return({"WRITE"}) /\ UNCHANGED <<state, error>>
    BY <1>2 DEF connect
  <2>2. TypeOK'
    BY <1>0, <2>1, ReturnTypes DEF TransportInv, TypeOK
  <2> QED
    BY <1>0, <2>1, <2>2, SameHandshake DEF TransportInv
<1>3. CASE "DONE" \notin ev /\ "WRITE" \in ev /\ proxy.via
  <2>1. state' = "PROXY_INIT" /\ Continue /\ UNCHANGED error
    BY <1>3 DEF connect
  <2>2. TypeOK'
    BY <1>0, <2>1, ContinueTypes DEF TransportInv, TypeOK, States, Sending
  <2>3. buf = None
    BY <1>0, Kinds DEF TransportInv, BufferIsOwn
  <2>4. /\ GrantedUpTo(state) /\ answered = {} /\ coming + avail = 0
        /\ \A m \in Sending : wrote[m] = 0
    BY <1>0, <1>3, SettledValues, AwaitedValues, UnreadValues, Kinds
    DEF TransportInv, HandshakeInOrder, Live, TypeOK, Sending, Receiving
  <2>5. BufferIsOwn'
    BY <2>1, <2>3, <2>4, <1>0, Lengths
    DEF BufferIsOwn, None, Sending, Receiving, MessageLen
  <2>6. GrantedUpTo(state)'
    BY <2>1, <1>0, SettledValues DEF GrantedUpTo, Settled, Sending
  <2>7. HandshakeInOrder'
    BY <1>3, <2>1, <2>4, <2>6, <1>0, SettledValues, AwaitedValues, UnreadValues
    DEF HandshakeInOrder, Sending, Receiving, Settled, Awaited, Unread, NextState
  <2> QED
    BY <2>2, <2>5, <2>7 DEF TransportInv
<1>4. CASE "DONE" \notin ev /\ "WRITE" \in ev /\ ~proxy.via
  <2>1. state' = "SUCCESSOPEN" /\ Return({"DONE"}) /\ UNCHANGED error
    BY <1>4 DEF connect
  <2>2. TypeOK'
    BY <1>0, <2>1, ReturnTypes DEF TransportInv, TypeOK, States
  <2>3. BufferIsOwn' /\ HandshakeInOrder'
    BY <1>0, <1>4, <2>1, Kinds DEF TransportInv, BufferIsOwn, HandshakeInOrder
  <2> QED
    BY <2>2, <2>3 DEF TransportInv
<1> QED
  BY <1>1, <1>2, <1>3, <1>4 DEF connect
-----------------------------------------------------------------------------
(* Sending.                                                                 *)

\* What the handshake knows while it sends a message: the message before it is
\* settled, this one is not answered, and nothing is to be read.
LEMMA WhileSending ==
  ASSUME TransportInv, Live, NEW s \in Sending, state = s
  PROVE  /\ proxy.via
         /\ GrantedUpTo(s)
         /\ answered = Settled(s)
         /\ \A m \in Sending \ {s} : wrote[m] = IF m \in Settled(s) THEN MessageLen(m) ELSE 0
         /\ coming = 0 /\ avail = 0
         /\ s \notin Settled(s)
<1>1. Awaited(s) = {} /\ Unread(s) = 0 /\ s \notin Receiving /\ s # "SUCCESSOPEN"
  BY Kinds, AwaitedValues, UnreadValues
<1>2. coming + avail = 0
  BY <1>1 DEF TransportInv, HandshakeInOrder, Live, TypeOK
<1>3. coming = 0 /\ avail = 0
  BY <1>2 DEF TransportInv, TypeOK
<1>4. s \notin Settled(s)
  BY DEF Settled, Sending
<1>5. /\ proxy.via /\ GrantedUpTo(s) /\ answered = Settled(s)
      /\ \A m \in Sending \ {s} : wrote[m] = IF m \in Settled(s) THEN MessageLen(m) ELSE 0
  BY <1>1 DEF TransportInv, HandshakeInOrder, Live
<1> QED
  BY <1>3, <1>4, <1>5

\* The handshake in the state behind the message s, before its answer.
LEMMA SentInOrder ==
  ASSUME NEW s \in Sending, GrantedUpTo(s)
  PROVE  /\ GrantedUpTo(NextState(s))
         /\ Settled(NextState(s)) = Settled(s)
         /\ Awaited(NextState(s)) = {s}
<1>1. CASE s = "PROXY_INIT"
  BY <1>1, Lengths, SettledValues, AwaitedValues DEF GrantedUpTo
<1>2. CASE s = "PROXY_AUTHREQUEST"
  BY <1>2, Lengths, SettledValues, AwaitedValues DEF GrantedUpTo
<1>3. CASE s = "PROXY_REQUEST"
  BY <1>3, Lengths, SettledValues, AwaitedValues DEF GrantedUpTo
<1> QED
  BY <1>1, <1>2, <1>3, Kinds

\* The tables of the handshake depend on the proxy alone.
LEMMA SameTables ==
  ASSUME UNCHANGED proxy
  PROVE  /\ \A s : Settled(s)' = Settled(s)
         /\ \A s : Awaited(s)' = Awaited(s)
         /\ \A s : Unread(s)' = Unread(s)
         /\ \A s : GrantedUpTo(s)' = GrantedUpTo(s)
         /\ \A s : MessageLen(s)' = MessageLen(s)
         /\ \A s : Asked(s)' = Asked(s)
BY DEF Settled, Awaited, Unread, AnswerLen, GrantedUpTo, NextState, MessageLen, Asked

\* A message, or what is left of it, is written as far as the socket takes it.
LEMMA SendSocksKeeps ==
  ASSUME TransportInv, Live, NEW s \in Sending, sendSocks(s)
  PROVE  TransportInv'
<1> DEFINE len == IF buf = None THEN MessageLen(s) ELSE buf
<1>0. /\ state = s /\ UNCHANGED <<proxy, connected, answered, coming, avail, reset, eof>>
      /\ avail \in Nat
  BY DEF sendSocks, Handling, TransportInv, TypeOK
<1>1. CASE reset
  <2>1. Fail("WRITE") /\ buf' = None /\ UNCHANGED wrote
    BY <1>1 DEF sendSocks
  <2>2. avail' \in Nat /\ "WRITE" \in Errors
    BY <1>0 DEF Errors
  <2> QED
    BY <1>0, <2>1, <2>2, FailKeeps
<1>2. CASE ~reset
  <2>1. PICK n \in 1 .. len :
          /\ wrote' = [wrote EXCEPT ![s] = @ + n]
          /\ IF n = len THEN buf' = None /\ state' = NextState(s) /\ Return({"READ"})
             ELSE buf' = len - n /\ UNCHANGED state /\ Return({"WRITE"})
          /\ UNCHANGED error
    BY <1>2 DEF sendSocks
  <2>2. /\ len \in Nat /\ len > 0 /\ wrote \in [Sending -> Nat] /\ wrote[s] + len = MessageLen(s)
        /\ MessageLen(s) \in Nat
    BY <1>0, Lengths DEF TransportInv, TypeOK, BufferIsOwn, None
  <2>3. /\ wrote' \in [Sending -> Nat]
        /\ wrote'[s] = wrote[s] + n
        /\ \A m \in Sending \ {s} : wrote'[m] = wrote[m]
    BY <2>1, <2>2
  <2>4. \A m \in Sending : wrote'[m] <= MessageLen(m)
    BY <2>1, <2>2, <2>3, Lengths DEF TransportInv, TypeOK
  <2>5. CASE n = len
    <3>1. buf' = None /\ state' = NextState(s) /\ Return({"READ"})
      BY <2>1, <2>5
    <3>2. state' \in Receiving /\ state' \in States
      BY <3>1, Kinds DEF States
    <3>3. TypeOK'
      BY <1>0, <2>1, <2>3, <2>4, <3>1, <3>2, ReturnTypes DEF TransportInv, TypeOK
    <3>4. BufferIsOwn'
      BY <3>1, <3>2, Kinds DEF BufferIsOwn, None
    <3>5. wrote'[s] = MessageLen(s)
      BY <2>2, <2>3, <2>5
    <3>6. \A m \in Sending : wrote'[m] = IF m \in Settled(s) \cup {s} THEN MessageLen(m) ELSE 0
      BY <1>0, <2>3, <3>5, WhileSending
    <3>7. HandshakeInOrder'
      BY <1>0, <3>1, <3>2, <3>6, WhileSending, SentInOrder, SameTables, Kinds
      DEF HandshakeInOrder, Held, None
    <3> QED
      BY <3>3, <3>4, <3>7 DEF TransportInv
  <2>6. CASE n # len
    <3>1. buf' = len - n /\ state' = s /\ Return({"WRITE"})
      BY <1>0, <2>1, <2>6
    <3>2. len - n \in Nat /\ len - n # 0 /\ len - n # None
      BY <2>1, <2>2, <2>6 DEF None
    <3>3. TypeOK'
      BY <1>0, <2>1, <2>3, <2>4, <3>1, <3>2, ReturnTypes DEF TransportInv, TypeOK
    <3>4. BufferIsOwn'
      BY <2>2, <2>3, <3>1, <3>2, Kinds, SameTables, <1>0 DEF BufferIsOwn
    <3>5. HandshakeInOrder'
      <4>1. Awaited(s) = {} /\ Unread(s) = 0 /\ s \notin Receiving
        BY Kinds, AwaitedValues, UnreadValues
      <4> QED
        BY <1>0, <2>3, <3>1, <4>1, WhileSending, SameTables, Kinds DEF HandshakeInOrder
    <3> QED
      BY <3>3, <3>4, <3>5 DEF TransportInv
  <2> QED
    BY <2>5, <2>6
<1> QED
  BY <1>1, <1>2
-----------------------------------------------------------------------------
(* Receiving.                                                               *)

\* What the handshake knows while it reads an answer.
LEMMA WhileReceiving ==
  ASSUME TransportInv, Live, NEW s \in Receiving, state = s
  PROVE  /\ proxy.via
         /\ GrantedUpTo(s)
         /\ Settled(s) \subseteq answered /\ answered \subseteq Settled(s) \cup Awaited(s)
         /\ \A m \in Sending :
              wrote[m] = IF m \in Settled(s) \cup Awaited(s) THEN MessageLen(m) ELSE 0
         /\ coming + avail + Held = IF Awaited(s) \subseteq answered THEN Unread(s) ELSE 0
         /\ Held \in Nat /\ Held < Asked(s) /\ Asked(s) \in Nat
         /\ avail \in Nat /\ coming \in Nat
<1>1. /\ proxy.via /\ GrantedUpTo(s)
      /\ Settled(s) \subseteq answered /\ answered \subseteq Settled(s) \cup Awaited(s)
  BY DEF TransportInv, HandshakeInOrder, Live
<1>2. \A m \in Sending :
        wrote[m] = IF m \in Settled(s) \cup Awaited(s) THEN MessageLen(m) ELSE 0
  BY <1>1, Kinds DEF TransportInv, HandshakeInOrder, Live
<1>3. coming + avail + Held = IF Awaited(s) \subseteq answered THEN Unread(s) ELSE 0
  BY <1>1 DEF TransportInv, HandshakeInOrder, Live
<1>4. Asked(s) \in Nat /\ Asked(s) > 0
  BY LengthAssumption, Amounts DEF Receiving
<1>5. Held \in Nat /\ Held < Asked(s)
  BY <1>4 DEF TransportInv, BufferIsOwn, TypeOK, Held, None
<1> QED
  BY <1>1, <1>2, <1>3, <1>4, <1>5 DEF TransportInv, TypeOK

\* An answer that fails, or that has not arrived as a whole.
LEMMA ReceiveFailsKeeps ==
  ASSUME TransportInv, Live, NEW s \in Receiving, ReceiveFails(s)
  PROVE  TransportInv'
<1>0. /\ state = s /\ Held + avail < Asked(s) /\ avail' = 0
      /\ UNCHANGED <<proxy, connected, wrote, answered, coming, reset, eof>>
  BY DEF ReceiveFails, Handling
<1>1. CASE avail > 0
  <2>1. buf' = Held + avail /\ Return({"READ"}) /\ UNCHANGED <<state, error>>
    BY <1>1 DEF ReceiveFails
  <2>2. Held + avail \in Nat /\ Held + avail # 0 /\ Held + avail # None /\ avail \in Nat
    BY <1>0, <1>1, WhileReceiving DEF None
  <2>3. TypeOK'
    BY <1>0, <2>1, <2>2, ReturnTypes DEF TransportInv, TypeOK
  <2>4. BufferIsOwn'
    BY <1>0, <2>1, <2>2, SameTables, Kinds DEF BufferIsOwn
  <2>5. Held' = Held + avail
    BY <2>1, <2>2 DEF Held
  <2>6. HandshakeInOrder'
    BY <1>0, <2>1, <2>2, <2>5, WhileReceiving, SameTables, Kinds DEF HandshakeInOrder
  <2> QED
    BY <2>3, <2>4, <2>6 DEF TransportInv
<1>2. CASE ~(avail > 0) /\ (reset \/ eof)
  BY <1>0, <1>2, FailKeeps DEF ReceiveFails, Fail, Errors
<1>3. CASE ~(avail > 0) /\ ~(reset \/ eof)
  <2>1. buf' = None /\ Return({}) /\ UNCHANGED <<state, error>>
    BY <1>3 DEF ReceiveFails
  <2>2. ~registered'
    BY <2>1 DEF Return
  <2>3. TypeOK'
    BY <1>0, <2>1, ReturnTypes DEF TransportInv, TypeOK
  <2>4. BufferIsOwn' /\ HandshakeInOrder'
    BY <1>0, <2>1, <2>2, WhileReceiving, Kinds
    DEF BufferIsOwn, HandshakeInOrder, None
  <2> QED
    BY <2>3, <2>4 DEF TransportInv
<1> QED
  BY <1>1, <1>2, <1>3

\* A part of an answer that was read completely: it was the awaited one, and what
\* is left of it is what the handshake has yet to take.
LEMMA ReceivedFacts ==
  ASSUME TransportInv, Live, NEW s \in Receiving, Receive(s)
  PROVE  /\ state = s /\ buf' = None
         /\ UNCHANGED <<proxy, connected, wrote, answered, coming, reset, eof>>
         /\ answered = Settled(s) \cup Awaited(s)
         /\ avail' \in Nat /\ coming + avail' = Unread(s) - Asked(s)
         /\ Unread(s) \in Int
<1>1. /\ state = s /\ buf' = None /\ Held + avail >= Asked(s)
      /\ avail' = avail - (Asked(s) - Held)
      /\ UNCHANGED <<proxy, connected, wrote, answered, coming, reset, eof>>
  BY DEF Receive, Handling
<1>2. Awaited(s) \subseteq answered
  BY <1>1, WhileReceiving
<1>3. Unread(s) = coming + avail + Held
  BY <1>1, <1>2, WhileReceiving
<1> QED
  BY <1>1, <1>2, <1>3, WhileReceiving

\* A handshake that goes on from s to t, once t is known to be in order.
LEMMA GoesOnTo ==
  ASSUME TransportInv, Live, NEW s \in Receiving, Receive(s),
         NEW t \in States, state' = t, t # "ERROR", t # s, TypeOK',
         GrantedUpTo(t), Awaited(t) = {},
         Settled(t) = Settled(s) \cup Awaited(s), Unread(t) = Unread(s) - Asked(s)
  PROVE  TransportInv'
<1>1. /\ \A m \in Sending : wrote'[m] = IF m \in Settled(t) THEN MessageLen(m) ELSE 0
      /\ proxy.via
  BY ReceivedFacts, WhileReceiving
<1>2. BufferIsOwn'
  <2>1. t \in Sending => t \notin Settled(t)
    BY DEF Settled, Sending
  <2> QED
    BY <1>1, <2>1, ReceivedFacts, SameTables, Lengths DEF BufferIsOwn, None
<1>3. HandshakeInOrder'
  BY <1>1, ReceivedFacts, WhileReceiving, SameTables DEF HandshakeInOrder, Held
<1> QED
  BY <1>2, <1>3 DEF TransportInv

\* The choice of the proxy.
LEMMA ReceiveSocksChoiceKeeps == TransportInv /\ Live /\ receiveSocksChoice => TransportInv'
<1> DEFINE s == "PROXY_CHOICE"
           t == IF proxy.auth THEN "PROXY_AUTHREQUEST" ELSE "PROXY_REQUEST"
<1> SUFFICES ASSUME TransportInv, Live, receiveSocksChoice, Receive(s) PROVE TransportInv'
  BY ReceiveFailsKeeps DEF receiveSocksChoice, Receiving
<1>0. s \in Receiving /\ ~ReceiveFails(s)
  BY WhileReceiving DEF Receiving, Receive, ReceiveFails, Handling
<1>1. CASE ~proxy.choice
  BY <1>0, <1>1, FailKeeps, ReceivedFacts DEF receiveSocksChoice, Errors
<1>2. CASE proxy.choice
  <2>1. state' = t /\ Return({"WRITE"}) /\ UNCHANGED error
    BY <1>0, <1>2 DEF receiveSocksChoice
  <2>2. t \in States /\ t # "ERROR" /\ t # s
    BY DEF States, Sending
  <2>3. TypeOK'
    BY <1>0, <2>1, <2>2, ReceivedFacts, ReturnTypes DEF TransportInv, TypeOK
  <2>4. /\ GrantedUpTo(t) /\ Awaited(t) = {}
        /\ Settled(t) = Settled(s) \cup Awaited(s) /\ Unread(t) = Unread(s) - Asked(s)
    BY <1>2, SettledValues, AwaitedValues, UnreadValues, Amounts DEF GrantedUpTo, Receiving
  <2> HIDE DEF s, t
  <2> QED
    BY <1>0, <2>1, <2>2, <2>3, <2>4, GoesOnTo
<1> QED
  BY <1>1, <1>2

\* The answer to the username and password.
LEMMA ReceiveSocksAuthKeeps == TransportInv /\ Live /\ receiveSocksAuth => TransportInv'
<1> DEFINE s == "PROXY_AUTHRESPONSE"
           t == "PROXY_REQUEST"
<1> SUFFICES ASSUME TransportInv, Live, receiveSocksAuth, Receive(s) PROVE TransportInv'
  BY ReceiveFailsKeeps DEF receiveSocksAuth, Receiving
<1>0. s \in Receiving /\ ~ReceiveFails(s)
  BY WhileReceiving DEF Receiving, Receive, ReceiveFails, Handling
<1>1. CASE ~proxy.login
  BY <1>0, <1>1, FailKeeps, ReceivedFacts DEF receiveSocksAuth, Errors
<1>2. CASE proxy.login
  <2>1. state' = t /\ Return({"WRITE"}) /\ UNCHANGED error
    BY <1>0, <1>2 DEF receiveSocksAuth
  <2>2. t \in States /\ t # "ERROR" /\ t # s
    BY DEF States, Sending
  <2>3. TypeOK'
    BY <1>0, <2>1, <2>2, ReceivedFacts, ReturnTypes DEF TransportInv, TypeOK
  <2>4. GrantedUpTo(s)
    BY <1>0, WhileReceiving DEF Receive, Handling
  <2>5. /\ GrantedUpTo(t) /\ Awaited(t) = {}
        /\ Settled(t) = Settled(s) \cup Awaited(s) /\ Unread(t) = Unread(s) - Asked(s)
    BY <1>2, <2>4, SettledValues, AwaitedValues, UnreadValues, Amounts DEF GrantedUpTo, Receiving
  <2> HIDE DEF s, t
  <2> QED
    BY <1>0, <2>1, <2>2, <2>3, <2>5, GoesOnTo
<1> QED
  BY <1>1, <1>2

\* The verdict on the connection request; the rest of the answer follows in the same event.
LEMMA ReceiveSocksResponseStatusKeeps ==
  TransportInv /\ Live /\ receiveSocksResponseStatus => TransportInv'
<1> DEFINE s == "PROXY_RESPONSE_STATUS"
           t == "PROXY_RESPONSE_TYPE"
<1> SUFFICES ASSUME TransportInv, Live, receiveSocksResponseStatus, Receive(s)
             PROVE  TransportInv'
  BY ReceiveFailsKeeps DEF receiveSocksResponseStatus, Receiving
<1>0. s \in Receiving /\ ~ReceiveFails(s)
  BY WhileReceiving DEF Receiving, Receive, ReceiveFails, Handling
<1>1. CASE ~proxy.status
  BY <1>0, <1>1, FailKeeps, ReceivedFacts DEF receiveSocksResponseStatus, Errors
<1>2. CASE proxy.status
  <2>1. state' = t /\ Continue /\ UNCHANGED error
    BY <1>0, <1>2 DEF receiveSocksResponseStatus
  <2>2. t \in States /\ t # "ERROR" /\ t # s
    BY DEF States, Receiving
  <2>3. TypeOK'
    BY <1>0, <2>1, <2>2, ReceivedFacts, ContinueTypes DEF TransportInv, TypeOK
  <2>4. GrantedUpTo(s)
    BY <1>0, WhileReceiving DEF Receive, Handling
  <2>5. /\ GrantedUpTo(t) /\ Awaited(t) = {}
        /\ Settled(t) = Settled(s) \cup Awaited(s) /\ Unread(t) = Unread(s) - Asked(s)
    BY <1>2, <2>4, SettledValues, AwaitedValues, UnreadValues, Amounts DEF GrantedUpTo, Receiving
  <2> HIDE DEF s, t
  <2> QED
    BY <1>0, <2>1, <2>2, <2>3, <2>5, GoesOnTo
<1> QED
  BY <1>1, <1>2

\* The type of the address.
LEMMA ReceiveSocksResponseTypeKeeps ==
  TransportInv /\ Live /\ receiveSocksResponseType => TransportInv'
<1> DEFINE s == "PROXY_RESPONSE_TYPE"
           t == IF proxy.atype = "IPV4" THEN "PROXY_RESPONSE_TYPE_IPV4"
                ELSE "PROXY_RESPONSE_TYPE_NAME_LEN"
<1> SUFFICES ASSUME TransportInv, Live, receiveSocksResponseType, Receive(s)
             PROVE  TransportInv'
  BY ReceiveFailsKeeps DEF receiveSocksResponseType, Receiving
<1>0. s \in Receiving /\ ~ReceiveFails(s)
  BY WhileReceiving DEF Receiving, Receive, ReceiveFails, Handling
<1>1. CASE proxy.atype = "OTHER"
  BY <1>0, <1>1, FailKeeps, ReceivedFacts DEF receiveSocksResponseType, Errors
<1>2. CASE proxy.atype # "OTHER"
  <2>1. state' = t /\ Continue /\ UNCHANGED error
    BY <1>0, <1>2 DEF receiveSocksResponseType
  <2>2. t \in States /\ t # "ERROR" /\ t # s
    BY DEF States, Receiving
  <2>3. TypeOK'
    BY <1>0, <2>1, <2>2, ReceivedFacts, ContinueTypes DEF TransportInv, TypeOK
  <2>4. GrantedUpTo(s)
    BY <1>0, WhileReceiving DEF Receive, Handling
  <2>5. proxy.atype = "IPV4" \/ proxy.atype = "NAME"
    BY <1>2, ProxyFacts DEF TransportInv, TypeOK
  <2>6. proxy.status
    BY <2>4, SettledValues DEF GrantedUpTo
  <2>7. Unread(t) = Unread(s) - Asked(s)
    BY <2>5, <2>6, UnreadValues, Amounts, Answers, LengthAssumption
  <2>8. GrantedUpTo(t) /\ Awaited(t) = {} /\ Settled(t) = Settled(s) \cup Awaited(s)
    BY <2>4, <2>5, SettledValues, AwaitedValues DEF GrantedUpTo
  <2> HIDE DEF s, t
  <2> QED
    BY <1>0, <2>1, <2>2, <2>3, <2>7, <2>8, GoesOnTo
<1> QED
  BY <1>1, <1>2

\* The address, or the name, and the port: the last bytes of the handshake.
LEMMA OpensKeeps ==
  ASSUME TransportInv, Live, Opens,
         NEW s \in {"PROXY_RESPONSE_TYPE_IPV4", "PROXY_RESPONSE_TYPE_NAME"}, Receive(s)
  PROVE  TransportInv'
<1> DEFINE t == "SUCCESSOPEN"
<1>0. s \in Receiving
  BY DEF Receiving
<1>1. state' = t /\ Return({"DONE"}) /\ UNCHANGED error
  BY DEF Opens
<1>2. t \in States /\ t # "ERROR" /\ t # s
  BY DEF States
<1>3. TypeOK'
  BY <1>0, <1>1, <1>2, ReceivedFacts, ReturnTypes DEF TransportInv, TypeOK
<1>4. GrantedUpTo(s)
  BY <1>0, WhileReceiving DEF Receive, Handling
<1>5. /\ GrantedUpTo(t) /\ Awaited(t) = {}
      /\ Settled(t) = Settled(s) \cup Awaited(s)
  BY <1>4, SettledValues, AwaitedValues DEF GrantedUpTo
<1>6. Unread(t) = Unread(s) - Asked(s)
  BY UnreadValues, Amounts, LengthAssumption DEF Receiving
<1> HIDE DEF t
<1> QED
  BY <1>0, <1>1, <1>2, <1>3, <1>5, <1>6, GoesOnTo

\* The length of the name, which stays in the buffer.
LEMMA ReceiveSocksResponseTypeNameLenKeeps ==
  TransportInv /\ Live /\ receiveSocksResponseTypeNameLen => TransportInv'
<1> DEFINE s == "PROXY_RESPONSE_TYPE_NAME_LEN"
           t == "PROXY_RESPONSE_TYPE_NAME"
<1> SUFFICES ASSUME TransportInv, Live, receiveSocksResponseTypeNameLen, ~ReceiveFails(s)
             PROVE  TransportInv'
  BY ReceiveFailsKeeps DEF receiveSocksResponseTypeNameLen, Receiving
<1>0. s \in Receiving /\ t \in Receiving /\ t # s
  BY DEF Receiving
<1>1. /\ state = s /\ state' = t /\ buf' = 1 /\ avail > 0 /\ avail' = avail - 1 /\ Continue
      /\ UNCHANGED <<proxy, error, connected, wrote, answered, coming, reset, eof>>
  BY DEF receiveSocksResponseTypeNameLen, Handling
<1>2. /\ Held = 0 /\ Held' = 1 /\ avail \in Nat /\ coming \in Nat
      /\ coming + avail = NameLen + 3
      /\ answered = Settled(s) /\ Settled(s) = Settled(t) /\ Awaited(t) = {} /\ GrantedUpTo(t)
      /\ \A m \in Sending : wrote[m] = IF m \in Settled(t) THEN MessageLen(m) ELSE 0
      /\ proxy.via
  <2>1. Held = 0 /\ Held' = 1
    BY <1>0, <1>1, WhileReceiving, Amounts DEF Held, None
  <2>2. Awaited(s) = {} /\ Awaited(t) = {} /\ Settled(s) = Settled(t)
    BY AwaitedValues, SettledValues
  <2>3. GrantedUpTo(t)
    BY <1>0, <1>1, <2>2, WhileReceiving DEF GrantedUpTo
  <2> HIDE DEF t
  <2> QED
    BY <1>0, <1>1, <2>1, <2>2, <2>3, WhileReceiving, UnreadValues
<1>3. TypeOK'
  BY <1>0, <1>1, <1>2, ContinueTypes DEF TransportInv, TypeOK, States
<1>4. BufferIsOwn'
  BY <1>0, <1>1, Kinds, Amounts, SameTables, LengthAssumption DEF BufferIsOwn, None
<1>5. HandshakeInOrder'
  BY <1>0, <1>1, <1>2, Kinds, UnreadValues, SameTables, LengthAssumption DEF HandshakeInOrder
<1> QED
  BY <1>3, <1>4, <1>5 DEF TransportInv

\* All that the proxy answers.
LEMMA ReceiveSocksKeeps == TransportInv /\ Live /\ receiveSocks => TransportInv'
<1> SUFFICES ASSUME TransportInv, Live, receiveSocks PROVE TransportInv'
  OBVIOUS
<1>1. CASE receiveSocksResponseTypeIPv4
  BY <1>1, OpensKeeps, ReceiveFailsKeeps DEF receiveSocksResponseTypeIPv4, Receiving
<1>2. CASE receiveSocksResponseTypeName
  BY <1>2, OpensKeeps, ReceiveFailsKeeps DEF receiveSocksResponseTypeName, Receiving
<1> QED
  BY <1>1, <1>2, ReceiveSocksChoiceKeeps, ReceiveSocksAuthKeeps,
     ReceiveSocksResponseStatusKeeps, ReceiveSocksResponseTypeKeeps,
     ReceiveSocksResponseTypeNameLenKeeps
  DEF receiveSocks

\* The stream is destroyed by the heartbeat.
LEMMA CheckTimeoutKeeps == TransportInv /\ Live /\ checkTimeout => TransportInv'
<1> SUFFICES ASSUME TransportInv, Live, checkTimeout PROVE TransportInv'
  OBVIOUS
<1>1. UNCHANGED <<proxy, state, buf, ev, watch, progress, network>> /\ note' /\ ~registered'
  BY DEF checkTimeout
<1>2. error' \in Errors /\ note' \in BOOLEAN /\ registered' \in BOOLEAN
  BY DEF checkTimeout, Errors, TransportInv, TypeOK
<1>3. TypeOK'
  BY <1>1, <1>2, SameTables DEF network, TransportInv, TypeOK
<1> QED
  BY <1>1, <1>3, SameHandshake DEF network, TransportInv
-----------------------------------------------------------------------------
(* The network and the proxy.                                               *)

\* A message that is written whole and not answered is the one that is awaited:
\* nothing is under way then, and the whole answer is to be read.
LEMMA ProxyAnswersKeeps == TransportInv /\ Live /\ proxyAnswers => TransportInv'
<1> SUFFICES ASSUME TransportInv, Live, proxyAnswers PROVE TransportInv'
  OBVIOUS
<1>1. PICK m \in Sending :
        /\ wrote[m] = MessageLen(m) /\ m \notin answered
        /\ answered' = answered \cup {m} /\ coming' = coming + AnswerLen(m)
        /\ UNCHANGED <<proxy, client, connected, wrote, avail, reset, eof>>
  BY DEF proxyAnswers
<1>2. TypeOK'
  BY <1>1, ProxyFacts, SameTables DEF TransportInv, TypeOK, client
<1>3. BufferIsOwn'
  BY <1>1, SameTables DEF TransportInv, BufferIsOwn, client
<1> SUFFICES HandshakeInOrder'
  BY <1>2, <1>3 DEF TransportInv
<1>4. CASE ~proxy.via
  BY <1>1, <1>4 DEF TransportInv, HandshakeInOrder, client, Live
<1>5. CASE proxy.via
  <2>1. m # state
    <3>1. SUFFICES ASSUME m = state PROVE FALSE
      OBVIOUS
    <3>2. buf = None \/ buf \in Nat \ {0}
      BY DEF TransportInv, BufferIsOwn, TypeOK
    <3> QED
      BY <1>1, <3>1, <3>2, Lengths DEF TransportInv, BufferIsOwn, None, TypeOK
  <2>2. m \in Awaited(state) /\ state = NextState(m) /\ Awaited(state) = {m}
    <3>1. m \in Awaited(state)
      BY <1>1, <1>5, <2>1, Lengths DEF TransportInv, HandshakeInOrder, Live
    <3> QED
      BY <3>1, AwaitedValues, Lengths, Kinds DEF Awaited
  <2>3. state \in Receiving /\ Unread(state) = AnswerLen(m)
    BY <2>2, Kinds, Lengths, UnreadValues, Answers
  <2>4. coming + avail + Held = 0
    BY <1>1, <2>2, <2>3, WhileReceiving
  <2>5. coming' + avail + Held = Unread(state)
    BY <1>1, <2>3, <2>4, WhileReceiving, ProxyFacts DEF TransportInv, TypeOK
  <2>6. Held' = Held
    BY <1>1 DEF Held, client
  <2>7. Settled(state) \subseteq answered' /\ answered' \subseteq Settled(state) \cup Awaited(state)
    BY <1>1, <2>2, <2>3, WhileReceiving
  <2>8. Awaited(state) \subseteq answered'
    BY <1>1, <2>2
  <2>9. /\ UNCHANGED <<proxy, state, registered, wrote, avail>>
        /\ GrantedUpTo(state) /\ state # "ERROR"
        /\ \A k \in Sending :
             wrote[k] = IF k \in Settled(state) \cup Awaited(state) THEN MessageLen(k) ELSE 0
    BY <1>1, <2>3, WhileReceiving, Kinds DEF client
  <2> QED
    BY <1>5, <2>3, <2>5, <2>6, <2>7, <2>8, <2>9, SameTables DEF HandshakeInOrder
<1> QED
  BY <1>4, <1>5

\* A segment moves from the network to the socket.
LEMMA DeliverKeeps == TransportInv /\ Live /\ deliver => TransportInv'
<1> SUFFICES ASSUME TransportInv, Live, deliver PROVE TransportInv'
  OBVIOUS
<1>1. PICK n \in 1 .. coming :
        /\ coming' = coming - n /\ avail' = avail + n
        /\ UNCHANGED <<proxy, client, connected, wrote, answered, reset, eof>>
  BY DEF deliver
<1>2. coming' \in Nat /\ avail' \in Nat /\ coming' + avail' = coming + avail
  BY <1>1 DEF TransportInv, TypeOK
<1>3. TypeOK'
  BY <1>1, <1>2, SameTables DEF TransportInv, TypeOK, client
<1>4. BufferIsOwn'
  BY <1>1, SameTables DEF TransportInv, BufferIsOwn, client
<1>5. Held' = Held
  BY <1>1 DEF Held, client
<1>6. HandshakeInOrder'
  BY <1>1, <1>2, <1>5, SameTables DEF TransportInv, HandshakeInOrder, client
<1> QED
  BY <1>3, <1>4, <1>6 DEF TransportInv

\* The connection comes up, breaks or is closed.
LEMMA NetworkKeeps == TransportInv /\ Live /\ (connects \/ breaks \/ proxyCloses) => TransportInv'
<1> SUFFICES ASSUME TransportInv, Live, connects \/ breaks \/ proxyCloses PROVE TransportInv'
  OBVIOUS
<1>1. /\ UNCHANGED <<proxy, client, wrote, answered, coming, avail>>
      /\ {connected, reset, eof}' \subseteq BOOLEAN
  BY DEF connects, breaks, proxyCloses, TransportInv, TypeOK
<1>2. TypeOK'
  BY <1>1, SameTables DEF client, TransportInv, TypeOK
<1> QED
  BY <1>1, <1>2, SameHandshake DEF client, TransportInv

\* Every step keeps the invariant.
LEMMA StepKeeps == TransportInv /\ [Next]_vars => TransportInv'
<1> SUFFICES ASSUME TransportInv, [Next]_vars PROVE TransportInv'
  OBVIOUS
<1>1. CASE UNCHANGED vars
  <2>1. BufferIsOwn' /\ HandshakeInOrder'
    <3>1. Held' = Held
      BY <1>1 DEF vars, Held
    <3> QED
      BY <1>1, <3>1, SameTables DEF vars, TransportInv, BufferIsOwn, HandshakeInOrder
  <2>2. TypeOK'
    BY <1>1, SameTables DEF vars, TransportInv, TypeOK
  <2> QED
    BY <2>1, <2>2 DEF TransportInv
<1>2. CASE ended
  BY <1>1, <1>2 DEF ended
<1>3. CASE ~over /\ (step \/ checkTimeout \/ connects \/ proxyAnswers \/ deliver \/ breaks
                     \/ proxyCloses)
  <2>1. Live
    BY <1>3 DEF over, Opened, Live
  <2> QED
    BY <1>3, <2>1, OnEventKeeps, WaitsKeeps, ConnectKeeps, SendSocksKeeps, ReceiveSocksKeeps,
       CheckTimeoutKeeps, ProxyAnswersKeeps, DeliverKeeps, NetworkKeeps DEF step
<1> QED
  BY <1>1, <1>2, <1>3 DEF Next
-----------------------------------------------------------------------------
(* The theorems.                                                            *)

\* For all proxies and lengths, in every state of every handshake the variables of
\* tgen-transport.c have their types, socksBuffer holds what the current step left in it,
\* and the transport and the proxy agree about what was sent, answered and read.
THEOREM TransportInOrder == Spec => []TransportInv
<1>1. Init => TransportInv
  BY InitKeeps
<1>2. TransportInv /\ [Next]_vars => TransportInv'
  BY StepKeeps
<1> QED
  BY <1>1, <1>2, PTL DEF Spec

\* For all proxies and lengths, TGEN_XPORT_SUCCESSOPEN is reached through a proxy only
\* when the proxy granted the connection, and then every message was sent whole and the
\* stream's first byte is the next one to be read.
THEOREM StreamBeginsExactly == Spec => []OpensExactly
<1>1. TransportInv => OpensExactly
  <2> SUFFICES ASSUME TransportInv, state = "SUCCESSOPEN", proxy.via
               PROVE  /\ Granted(proxy)
                      /\ avail = 0 /\ coming = 0
                      /\ answered = {m \in Sending : m = "PROXY_AUTHREQUEST" => proxy.auth}
                      /\ \A m \in answered : wrote[m] = MessageLen(m)
    BY DEF OpensExactly
  <2> DEFINE s == "SUCCESSOPEN"
  <2>0. Awaited(s) = {} /\ Unread(s) = 0 /\ s \notin Receiving /\ s \notin Sending
    BY AwaitedValues, UnreadValues DEF Receiving, Sending
  <2>1. /\ GrantedUpTo(s) /\ answered = Settled(s) /\ coming + avail + 0 = 0
        /\ \A m \in Sending : m \in Settled(s) => wrote[m] = MessageLen(m)
    BY <2>0 DEF TransportInv, HandshakeInOrder
  <2>2. Granted(proxy)
    BY <2>1, SettledValues DEF GrantedUpTo, Granted
  <2>3. answered = {m \in Sending : m = "PROXY_AUTHREQUEST" => proxy.auth}
    BY <2>1, SettledValues DEF Sending
  <2>4. avail = 0 /\ coming = 0
    BY <2>1 DEF TransportInv, TypeOK
  <2> QED
    BY <2>1, <2>2, <2>3, <2>4
<1> QED
  BY <1>1, TransportInOrder, PTL
=============================================================================
