--------------------------- MODULE TGenTransport ----------------------------
(***************************************************************************)
(* A transport that connects to a peer, directly or through a SOCKS proxy  *)
(* (src/src/tgen-transport.c), up to the moment when the stream above it   *)
(* begins, with the part of the stream (runTransportEventLoop) and of the  *)
(* I/O loop (_tgenio_helper) that decide what becomes of its descriptor.   *)
(*                                                                         *)
(* The handler of an event may make several system calls, one per step of  *)
(* the handshake, and the proxy and the network go on between them: ev     *)
(* holds the event that is being handled, and an action is one step.       *)
(***************************************************************************)
EXTENDS Integers, Sequences

CONSTANTS
  Proxies,     \* ways that the connection may go (see ProxyType)
  AuthLen,     \* length of the authentication request
  RequestLen,  \* length of the connection request
  NameLen      \* length of the name in a response that carries one

\* via: through a proxy; auth: with a username and password; choice, login,
\* status: what the proxy accepts; atype: type of address it answers; split:
\* its answers may arrive in pieces; faults: the connection may be reset,
\* closed, or so slow that it times out.
ProxyType == [via : BOOLEAN, auth : BOOLEAN, choice : BOOLEAN, login : BOOLEAN,
              status : BOOLEAN, atype : {"IPV4", "NAME", "OTHER"},
              split : BOOLEAN, faults : BOOLEAN]

ASSUME ProxiesAssumption == Proxies \subseteq ProxyType
ASSUME LengthAssumption == AuthLen \in Nat \ {0} /\ RequestLen \in Nat \ {0} /\ NameLen \in Nat

VARIABLES
  proxy,      \* how the connection goes
  state,      \* transport->state
  error,      \* transport->error
  buf,        \* length of socksBuffer, None if there is none
  ev,         \* events being handled, Idle between events
  watch,      \* events that epoll watches
  registered, \* the I/O loop holds the stream and its descriptor
  note,       \* the stream told the driver that it failed
  progress,   \* the stream has recorded a time.lastProgress
  connected,  \* connect() has succeeded
  wrote,      \* bytes written of each message to the proxy
  answered,   \* messages that the proxy has answered
  coming,     \* bytes under way from the proxy
  avail,      \* bytes that have arrived from the proxy and were not read
  reset, eof  \* the connection was reset, or closed by the proxy

client == <<state, error, buf, ev, watch, registered, note, progress>>
network == <<connected, wrote, answered, coming, avail, reset, eof>>
vars == <<proxy, state, error, buf, ev, watch, registered, note, progress,
          connected, wrote, answered, coming, avail, reset, eof>>

None == -1
Idle == {"IDLE"}

Sending == {"PROXY_INIT", "PROXY_AUTHREQUEST", "PROXY_REQUEST"}
Receiving == {"PROXY_CHOICE", "PROXY_AUTHRESPONSE", "PROXY_RESPONSE_STATUS",
              "PROXY_RESPONSE_TYPE", "PROXY_RESPONSE_TYPE_IPV4",
              "PROXY_RESPONSE_TYPE_NAME_LEN", "PROXY_RESPONSE_TYPE_NAME"}
States == Sending \cup Receiving \cup {"CONNECT", "SUCCESSOPEN", "ERROR"}
Errors == {"NONE", "CONNECT", "CHOICE", "AUTH", "ADDR", "VERSION", "STATUS", "WRITE", "READ",
           "STALLOUT", "TIMEOUT"}

\* Bytes of the message that a sending state sends.
MessageLen(m) == CASE m = "PROXY_INIT" -> 3
                   [] m = "PROXY_AUTHREQUEST" -> AuthLen
                   [] m = "PROXY_REQUEST" -> RequestLen

\* Bytes of the proxy's answer to it.
AnswerLen(m) ==
  IF m # "PROXY_REQUEST" THEN 2
  ELSE IF ~proxy.status THEN 2
  ELSE CASE proxy.atype = "IPV4" -> 10
         [] proxy.atype = "NAME" -> 4 + 1 + NameLen + 2
         [] proxy.atype = "OTHER" -> 4

Init ==
  /\ proxy \in Proxies
  /\ state = "CONNECT" /\ error = "NONE" /\ buf = None
  /\ ev = Idle
  /\ watch = {"READ", "WRITE"}
  /\ registered = TRUE
  /\ note = FALSE /\ progress = FALSE
  /\ connected = FALSE
  /\ wrote = [m \in Sending |-> 0]
  /\ answered = {}
  /\ coming = 0 /\ avail = 0
  /\ reset = FALSE /\ eof = FALSE
-----------------------------------------------------------------------------
(* Events in and out.                                                       *)

onEvent ==
  LET ready == {e \in {"READ", "WRITE", "DONE"} :
                  CASE e = "READ"  -> e \in watch /\ (avail > 0 \/ eof \/ reset)
                    [] e = "WRITE" -> e \in watch /\ (connected \/ reset)
                    [] e = "DONE"  -> reset}
  IN
  /\ registered
  /\ ev = Idle
  /\ state # "SUCCESSOPEN"
  /\ ready # {}
  /\ ev' = ready
  /\ UNCHANGED <<proxy, state, error, buf, watch, registered, note, progress, network>>

\* Mutant of Return: a handshake that fails is not reported to the driver.
Return_silently(wanted) ==
  /\ note' = note
  /\ progress' = (progress \/ wanted # {})
  /\ registered' = (wanted # {} /\ "DONE" \notin ev)
  /\ watch' = IF "DONE" \in wanted THEN {"READ", "WRITE"} ELSE wanted
  /\ ev' = Idle

\* What the transport returns, seen by runTransportEventLoop (nothing wanted
\* means that the connection failed, DONE that the stream may begin), and
\* then by _tgenio_helper, which drops a descriptor that epoll calls done.
Return(wanted) ==
  /\ note' = (note \/ wanted = {})
  /\ progress' = (progress \/ wanted # {})
  /\ registered' = (wanted # {} /\ "DONE" \notin ev)
  /\ watch' = IF "DONE" \in wanted THEN {"READ", "WRITE"} ELSE wanted
  /\ ev' = Idle

\* The next step of the handshake in the same event.
Continue == UNCHANGED <<ev, watch, registered, note, progress>>

Handling(s) == ev # Idle /\ state = s /\ UNCHANGED proxy

Fail(err) == state' = "ERROR" /\ error' = err /\ Return({})

\* The case of tgentransport_onEvent that each state has: not this event.
waits ==
  \E s \in Sending \cup Receiving :
    /\ Handling(s)
    /\ (IF s \in Sending THEN "WRITE" ELSE "READ") \notin ev
    /\ Return({IF s \in Sending THEN "WRITE" ELSE "READ"})
    /\ UNCHANGED <<state, error, buf, network>>

connect ==
  /\ Handling("CONNECT")
  /\ IF "DONE" \in ev THEN Fail("CONNECT")
     ELSE IF "WRITE" \notin ev
     THEN Return({"WRITE"}) /\ UNCHANGED <<state, error>>
     ELSE IF proxy.via
     THEN state' = "PROXY_INIT" /\ Continue /\ UNCHANGED error
     ELSE state' = "SUCCESSOPEN" /\ Return({"DONE"}) /\ UNCHANGED error
  /\ UNCHANGED <<buf, network>>

\* sendSocksInit, sendSocksAuth, sendSocksRequest
NextState(s) == CASE s = "PROXY_INIT" -> "PROXY_CHOICE"
                  [] s = "PROXY_AUTHREQUEST" -> "PROXY_AUTHRESPONSE"
                  [] s = "PROXY_REQUEST" -> "PROXY_RESPONSE_STATUS"

\* Mutant of sendSocks: the whole message is written again after a short write.
sendSocks_again(s) ==
  /\ Handling(s)
  /\ "WRITE" \in ev
  /\ \E n \in 1 .. MessageLen(s) :
       /\ wrote' = [wrote EXCEPT ![s] = @ + n]
       /\ buf' = None
       /\ IF n = MessageLen(s) THEN state' = NextState(s) /\ Return({"READ"})
          ELSE UNCHANGED state /\ Return({"WRITE"})
  /\ UNCHANGED <<error, connected, answered, coming, avail, reset, eof>>

sendSocks(s) ==
  LET len == IF buf = None THEN MessageLen(s) ELSE buf IN
  /\ Handling(s)
  /\ "WRITE" \in ev
  /\ IF reset
     THEN Fail("WRITE") /\ buf' = None /\ UNCHANGED wrote
     ELSE \E n \in 1 .. len :
       /\ wrote' = [wrote EXCEPT ![s] = @ + n]
       /\ IF n = len THEN buf' = None /\ state' = NextState(s) /\ Return({"READ"})
          ELSE buf' = len - n /\ UNCHANGED state /\ Return({"WRITE"})
       /\ UNCHANGED error
  /\ UNCHANGED <<connected, answered, coming, avail, reset, eof>>
-----------------------------------------------------------------------------
(* Receiving.                                                               *)

Held == IF buf = None THEN 0 ELSE buf

\* Mutant of Asked: the port that follows an address is not read.
Asked_noPort(s) == CASE s = "PROXY_RESPONSE_TYPE_IPV4" -> 4
                     [] s = "PROXY_RESPONSE_TYPE_NAME_LEN" -> 1
                     [] s = "PROXY_RESPONSE_TYPE_NAME" -> NameLen + 1
                     [] OTHER -> 2

\* The amount that each receive function asks socksReceiveHelper for.
Asked(s) == CASE s = "PROXY_RESPONSE_TYPE_IPV4" -> 6
              [] s = "PROXY_RESPONSE_TYPE_NAME_LEN" -> 1
              [] s = "PROXY_RESPONSE_TYPE_NAME" -> NameLen + 3
              [] OTHER -> 2

\* socksReceiveHelper as far as it fails or comes short: an error,
\* the end of file or EAGAIN lose the buffer and end the handshake.
ReceiveFails(s) ==
  /\ Handling(s)
  /\ "READ" \in ev
  /\ Held + avail < Asked(s)
  /\ IF avail > 0
     THEN buf' = Held + avail /\ Return({"READ"}) /\ UNCHANGED <<state, error>>
     ELSE /\ buf' = None
          /\ Return({})
          /\ IF reset \/ eof THEN state' = "ERROR" /\ error' = "READ"
             ELSE UNCHANGED <<state, error>>
  /\ avail' = 0
  /\ UNCHANGED <<connected, wrote, answered, coming, reset, eof>>

\* socksReceiveHelper, completely; the buffer is freed.
Receive(s) ==
  /\ Handling(s)
  /\ "READ" \in ev
  /\ Held + avail >= Asked(s)
  /\ avail' = avail - (Asked(s) - Held)
  /\ buf' = None
  /\ UNCHANGED <<connected, wrote, answered, coming, reset, eof>>

receiveSocksChoice ==
  \/ ReceiveFails("PROXY_CHOICE")
  \/ /\ Receive("PROXY_CHOICE")
     /\ IF ~proxy.choice THEN Fail("CHOICE")
        ELSE /\ state' = IF proxy.auth THEN "PROXY_AUTHREQUEST" ELSE "PROXY_REQUEST"
             /\ Return({"WRITE"})
             /\ UNCHANGED error

receiveSocksAuth ==
  \/ ReceiveFails("PROXY_AUTHRESPONSE")
  \/ /\ Receive("PROXY_AUTHRESPONSE")
     /\ IF ~proxy.login THEN \E err \in {"VERSION", "AUTH"} : Fail(err)
        ELSE state' = "PROXY_REQUEST" /\ Return({"WRITE"}) /\ UNCHANGED error

receiveSocksResponseStatus ==
  \/ ReceiveFails("PROXY_RESPONSE_STATUS")
  \/ /\ Receive("PROXY_RESPONSE_STATUS")
     /\ IF ~proxy.status THEN \E err \in {"VERSION", "STATUS"} : Fail(err)
        ELSE state' = "PROXY_RESPONSE_TYPE" /\ Continue /\ UNCHANGED error

\* Mutant of receiveSocksResponseType: an address that is a name is refused.
receiveSocksResponseType_ipv4Only ==
  \/ ReceiveFails("PROXY_RESPONSE_TYPE")
  \/ /\ Receive("PROXY_RESPONSE_TYPE")
     /\ IF proxy.atype # "IPV4" THEN Fail("ADDR")
        ELSE state' = "PROXY_RESPONSE_TYPE_IPV4" /\ Continue /\ UNCHANGED error

receiveSocksResponseType ==
  \/ ReceiveFails("PROXY_RESPONSE_TYPE")
  \/ /\ Receive("PROXY_RESPONSE_TYPE")
     /\ IF proxy.atype = "OTHER" THEN Fail("ADDR")
        ELSE /\ state' = IF proxy.atype = "IPV4" THEN "PROXY_RESPONSE_TYPE_IPV4"
                         ELSE "PROXY_RESPONSE_TYPE_NAME_LEN"
             /\ Continue
             /\ UNCHANGED error

Opens == state' = "SUCCESSOPEN" /\ Return({"DONE"}) /\ UNCHANGED error

receiveSocksResponseTypeIPv4 ==
  \/ ReceiveFails("PROXY_RESPONSE_TYPE_IPV4")
  \/ Receive("PROXY_RESPONSE_TYPE_IPV4") /\ Opens

\* The length stays in the buffer, before the name and the port.
receiveSocksResponseTypeNameLen ==
  \/ ReceiveFails("PROXY_RESPONSE_TYPE_NAME_LEN")
  \/ /\ Handling("PROXY_RESPONSE_TYPE_NAME_LEN")
     /\ "READ" \in ev
     /\ avail > 0
     /\ avail' = avail - 1
     /\ buf' = 1
     /\ state' = "PROXY_RESPONSE_TYPE_NAME"
     /\ Continue
     /\ UNCHANGED <<error, connected, wrote, answered, coming, reset, eof>>

receiveSocksResponseTypeName ==
  \/ ReceiveFails("PROXY_RESPONSE_TYPE_NAME")
  \/ Receive("PROXY_RESPONSE_TYPE_NAME") /\ Opens

receiveSocks ==
  \/ receiveSocksChoice \/ receiveSocksAuth \/ receiveSocksResponseStatus
  \/ receiveSocksResponseType \/ receiveSocksResponseTypeIPv4
  \/ receiveSocksResponseTypeNameLen \/ receiveSocksResponseTypeName

\* The heartbeat finds the stream past its timeout or stallout, or the
\* transport while the stream has made no progress; the stream tells the driver
\* and is destroyed.
checkTimeout ==
  /\ proxy.faults
  /\ registered /\ ev = Idle /\ state # "SUCCESSOPEN"
  /\ IF progress THEN UNCHANGED error ELSE error' \in {"STALLOUT", "TIMEOUT"}
  /\ note' = TRUE /\ registered' = FALSE
  /\ UNCHANGED <<proxy, state, buf, ev, watch, progress, network>>

step == onEvent \/ waits \/ connect \/ (\E s \in Sending : sendSocks(s)) \/ receiveSocks
-----------------------------------------------------------------------------
(* The network and the proxy (external).                                    *)

connects ==
  /\ ~connected /\ ~reset
  /\ connected' = TRUE
  /\ UNCHANGED <<proxy, client, wrote, answered, coming, avail, reset, eof>>

proxyAnswers ==
  \E m \in Sending :
    /\ wrote[m] = MessageLen(m)
    /\ m \notin answered
    /\ ~reset /\ ~eof
    /\ answered' = answered \cup {m}
    /\ coming' = coming + AnswerLen(m)
    /\ UNCHANGED <<proxy, client, connected, wrote, avail, reset, eof>>

\* A segment arrives; without split an answer arrives as a whole.
deliver ==
  \E n \in 1 .. coming :
    /\ ~reset
    /\ proxy.split \/ n = coming
    /\ coming' = coming - n
    /\ avail' = avail + n
    /\ UNCHANGED <<proxy, client, connected, wrote, answered, reset, eof>>

\* The connection is refused or breaks; what has arrived can still be read.
breaks ==
  /\ proxy.faults
  /\ ~reset
  /\ reset' = TRUE
  /\ UNCHANGED <<proxy, client, connected, wrote, answered, coming, avail, eof>>

\* The proxy closes the connection behind all that it sent.
proxyCloses ==
  /\ proxy.faults
  /\ connected /\ ~eof /\ coming = 0
  /\ eof' = TRUE
  /\ UNCHANGED <<proxy, client, connected, wrote, answered, coming, avail, reset>>

Opened == registered /\ state = "SUCCESSOPEN"

\* The stream takes over, or it is gone.
over == Opened \/ ~registered

ended == over /\ UNCHANGED vars

Next ==
  \/ ~over /\ (step \/ checkTimeout \/ connects \/ proxyAnswers \/ deliver \/ breaks
               \/ proxyCloses)
  \/ ended

Spec == Init /\ [][Next]_vars

Fairness ==
  /\ WF_vars(step) /\ WF_vars(connects) /\ WF_vars(proxyAnswers) /\ WF_vars(deliver)

FairSpec == Spec /\ Fairness
-----------------------------------------------------------------------------
(* Properties.                                                              *)

\* Every variable has its type.
TypeOK ==
  /\ proxy \in Proxies
  /\ state \in States /\ error \in Errors
  /\ buf \in Nat \cup {None}
  /\ ev \subseteq {"READ", "WRITE", "DONE", "IDLE"}
  /\ watch \subseteq {"READ", "WRITE"}
  /\ {registered, note, progress, connected, reset, eof} \subseteq BOOLEAN
  /\ wrote \in [Sending -> Nat] /\ \A m \in Sending : wrote[m] <= MessageLen(m)
  /\ answered \subseteq Sending
  /\ coming \in Nat /\ avail \in Nat

Granted(p) == p.choice /\ (p.auth => p.login) /\ p.status /\ p.atype # "OTHER"

\* A stream begins only on a connection that the proxy granted, and exactly
\* behind the handshake: every message was sent whole, and every byte of the
\* answers was read and none after them.
OpensExactly ==
  state = "SUCCESSOPEN" /\ proxy.via =>
    /\ Granted(proxy)
    /\ avail = 0 /\ coming = 0
    /\ answered = {m \in Sending : m = "PROXY_AUTHREQUEST" => proxy.auth}
    /\ \A m \in answered : wrote[m] = MessageLen(m)

\* socksBuffer is shared by all steps: what a step finds in it is its own rest
\* of a message, or its own start of an answer, and never more than it asks for;
\* before the handshake and after it there is no buffer.
BufferIsOwn ==
  /\ buf # 0
  /\ state \notin Sending \cup Receiving => buf = None
  /\ state \in Sending =>
       wrote[state] + (IF buf = None THEN MessageLen(state) ELSE buf) = MessageLen(state)
  /\ state \in Receiving /\ buf # None => buf < Asked(state)

\* The messages whose answers the transport has read when it is in state s.
Settled(s) ==
  {m \in Sending :
     \/ m = "PROXY_INIT" /\ s \notin {"CONNECT", "PROXY_INIT", "PROXY_CHOICE"}
     \/ /\ m = "PROXY_AUTHREQUEST" /\ proxy.auth
        /\ s \notin {"CONNECT", "PROXY_INIT", "PROXY_CHOICE", "PROXY_AUTHREQUEST",
                    "PROXY_AUTHRESPONSE"}
     \/ /\ m = "PROXY_REQUEST"
        /\ s \in {"PROXY_RESPONSE_TYPE", "PROXY_RESPONSE_TYPE_IPV4",
                 "PROXY_RESPONSE_TYPE_NAME_LEN", "PROXY_RESPONSE_TYPE_NAME", "SUCCESSOPEN"}}

\* The message whose answer it waits for, if it has not begun to read one.
Awaited(s) == {m \in Sending : s = NextState(m)}

\* The bytes of an answer that it has yet to take in state s.
Unread(s) ==
  CASE s \in {"PROXY_CHOICE", "PROXY_AUTHRESPONSE"} -> 2
    [] s = "PROXY_RESPONSE_STATUS" -> AnswerLen("PROXY_REQUEST")
    [] s = "PROXY_RESPONSE_TYPE" -> AnswerLen("PROXY_REQUEST") - 2
    [] s = "PROXY_RESPONSE_TYPE_IPV4" -> 6
    [] s \in {"PROXY_RESPONSE_TYPE_NAME_LEN", "PROXY_RESPONSE_TYPE_NAME"} -> NameLen + 3
    [] OTHER -> 0

\* What the proxy must have granted for the transport to be in state s.
GrantedUpTo(s) ==
  /\ "PROXY_INIT" \in Settled(s) => proxy.choice
  /\ "PROXY_AUTHREQUEST" \in Settled(s) => proxy.login
  /\ "PROXY_REQUEST" \in Settled(s) => proxy.status
  /\ s \in {"PROXY_AUTHREQUEST", "PROXY_AUTHRESPONSE"} => proxy.auth
  /\ s = "PROXY_RESPONSE_TYPE_IPV4" => proxy.atype = "IPV4"
  /\ s \in {"PROXY_RESPONSE_TYPE_NAME_LEN", "PROXY_RESPONSE_TYPE_NAME"} => proxy.atype = "NAME"
  /\ s = "SUCCESSOPEN" => proxy.atype # "OTHER"

\* A handshake that has not failed agrees with the proxy about where it is: the messages
\* before its state were sent whole and answered, none after it was begun, and what is
\* in the network and in socksBuffer is the rest of the answer that it is reading.
HandshakeInOrder ==
  /\ state \in Sending \cup Receiving => proxy.via
  /\ state = "ERROR" => ~registered
  /\ proxy.via /\ (registered \/ state = "SUCCESSOPEN") =>
       /\ GrantedUpTo(state)
       /\ Settled(state) \subseteq answered /\ answered \subseteq Settled(state) \cup Awaited(state)
       /\ \A m \in Sending \ {state} :
            wrote[m] = IF m \in Settled(state) \cup Awaited(state) THEN MessageLen(m) ELSE 0
       /\ coming + avail + (IF state \in Receiving THEN Held ELSE 0) =
            IF Awaited(state) \subseteq answered THEN Unread(state) ELSE 0

\* The transport is in order in every state, within a handshake and after it: its
\* variables have their types, socksBuffer holds what the current step left in it, and
\* the transport and the proxy agree about what was sent, answered and read.
TransportInv == TypeOK /\ BufferIsOwn /\ HandshakeInOrder

\* Without faults, the stream begins on every connection that the proxy grants
\* with answers that arrive whole.
GrantedOpens == Granted(proxy) /\ ~proxy.split /\ ~proxy.faults ~> Opened

\* Without faults, and so without a timeout to help, a handshake never stalls,
\* however it is cut into pieces and whatever the proxy refuses: the stream
\* begins or its failure is reported.
BeginsOrFails == <>(Opened \/ note \/ proxy.faults)

\* A comment in _tgenstream_checkTimeout: "notify driver before the stream is
\* destroyed".
DestroyedIsNotified == ~registered => note
=============================================================================
