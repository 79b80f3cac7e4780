----------------------------- MODULE TGenStream -----------------------------
(***************************************************************************)
(* One TGen stream: the commander (the client, which asked for the stream) *)
(* and the non-commander (the server that accepted it), joined by a TCP    *)
(* connection.  Models src/src/tgen-stream.c with the part of tgen-io.c    *)
(* (event masks, deferred writes, deregistration) and tgen-transport.c     *)
(* (direct connections, read, write) that a stream meets.                  *)
(*                                                                         *)
(* What travels is a sequence of tokens, each standing for a run of bytes: *)
(* the password, a line's text, a line's newline, a piece of the graphml   *)
(* model, a unit of payload.  out[e] logs every token that endpoint e ever *)
(* put in its send buffer; four counters cut the log of the peer into what *)
(* was written to the kernel, what has arrived, what was read, and what    *)
(* was taken out of the stream's own receive buffer.                       *)
(*                                                                         *)
(* An endpoint handles one epoll event at a time.  todo[e] holds the       *)
(* phases left of the event being handled; a phase is one or more actions, *)
(* each one stage of onReadable or onWritable with its one system call, so *)
(* the two processes and the network interleave between system calls.      *)
(***************************************************************************)
EXTENDS Integers, Sequences, FiniteSets

CONSTANTS
  Unset,      \* an option that the configuration does not set
  Options,    \* the (sendsize, recvsize) pairs a stream may be created with
  Commands,   \* what the client's command may be (see CommandType)
  ToServer,   \* packets the Markov model sends from client to server
  ToOrigin,   \* packets the Markov model sends from server to client
  ModelSize,  \* tokens in the graphml string of the model
  ReadMax,    \* DEFAULT_STREAM_READ_BUFLEN, in tokens
  WriteMax,   \* DEFAULT_STREAM_WRITE_BUFLEN, in tokens
  SockBuf,    \* tokens the kernel buffers in one direction
  MaxPauses,  \* how often each endpoint's model defers a write
  Faults,     \* TRUE if the network may reset the connection
  Timeouts    \* TRUE if the heartbeat checks for timeouts and stallouts

Ends == {"client", "server"}

Peer(e) == IF e = "client" THEN "server" ELSE "client"

OptionType == [sendsize : Nat \cup {Unset}, recvsize : Nat \cup {Unset}]

\* Whether the server accepts the client's password, header and model, and
\* whether the model is sent as a path instead of as a graphml string.
CommandType == [auth : BOOLEAN, header : BOOLEAN, model : BOOLEAN, path : BOOLEAN]

ASSUME UnsetAssumption == Unset \notin Nat
ASSUME OptionsAssumption == Options \subseteq OptionType
ASSUME CommandsAssumption == Commands \subseteq CommandType
ASSUME SizeAssumption ==
  /\ ToServer \in Nat /\ ToOrigin \in Nat /\ MaxPauses \in Nat
  /\ ModelSize \in Nat \ {0} /\ ReadMax \in Nat \ {0}
  /\ WriteMax \in Nat \ {0} /\ SockBuf \in Nat \ {0}
ASSUME SwitchAssumption == Faults \in BOOLEAN /\ Timeouts \in BOOLEAN

VARIABLES
  cmd,        \* the command this client sends
  recv,       \* stream->recv of each endpoint, with time.checksumRecv
  send,       \* stream->send of each endpoint
  error,      \* stream->error
  mmodel,     \* stream->mmodel: loaded, and what is left of its walk
  note,       \* what callNotifyComplete told the driver, "none" before
  transport,  \* state of the transport, "CLOSED" once it is freed
  watch,      \* events that epoll watches for the stream's descriptor
  todo,       \* phases left of the event being handled, <<>> between events
  out,        \* every token this endpoint put in send.buffer, in order
  put,        \* tokens of out that write() accepted
  arr,        \* tokens of the peer that have arrived in the kernel
  got,        \* tokens of the peer that read() returned
  used,       \* tokens of the peer taken out of recv.buffer
  reset       \* the socket has a pending error (EPOLLERR | EPOLLHUP)

io    == <<out, put, got, used>>
stream == <<recv, send, error, mmodel, note>>
vars  == <<cmd, recv, send, error, mmodel, note, transport, watch, todo,
           out, put, arr, got, used, reset>>

RecvStates == {"NONE", "AUTHENTICATE", "HEADER", "MODEL", "PAYLOAD", "CHECKSUM",
               "FOOTER", "SUCCESS", "ERROR"}
SendStates == {"NONE", "COMMAND", "RESPONSE", "PAYLOAD", "CHECKSUM", "FOOTER",
               "FLUSH", "SUCCESS", "ERROR"}
Errors == {"NONE", "PROXY", "AUTHENTICATE", "READ", "READEOF", "WRITE", "HEADER",
           "MODEL", "CHECKSUM", "FOOTER", "TIMEOUT", "MISC"}
Phases == {"read", "barrier", "write", "undefer", "finish", "hangup"}
Tokens == [t : {"auth", "hdr", "model", "data", "sum", "fin", "nl"}, v : Nat]

\* A token; v is a verdict (0 is good) or, in a checksum, the payload it covers.
Tok(t, v) == [t |-> t, v |-> v]

Min2(a, b) == IF a <= b THEN a ELSE b
Max2(a, b) == IF a >= b THEN a ELSE b
-----------------------------------------------------------------------------
(* Creation: tgenstream_new.  An unset recvsize clears send.requestedZero. *)

NewRecv(o, e) ==
  [state |-> IF e = "client" THEN "NONE" ELSE "AUTHENTICATE",
   requestedBytes |-> IF e = "client" /\ o.recvsize # Unset THEN o.recvsize ELSE 0,
   requestedZero |-> e = "client" /\ o.recvsize = 0,
   expectedBytes |-> 0, payloadBytes |-> 0, modelBytes |-> 0, checksumRecv |-> FALSE]

NewSend(o, e) ==
  [state |-> IF e = "client" THEN "COMMAND" ELSE "NONE",
   requestedBytes |-> IF e = "client" /\ o.sendsize # Unset THEN o.sendsize ELSE 0,
   requestedZero |-> e = "client" /\ o.sendsize = 0 /\ o.recvsize # Unset,
   payloadBytes |-> 0, defer |-> "none"]

\* A Markov model about to be walked from its start state by endpoint e.
NewModel(e) ==
  [loaded |-> e = "client", ended |-> FALSE, pauses |-> MaxPauses,
   toSend |-> IF e = "client" THEN ToServer ELSE ToOrigin,
   toRecv |-> IF e = "client" THEN ToOrigin ELSE ToServer]

Init ==
  /\ \E o \in Options : /\ recv = [e \in Ends |-> NewRecv(o, e)]
                        /\ send = [e \in Ends |-> NewSend(o, e)]
  /\ cmd \in Commands
  /\ error = [e \in Ends |-> "NONE"]
  /\ mmodel = [e \in Ends |-> NewModel(e)]
  /\ note = [e \in Ends |-> "none"]
  /\ transport = [e \in Ends |-> "CONNECT"]
  /\ watch = [e \in Ends |-> {"IN", "OUT"}]
  /\ todo = [e \in Ends |-> <<>>]
  /\ out = [e \in Ends |-> <<>>]
  /\ put = [e \in Ends |-> 0]
  /\ arr = [e \in Ends |-> 0]
  /\ got = [e \in Ends |-> 0]
  /\ used = [e \in Ends |-> 0]
  /\ reset = [e \in Ends |-> FALSE]
-----------------------------------------------------------------------------
(* The kernel's socket (external) and the receive buffer above it.         *)

Gone(e) == transport[e] = "CLOSED"

\* The peer's FIN has arrived behind all of its data.
AtEOF(e) == Gone(Peer(e)) /\ arr[e] = put[Peer(e)]

SockRoom(e) == SockBuf - (put[e] - got[Peer(e)])

Readable(e) == arr[e] > got[e] \/ AtEOF(e) \/ reset[e]

Writable(e) == SockRoom(e) > 0 \/ reset[e]

\* What read() returns: some tokens, EAGAIN, end of file or an error.
SockRead(e, limit) ==
  IF arr[e] > got[e] THEN [kind |-> "data", n |-> Min2(limit, arr[e] - got[e])]
  ELSE IF reset[e] THEN [kind |-> "error", n |-> 0]
  ELSE IF AtEOF(e) THEN [kind |-> "eof", n |-> 0]
  ELSE [kind |-> "again", n |-> 0]

Buffered(e) == got[e] - used[e]

\* _tgenstream_read: drain recv.buffer first, and only then the socket.
StreamRead(e, limit) ==
  IF Buffered(e) > 0 THEN [kind |-> "data", n |-> Min2(limit, Buffered(e))]
  ELSE SockRead(e, limit)

\* The first n tokens after those already taken are taken.
Take(e, n) ==
  /\ used' = [used EXCEPT ![e] = @ + n]
  /\ got' = [got EXCEPT ![e] = Max2(@, used[e] + n)]

Newlines(e, hi) == {i \in used[e] + 1 .. hi : out[Peer(e)][i].t = "nl"}

\* Mutant of GetLine: only lines that a new read() completes are seen.
GetLine_ignoringBuffer(e) ==
  LET r == SockRead(e, ReadMax)
  IN  IF r.kind # "data" THEN r
      ELSE IF Newlines(e, got[e] + r.n) # {} THEN [kind |-> "line", n |-> r.n]
      ELSE [kind |-> "again", n |-> r.n]

\* _tgenstream_getLine: a line from recv.buffer if it holds one, else from
\* recv.buffer followed by what one read() returns.
GetLine(e) ==
  IF Newlines(e, got[e]) # {} THEN [kind |-> "line", n |-> 0]
  ELSE LET r == SockRead(e, ReadMax)
       IN  IF r.kind # "data" THEN r
           ELSE IF Newlines(e, got[e] + r.n) # {} THEN [kind |-> "line", n |-> r.n]
           ELSE [kind |-> "again", n |-> r.n]

\* Mutant of TakeLine: recv.buffer is freed with what follows the line in it.
TakeLine_droppingRest(e, r) ==
  /\ got' = [got EXCEPT ![e] = @ + r.n]
  /\ used' = [used EXCEPT ![e] = IF r.kind = "line" THEN got'[e] ELSE @]

\* The read() behind a line; a complete line leaves recv.buffer.
TakeLine(e, r) ==
  /\ got' = [got EXCEPT ![e] = @ + r.n]
  /\ IF r.kind = "line"
     THEN \E i \in Newlines(e, got[e] + r.n) :
            /\ \A j \in Newlines(e, got[e] + r.n) : i <= j
            /\ used' = [used EXCEPT ![e] = i]
     ELSE UNCHANGED used

LineText(e) == out[Peer(e)][used[e] + 1]

Leave(e) == todo' = [todo EXCEPT ![e] = Tail(@)]

\* A stage ends its event phase after an unsuccessful read.
ReadFails(e, kind) ==
  /\ recv' = [recv EXCEPT ![e].state = IF kind = "again" THEN @ ELSE "ERROR"]
  /\ error' = [error EXCEPT ![e] = CASE kind = "error" -> "READ"
                                     [] kind = "eof"   -> "READEOF"
                                     [] OTHER          -> @]
  /\ Leave(e)
-----------------------------------------------------------------------------
(* The stages of onReadable, each in the phase "read".  A stage that        *)
(* returns TRUE leaves the phase in place for the next stage.               *)

Reading(e, state) ==
  /\ todo[e] # <<>>
  /\ Head(todo[e]) = "read"
  /\ recv[e].state = state
  /\ UNCHANGED <<cmd, note, transport, watch, out, put, arr, reset>>

readAuthenticate(e) ==
  LET r == StreamRead(e, 1) IN
  /\ Reading(e, "AUTHENTICATE")
  /\ Take(e, r.n)
  /\ IF r.kind # "data" THEN ReadFails(e, r.kind)
     ELSE IF LineText(e) = Tok("auth", 0)
     THEN /\ recv' = [recv EXCEPT ![e].state = "HEADER"]
          /\ UNCHANGED <<error, todo>>
     ELSE /\ recv' = [recv EXCEPT ![e].state = "ERROR"]
          /\ error' = [error EXCEPT ![e] = "AUTHENTICATE"]
          /\ Leave(e)
  /\ UNCHANGED <<send, mmodel>>

\* The client's response header carries a code, the server's command header
\* the sizes and, in path mode, the name of a model to load.
HeaderAccepted(e) ==
  /\ LineText(e) = Tok("hdr", 0)
  /\ e = "server" /\ cmd.path => cmd.model

readHeader(e) ==
  LET r == GetLine(e) IN
  /\ Reading(e, "HEADER")
  /\ TakeLine(e, r)
  /\ IF r.kind # "line" THEN ReadFails(e, r.kind) /\ UNCHANGED <<send, mmodel>>
     ELSE IF ~HeaderAccepted(e)
     THEN /\ recv' = [recv EXCEPT ![e].state = "ERROR"]
          /\ error' = [error EXCEPT ![e] = "HEADER"]
          /\ send' = [send EXCEPT ![e].state =
                        IF e = "client" THEN "SUCCESS" ELSE "RESPONSE"]
          /\ Leave(e)
          /\ UNCHANGED mmodel
     ELSE IF e = "client"
     THEN /\ recv' = [recv EXCEPT ![e].state = "PAYLOAD"]
          /\ UNCHANGED <<error, send, mmodel, todo>>
     ELSE \* the other side's send size is our recv size, and its recv our send
          /\ recv' = [recv EXCEPT
               ![e].state = "MODEL",
               ![e].requestedBytes = send["client"].requestedBytes,
               ![e].requestedZero = send["client"].requestedZero]
          /\ send' = [send EXCEPT
               ![e].requestedBytes = recv["client"].requestedBytes,
               ![e].requestedZero = recv["client"].requestedZero]
          /\ mmodel' = [mmodel EXCEPT ![e].loaded = cmd.path]
          /\ UNCHANGED <<error, todo>>

StartResponse(e) ==
  /\ recv' = [recv EXCEPT ![e].state = "PAYLOAD"]
  /\ send' = [send EXCEPT ![e].state = "RESPONSE"]
  /\ UNCHANGED <<error, todo>>

\* A model that came as a path is there already, and nothing is read.
skipModel(e) ==
  /\ Reading(e, "MODEL")
  /\ mmodel[e].loaded
  /\ StartResponse(e)
  /\ UNCHANGED <<mmodel, got, used>>

readModel(e) ==
  LET r == StreamRead(e, Min2(ReadMax, ModelSize - recv[e].modelBytes))
      have == recv[e].modelBytes + r.n
  IN
  /\ Reading(e, "MODEL")
  /\ ~mmodel[e].loaded
  /\ Take(e, r.n)
  /\ IF r.kind # "data" THEN ReadFails(e, r.kind) /\ UNCHANGED <<send, mmodel>>
     ELSE IF have < ModelSize
     THEN /\ recv' = [recv EXCEPT ![e].modelBytes = have]
          /\ Leave(e)
          /\ UNCHANGED <<error, send, mmodel>>
     ELSE IF cmd.model
     THEN StartResponse(e) /\ mmodel' = [mmodel EXCEPT ![e].loaded = TRUE]
     ELSE /\ recv' = [recv EXCEPT ![e].state = "ERROR"]
          /\ send' = [send EXCEPT ![e].state = "RESPONSE"]
          /\ error' = [error EXCEPT ![e] = "MODEL"]
          /\ Leave(e)
          /\ UNCHANGED mmodel

\* Mutant of PayloadLimit: a full buffer is read whatever is left to receive.
PayloadLimit_full(e) == ReadMax

PayloadLimit(e) ==
  IF recv[e].requestedBytes > 0
  THEN Min2(ReadMax, recv[e].requestedBytes - recv[e].payloadBytes)
  ELSE ReadMax

readPayload(e) ==
  LET r == IF recv[e].requestedBytes = 0 /\ recv[e].requestedZero
           THEN [kind |-> "skip", n |-> 0]
           ELSE StreamRead(e, PayloadLimit(e))
      have == recv[e].payloadBytes + r.n
      sized == recv[e].requestedBytes > 0
  IN
  /\ Reading(e, "PAYLOAD")
  /\ Take(e, r.n)
  /\ IF \/ r.kind = "skip"
        \/ r.kind = "eof" /\ ~sized
        \/ r.kind = "data" /\ sized /\ have >= recv[e].requestedBytes
     THEN /\ recv' = [recv EXCEPT ![e].state = "CHECKSUM", ![e].payloadBytes = have]
          /\ UNCHANGED <<error, todo>>
     ELSE IF r.kind = "data"
     THEN /\ recv' = [recv EXCEPT ![e].payloadBytes = have]
          /\ Leave(e)
          /\ UNCHANGED error
     ELSE ReadFails(e, r.kind)
  /\ UNCHANGED <<send, mmodel>>

\* No checksum is sent, and checksumRecv stays unset, without a known size.
skipChecksum(e) ==
  /\ Reading(e, "CHECKSUM")
  /\ recv[e].requestedBytes = 0
  /\ recv' = [recv EXCEPT ![e].state = "FOOTER"]
  /\ UNCHANGED <<error, todo, send, mmodel, got, used>>

readChecksum(e) ==
  LET r == GetLine(e) IN
  /\ Reading(e, "CHECKSUM")
  /\ recv[e].requestedBytes > 0
  /\ TakeLine(e, r)
  /\ IF r.kind # "line" THEN ReadFails(e, r.kind)
     ELSE IF LineText(e) = Tok("sum", recv[e].payloadBytes)
     THEN /\ recv' = [recv EXCEPT ![e].state = "FOOTER", ![e].checksumRecv = TRUE]
          /\ UNCHANGED <<error, todo>>
     ELSE /\ recv' = [recv EXCEPT ![e].state = "ERROR", ![e].checksumRecv = TRUE]
          /\ error' = [error EXCEPT ![e] = "CHECKSUM"]
          /\ Leave(e)
  /\ UNCHANGED <<send, mmodel>>

Sized(r) == r.requestedBytes > 0 \/ r.requestedZero

skipFooter(e) ==
  /\ Reading(e, "FOOTER")
  /\ ~Sized(recv[e])
  /\ recv' = [recv EXCEPT ![e].state = "SUCCESS"]
  /\ UNCHANGED <<error, todo, send, mmodel, got, used>>

readFooter(e) ==
  LET r == GetLine(e) IN
  /\ Reading(e, "FOOTER")
  /\ Sized(recv[e])
  /\ TakeLine(e, r)
  /\ IF r.kind # "line" THEN ReadFails(e, r.kind)
     ELSE IF LineText(e).t = "fin"
     THEN /\ recv' = [recv EXCEPT ![e].state = "SUCCESS"]
          /\ UNCHANGED <<error, todo>>
     ELSE /\ recv' = [recv EXCEPT ![e].state = "ERROR"]
          /\ error' = [error EXCEPT ![e] = "FOOTER"]
          /\ Leave(e)
  /\ UNCHANGED <<send, mmodel>>

\* onReadable has no stage for these states.
endReadable(e) ==
  /\ \E s \in {"NONE", "SUCCESS", "ERROR"} : Reading(e, s)
  /\ Leave(e)
  /\ UNCHANGED <<stream, got, used>>

onReadable(e) ==
  \/ readAuthenticate(e) \/ readHeader(e) \/ skipModel(e) \/ readModel(e)
  \/ readPayload(e) \/ skipChecksum(e) \/ readChecksum(e) \/ skipFooter(e)
  \/ readFooter(e) \/ endReadable(e)
-----------------------------------------------------------------------------
(* The stages of onWritable, each in the phase "write".                     *)

Writing(e, state) ==
  /\ todo[e] # <<>>
  /\ Head(todo[e]) = "write"
  /\ send[e].state = state
  /\ UNCHANGED <<cmd, note, transport, watch, arr, got, used, reset>>

\* The send buffer: tokens that write() has not accepted yet.
Pending(e) == Len(out[e]) - put[e]

\* Mutant of Flushed: a short write() is taken for a complete one.
Flushed_all(e, o) == Len(o) - put[e]

\* _tgenstream_flushOut on send buffer contents up to the end of the log o:
\* how many tokens write() accepts.
Flushed(e, o) == Min2(Len(o) - put[e], SockRoom(e))

\* Mutant of Queue: the line is buffered on every event.
Queue_again(e, line) == out[e] \o line

\* Buffer a line unless part of it is still buffered from an earlier event.
Queue(e, line) == IF Pending(e) = 0 THEN out[e] \o line ELSE out[e]

WriteError(e) ==
  /\ send' = [send EXCEPT ![e].state = "ERROR"]
  /\ error' = [error EXCEPT ![e] = "WRITE"]
  /\ Leave(e)
  /\ UNCHANGED put

\* Write what is buffered of o; the stage is over once all of it is written.
WriteLine(e, line, next) ==
  LET o == Queue(e, line) IN
  /\ out' = [out EXCEPT ![e] = o]
  /\ IF reset[e] THEN WriteError(e)
     ELSE /\ put' = [put EXCEPT ![e] = @ + Flushed(e, o)]
          /\ UNCHANGED error
          /\ IF Flushed(e, o) = Len(o) - put[e]
             THEN send' = [send EXCEPT ![e].state = next] /\ UNCHANGED todo
             ELSE Leave(e) /\ UNCHANGED send

Verdict(ok) == IF ok THEN 0 ELSE 1

Command ==
  <<Tok("auth", Verdict(cmd.auth)), Tok("hdr", Verdict(cmd.header)), Tok("nl", 0)>>
    \o (IF cmd.path THEN <<>> ELSE [i \in 1 .. ModelSize |-> Tok("model", 0)])

writeCommand(e) ==
  /\ Writing(e, "COMMAND")
  /\ WriteLine(e, Command, "PAYLOAD")
  /\ recv' = [recv EXCEPT ![e].state =
                IF send'[e].state = "PAYLOAD" THEN "AUTHENTICATE" ELSE @]
  /\ UNCHANGED mmodel

writeResponse(e) ==
  /\ Writing(e, "RESPONSE")
  /\ WriteLine(e, <<Tok("auth", 0), Tok("hdr", Verdict(error[e] = "NONE")), Tok("nl", 0)>>,
               IF error[e] = "NONE" THEN "PAYLOAD" ELSE "SUCCESS")
  /\ UNCHANGED <<recv, mmodel>>

\* writePayload, while tokens are left in the send buffer: flush them.
flushPayload(e) ==
  LET n == Flushed(e, out[e]) IN
  /\ Writing(e, "PAYLOAD")
  /\ Pending(e) > 0
  /\ IF reset[e] THEN WriteError(e)
     ELSE /\ put' = [put EXCEPT ![e] = @ + n]
          /\ send' = [send EXCEPT ![e].payloadBytes = @ + n]
          /\ IF n = Pending(e) THEN UNCHANGED todo ELSE Leave(e)
          /\ UNCHANGED error
  /\ UNCHANGED <<recv, mmodel, out>>

DoneSending(e) ==
  IF send[e].requestedBytes > 0
  THEN send[e].payloadBytes >= send[e].requestedBytes
  ELSE send[e].requestedZero \/ mmodel[e].ended

endPayload(e) ==
  /\ Writing(e, "PAYLOAD")
  /\ Pending(e) = 0
  /\ DoneSending(e)
  /\ send' = [send EXCEPT ![e].state = "CHECKSUM"]
  /\ UNCHANGED <<recv, error, mmodel, todo, out, put>>

\* The walk over the Markov model that fills one write buffer: s packets to
\* send, r packets to expect, the end of the model reached, or a delay that
\* defers the next write.  A stream with a send size repeats the model until
\* the size is reached; one without stops where the model ends.  What to expect
\* is counted only where it is used, without a receive size.
Walks(e) ==
  LET sized == send[e].requestedBytes > 0
      limit == IF sized THEN Min2(send[e].requestedBytes - send[e].payloadBytes, WriteMax)
               ELSE Min2(mmodel[e].toSend, WriteMax)
      most  == IF Sized(recv[e]) THEN 0 ELSE mmodel[e].toRecv
  IN {w \in [s : 0 .. limit, r : 0 .. most, ended : BOOLEAN, defer : BOOLEAN] :
        /\ w.defer => mmodel[e].pauses > 0 /\ ~w.ended
        /\ w.ended => ~sized /\ w.s = mmodel[e].toSend /\ w.r = most
        /\ w.ended \/ w.defer \/ w.s = IF sized THEN limit ELSE WriteMax}

\* writePayload with an empty send buffer: walk the model, buffer the packets
\* and write them.
writePayload(e) ==
  \E w \in Walks(e) :
    LET o == out[e] \o [i \in 1 .. w.s |-> Tok("data", 0)]
        n == Flushed(e, o)
        broken == reset[e] /\ w.s > 0
    IN
    /\ Writing(e, "PAYLOAD")
    /\ Pending(e) = 0
    /\ ~DoneSending(e)
    /\ out' = [out EXCEPT ![e] = o]
    /\ put' = [put EXCEPT ![e] = IF broken THEN @ ELSE @ + n]
    /\ send' = [send EXCEPT
         ![e].state = IF broken THEN "ERROR" ELSE @,
         ![e].payloadBytes = IF broken THEN @ ELSE @ + n,
         ![e].defer = IF w.defer THEN "pending" ELSE @]
    /\ error' = [error EXCEPT ![e] = IF broken THEN "WRITE" ELSE @]
    /\ recv' = [recv EXCEPT ![e].expectedBytes = @ + w.r]
    /\ mmodel' = [mmodel EXCEPT
         ![e].toSend = IF send[e].requestedBytes > 0 THEN @ ELSE @ - w.s,
         ![e].toRecv = IF send[e].requestedBytes > 0 THEN @ ELSE @ - w.r,
         ![e].ended = w.ended,
         ![e].pauses = IF w.defer THEN @ - 1 ELSE @]
    /\ Leave(e)

skipSendChecksum(e) ==
  /\ Writing(e, "CHECKSUM")
  /\ send[e].requestedBytes = 0
  /\ send' = [send EXCEPT ![e].state = "FOOTER"]
  /\ UNCHANGED <<recv, error, mmodel, todo, out, put>>

writeChecksum(e) ==
  /\ Writing(e, "CHECKSUM")
  /\ send[e].requestedBytes > 0
  /\ WriteLine(e, <<Tok("sum", send[e].payloadBytes), Tok("nl", 0)>>, "FOOTER")
  /\ UNCHANGED <<recv, mmodel>>

skipSendFooter(e) ==
  /\ Writing(e, "FOOTER")
  /\ ~Sized(send[e])
  /\ send' = [send EXCEPT ![e].state = "FLUSH"]
  /\ UNCHANGED <<recv, error, mmodel, todo, out, put>>

\* Mutant of ReceivedAll: the footer does not wait for the peer's checksum.
ReceivedAll_early(e) == recv[e].state \in {"CHECKSUM", "FOOTER", "SUCCESS"}

ReceivedAll(e) == recv[e].state \in {"FOOTER", "SUCCESS"}

holdFooter(e) ==
  /\ Writing(e, "FOOTER")
  /\ Sized(send[e])
  /\ ~ReceivedAll(e)
  /\ Leave(e)
  /\ UNCHANGED <<recv, send, error, mmodel, out, put>>

writeFooter(e) ==
  /\ Writing(e, "FOOTER")
  /\ Sized(send[e])
  /\ ReceivedAll(e)
  /\ WriteLine(e, <<Tok("fin", 0), Tok("nl", 0)>>, "FLUSH")
  /\ UNCHANGED <<recv, mmodel>>

\* The send buffer is empty whenever this state is reached, and
\* tgentransport_shutdownWrites does nothing.
flush(e) ==
  /\ Writing(e, "FLUSH")
  /\ send' = [send EXCEPT ![e].state = "SUCCESS"]
  /\ UNCHANGED <<recv, error, mmodel, todo, out, put>>

endWritable(e) ==
  /\ \E s \in {"NONE", "SUCCESS", "ERROR"} : Writing(e, s)
  /\ Leave(e)
  /\ UNCHANGED <<recv, send, error, mmodel, out, put>>

onWritable(e) ==
  \/ writeCommand(e) \/ writeResponse(e) \/ flushPayload(e) \/ endPayload(e)
  \/ writePayload(e) \/ skipSendChecksum(e) \/ writeChecksum(e)
  \/ skipSendFooter(e) \/ holdFooter(e) \/ writeFooter(e) \/ flush(e)
  \/ endWritable(e)
-----------------------------------------------------------------------------
(* Events: epoll, onEvent, runStreamEventLoop, computeWantedEvents.         *)

Idle(e) == todo[e] = <<>> /\ ~Gone(e)

When(cond, phases) == IF cond THEN phases ELSE <<>>

\* epoll is level-triggered: every ready event that is watched is reported,
\* an error or hang-up always.
onEvent(e) ==
  LET in   == "IN" \in watch[e] /\ Readable(e)
      ou   == "OUT" \in watch[e] /\ Writable(e)
      done == reset[e]
  IN
  /\ Idle(e)
  /\ transport[e] = "SUCCESSOPEN"
  /\ in \/ ou \/ done
  /\ todo' = [todo EXCEPT ![e] =
       When(in, <<"read">>) \o When(ou, <<"barrier", "write">>)
         \o (IF done THEN <<"read", "read", "undefer", "barrier", "write", "hangup">>
             ELSE <<"finish">>)]
  /\ UNCHANGED <<cmd, stream, transport, watch, io, arr, reset>>

InPhase(e, phase) == todo[e] # <<>> /\ Head(todo[e]) = phase

\* onWritable starts by clearing a barrier, which must have passed by then.
clearBarrier(e) ==
  /\ InPhase(e, "barrier") \/ InPhase(e, "undefer")
  /\ send' = [send EXCEPT ![e].defer = "none"]
  /\ Leave(e)
  /\ UNCHANGED <<cmd, recv, error, mmodel, note, transport, watch, io, arr, reset>>

RecvDone(e) ==
  \/ recv[e].state \in {"SUCCESS", "ERROR"}
  \/ recv[e].state = "NONE" /\ send[e].state = "ERROR"
  \/ error[e] # "NONE"

SendDone(e) ==
  \/ send[e].state \in {"SUCCESS", "ERROR"}
  \/ send[e].state = "NONE" /\ recv[e].state = "ERROR"
  \/ error[e] # "NONE"

\* Mutant of MetExpected: what the model announced is not waited for.
MetExpected_sent(e) == SendDone(e) /\ ~RecvDone(e) /\ ~Sized(recv[e])

\* Without a receive size, what the model announced is all there is to receive.
MetExpected(e) ==
  /\ SendDone(e) /\ ~RecvDone(e)
  /\ ~Sized(recv[e])
  /\ recv[e].payloadBytes >= recv[e].expectedBytes

StreamDone(e) == SendDone(e) /\ (RecvDone(e) \/ MetExpected(e))

WantsRead(e) == ~StreamDone(e) /\ ~RecvDone(e) /\ recv[e].state # "NONE"

WantsWrite(e) ==
  /\ ~StreamDone(e) /\ ~SendDone(e) /\ send[e].state # "NONE"
  /\ send[e].state # "FOOTER" \/ recv[e].checksumRecv

\* callNotifyComplete, once: the callback is cleared when it was called.
Notify(e, err) ==
  note' = [note EXCEPT ![e] = IF @ # "none" THEN @
                              ELSE IF err = "NONE" THEN "success" ELSE "failure"]

\* tgenio_deregister drops the last reference: the socket is closed.
Deregister(e) ==
  /\ transport' = [transport EXCEPT ![e] = "CLOSED"]
  /\ watch' = [watch EXCEPT ![e] = {}]
  /\ todo' = [todo EXCEPT ![e] = <<>>]

\* Mutant of Watched: writes are watched for although they are deferred.
Watched_eagerly(e) ==
  {ev \in {"IN", "OUT"} : IF ev = "IN" THEN WantsRead(e) ELSE WantsWrite(e)}

\* The events to watch: a deferred write is watched for only once its
\* barrier has passed, until then a timer is armed.
Watched(e) ==
  {ev \in {"IN", "OUT"} :
     IF ev = "IN" THEN WantsRead(e) ELSE WantsWrite(e) /\ send[e].defer # "pending"}

finish(e) ==
  /\ InPhase(e, "finish")
  /\ recv' = [recv EXCEPT ![e].state = IF MetExpected(e) THEN "SUCCESS" ELSE @]
  /\ IF StreamDone(e)
     THEN Notify(e, error[e]) /\ Deregister(e)
     ELSE /\ watch' = [watch EXCEPT ![e] = Watched(e)]
          /\ Leave(e)
          /\ UNCHANGED <<note, transport>>
  /\ UNCHANGED <<cmd, send, error, mmodel, io, arr, reset>>

\* onEpollERRHUP and what follows it: an unfinished stream fails, and the
\* descriptor is deregistered in any case.
hangup(e) ==
  LET failed == ~StreamDone(e) IN
  /\ InPhase(e, "hangup")
  /\ recv' = [recv EXCEPT ![e].state =
       IF failed /\ WantsRead(e) THEN "ERROR" ELSE IF MetExpected(e) THEN "SUCCESS" ELSE @]
  /\ send' = [send EXCEPT ![e].state =
       IF failed /\ WantsWrite(e) /\ send[e].defer = "none" THEN "ERROR" ELSE @]
  /\ error' = [error EXCEPT ![e] = IF failed THEN "MISC" ELSE @]
  /\ Notify(e, error'[e])
  /\ Deregister(e)
  /\ UNCHANGED <<cmd, mmodel, io, arr, reset>>

\* runTransportEventLoop on a direct connection: the socket is connected, or
\* epoll reported an error and the stream fails before it began.
connect(e) ==
  /\ Idle(e)
  /\ transport[e] = "CONNECT"
  /\ ~reset[e]
  /\ transport' = [transport EXCEPT ![e] = "SUCCESSOPEN"]
  /\ watch' = [watch EXCEPT ![e] = {"IN", "OUT"}]
  /\ UNCHANGED <<cmd, stream, todo, io, arr, reset>>

\* Mutant of connectFails: the stream is dropped without telling the driver.
connectFails_silently(e) ==
  /\ Idle(e)
  /\ transport[e] = "CONNECT"
  /\ reset[e]
  /\ error' = [error EXCEPT ![e] = "PROXY"]
  /\ Deregister(e)
  /\ UNCHANGED <<cmd, recv, send, mmodel, note, io, arr, reset>>

connectFails(e) ==
  /\ Idle(e)
  /\ transport[e] = "CONNECT"
  /\ reset[e]
  /\ error' = [error EXCEPT ![e] = "PROXY"]
  /\ Notify(e, "PROXY")
  /\ Deregister(e)
  /\ UNCHANGED <<cmd, recv, send, mmodel, io, arr, reset>>

\* The clock passes the time that a write was deferred to.
barrierPasses(e) ==
  /\ ~Gone(e)
  /\ send[e].defer = "pending"
  /\ send' = [send EXCEPT ![e].defer = "passed"]
  /\ UNCHANGED <<cmd, recv, error, mmodel, note, transport, watch, todo, io, arr, reset>>

\* _tgenio_onDeferTimerExpired: watch for writes again.
onDeferTimerExpired(e) ==
  /\ Idle(e)
  /\ send[e].defer = "passed"
  /\ "OUT" \notin watch[e]
  /\ watch' = [watch EXCEPT ![e] = @ \cup {"OUT"}]
  /\ UNCHANGED <<cmd, stream, transport, todo, io, arr, reset>>

\* Mutant of onCheckTimeout: a stream that has only its footer left to send is
\* left alone.
onCheckTimeout_beforeFooter(e) ==
  /\ Timeouts
  /\ Idle(e)
  /\ send[e].state # "FOOTER"
  /\ error' = [error EXCEPT ![e] = IF transport[e] = "CONNECT" THEN "PROXY" ELSE "TIMEOUT"]
  /\ Notify(e, "TIMEOUT")
  /\ Deregister(e)
  /\ UNCHANGED <<cmd, recv, send, mmodel, io, arr, reset>>

\* A heartbeat finds the stream past its timeout or stallout.
onCheckTimeout(e) ==
  /\ Timeouts
  /\ Idle(e)
  /\ error' = [error EXCEPT ![e] = IF transport[e] = "CONNECT" THEN "PROXY" ELSE "TIMEOUT"]
  /\ Notify(e, "TIMEOUT")
  /\ Deregister(e)
  /\ UNCHANGED <<cmd, recv, send, mmodel, io, arr, reset>>
-----------------------------------------------------------------------------
(* The network (external).                                                  *)

deliver(e) ==
  /\ ~Gone(e) /\ ~reset[e]
  /\ arr[e] < put[Peer(e)]
  /\ arr' = [arr EXCEPT ![e] = @ + 1]
  /\ UNCHANGED <<cmd, stream, transport, watch, todo, io, reset>>

Reset(e) ==
  /\ ~Gone(e) /\ ~reset[e]
  /\ reset' = [reset EXCEPT ![e] = TRUE]
  /\ UNCHANGED <<cmd, stream, transport, watch, todo, io, arr>>

\* The peer closed its socket and will not read all that was written to it.
peerResets(e) == Gone(Peer(e)) /\ got[Peer(e)] < put[e] /\ Reset(e)

networkResets(e) == Faults /\ Reset(e)

step(e) ==
  \/ onReadable(e) \/ onWritable(e) \/ onEvent(e) \/ clearBarrier(e) \/ finish(e)
  \/ hangup(e) \/ connect(e) \/ connectFails(e) \/ onDeferTimerExpired(e)

\* Both streams are destroyed.
ended == (\A e \in Ends : Gone(e)) /\ UNCHANGED vars

Next ==
  \/ \E e \in Ends : step(e) \/ barrierPasses(e) \/ onCheckTimeout(e)
                     \/ deliver(e) \/ peerResets(e) \/ networkResets(e)
  \/ ended

Spec == Init /\ [][Next]_vars

Fairness ==
  \A e \in Ends : /\ WF_vars(step(e))
                  /\ WF_vars(barrierPasses(e))
                  /\ WF_vars(onCheckTimeout(e))
                  /\ WF_vars(deliver(e))
                  /\ WF_vars(peerResets(e))

FairSpec == Spec /\ Fairness
-----------------------------------------------------------------------------
(* Properties.                                                              *)

RecvType == [state : RecvStates, requestedBytes : Nat, requestedZero : BOOLEAN,
             expectedBytes : Nat, payloadBytes : Nat, modelBytes : Nat,
             checksumRecv : BOOLEAN]
SendType == [state : SendStates, requestedBytes : Nat, requestedZero : BOOLEAN,
             payloadBytes : Nat, defer : {"none", "pending", "passed"}]
ModelType == [loaded : BOOLEAN, ended : BOOLEAN, pauses : Nat, toSend : Nat, toRecv : Nat]

StreamTypes ==
  /\ cmd \in CommandType
  /\ recv \in [Ends -> RecvType]
  /\ send \in [Ends -> SendType]
  /\ error \in [Ends -> Errors]
  /\ mmodel \in [Ends -> ModelType]
  /\ note \in [Ends -> {"none", "success", "failure"}]
  /\ transport \in [Ends -> {"CONNECT", "SUCCESSOPEN", "CLOSED"}]
  /\ watch \in [Ends -> SUBSET {"IN", "OUT"}]
  /\ todo \in [Ends -> Seq(Phases)]
  /\ reset \in [Ends -> BOOLEAN]

ChannelTypes ==
  /\ out \in [Ends -> Seq(Tokens)]
  /\ put \in [Ends -> Nat] /\ arr \in [Ends -> Nat]
  /\ got \in [Ends -> Nat] /\ used \in [Ends -> Nat]

\* The counters cut each log in order, and the kernel's buffers are not exceeded.
CountersInOrder ==
  \A e \in Ends :
    /\ used[e] <= got[e] /\ got[e] <= arr[e]
    /\ arr[e] <= put[Peer(e)] /\ put[e] <= Len(out[e])
    /\ put[e] <= got[Peer(e)] + SockBuf

\* Every variable has its type; tokens are taken, read, delivered, written and
\* buffered in this order.
TypeOK == StreamTypes /\ ChannelTypes /\ CountersInOrder

\* Everything that was asked for has been received, with its checksum.
GotRequested(e) ==
  recv[e].requestedBytes > 0 =>
    recv[e].payloadBytes = recv[e].requestedBytes /\ recv[e].checksumRecv

\* The footer's purpose (comment in writeFooter): an endpoint that reports
\* success on a stream whose receive size was set (also to 0) has received all it
\* asked for, with its checksum, and so has its peer.
SuccessIsMutual ==
  \A e \in Ends :
    note[e] = "success" /\ Sized(recv[e]) =>
      /\ GotRequested(e)
      /\ GotRequested(Peer(e))

\* A client reports success only on a stream whose password, header and model
\* the server accepts.  With no receive size it ends by what its model announces,
\* not by an answer of the server, and computeWantedEvents has no other sign that
\* there was one; a model that announces nothing to receive is excepted, as
\* a client without a size then takes a refused stream for a success.
SuccessIsAccepted ==
  note["client"] = "success" /\ (Sized(recv["client"]) \/ ToOrigin > 0) =>
    cmd.auth /\ cmd.header /\ cmd.model

\* Framing: over any segmentation of the byte stream and any split between
\* recv.buffer and the kernel, a token is counted as payload exactly when it
\* was sent as payload.
Framing ==
  \A e \in Ends :
    recv[e].payloadBytes =
      Cardinality({i \in 1 .. used[e] : out[Peer(e)][i].t = "data"})

\* A stream never waits in epoll for bytes that it has buffered itself: between
\* events, a stream that is not done receiving holds at most the start of the
\* line it is waiting for.
NoStrandedInput ==
  \A e \in Ends :
    Idle(e) /\ Buffered(e) > 0 =>
      /\ recv[e].state \in {"HEADER", "CHECKSUM", "FOOTER"}
      /\ Newlines(e, got[e]) = {}

\* The assertion at the top of onWritable: no write is attempted before the
\* time that the Markov model deferred it to, also when an error or hang-up
\* is reported while the write is deferred.
BarrierRespected == \A e \in Ends : InPhase(e, "barrier") => send[e].defer # "pending"

\* The driver hears of a stream's completion exactly when the stream is
\* destroyed, however it ends, and of a success only without an error.
CompletionNotified ==
  \A e \in Ends : /\ Gone(e) <=> note[e] # "none"
                  /\ note[e] = "success" => error[e] = "NONE"

\* The assertions and unsigned subtractions of the read and write stages:
\* no stage exceeds the requested size or the model's size, and nothing is
\* left in the send buffer when a stage starts to buffer something new.
StagesInBounds ==
  \A e \in Ends :
    /\ recv[e].modelBytes < ModelSize
    /\ recv[e].requestedBytes > 0 => recv[e].payloadBytes <= recv[e].requestedBytes
    /\ send[e].requestedBytes > 0 => send[e].payloadBytes + Pending(e) <=
         send[e].requestedBytes \/ send[e].state # "PAYLOAD"
    /\ send[e].state \in {"FLUSH", "SUCCESS"} /\ error[e] = "NONE" => Pending(e) = 0

\* Without faults and timeouts, a stream whose command the server accepts
\* completes successfully on both ends.
BothSucceed == <>[](\A e \in Ends : note[e] = "success")

\* With timeouts every stream ends, whatever its sizes and whatever the network
\* does to it.
EveryStreamEnds == \A e \in Ends : <>Gone(e)
-----------------------------------------------------------------------------
(* The inductive strengthening of SuccessIsMutual, CompletionNotified,      *)
(* StagesInBounds, BarrierRespected and SuccessIsAccepted.                  *)

HasFooter(e) == \E i \in 1 .. Len(out[e]) : out[e][i].t = "fin"

\* No read exceeds the model's size or the requested size, and payload is
\* counted only after the handshake.
ReadsInBounds(e) ==
  /\ recv[e].modelBytes < ModelSize
  /\ recv[e].requestedBytes > 0 => recv[e].payloadBytes <= recv[e].requestedBytes
  /\ recv[e].state \in {"NONE", "AUTHENTICATE", "HEADER", "MODEL"} =>
       recv[e].payloadBytes = 0

\* An error state comes with an error, and a command comes before any receipt.
StatesAgree(e) ==
  /\ recv[e].state = "ERROR" \/ send[e].state = "ERROR" => error[e] # "NONE"
  /\ send[e].state = "COMMAND" => recv[e].state = "NONE"

\* Which receive states imply that everything requested was received.
ReceiptInOrder(e) ==
  /\ recv[e].state = "CHECKSUM" /\ recv[e].requestedBytes > 0 =>
       recv[e].payloadBytes = recv[e].requestedBytes
  /\ ReceivedAll(e) => GotRequested(e)

\* A footer is buffered only by an endpoint that received everything, and a
\* stream with a receive size succeeds only on the peer's footer.
FooterMeansReceived(e) ==
  /\ HasFooter(e) => recv[e].state \in {"FOOTER", "SUCCESS", "ERROR"} /\ GotRequested(e)
  /\ recv[e].state = "SUCCESS" /\ Sized(recv[e]) => HasFooter(Peer(e))

\* A destroyed stream has notified the driver and handles no event.
DestroyedIsFinal(e) ==
  /\ Gone(e) <=> note[e] # "none"
  /\ Gone(e) => todo[e] = <<>>
  /\ note[e] = "success" => recv[e].state = "SUCCESS" /\ error[e] = "NONE"

EndInv(e) ==
  /\ ReadsInBounds(e) /\ StatesAgree(e) /\ ReceiptInOrder(e)
  /\ FooterMeansReceived(e) /\ DestroyedIsFinal(e)

EndsInOrder == \A e \in Ends : EndInv(e)

\* What may be left of an event while a write is deferred: the next write comes after
\* the "undefer" of onEpollERRHUP, if any.
DeferredPlans ==
  {<<>>, <<"finish">>, <<"read", "finish">>, <<"hangup">>,
   <<"undefer", "barrier", "write", "hangup">>,
   <<"read", "undefer", "barrier", "write", "hangup">>,
   <<"read", "read", "undefer", "barrier", "write", "hangup">>,
   <<"read", "read", "read", "undefer", "barrier", "write", "hangup">>}

\* What may be left of an event that will write first.
WritingPlans ==
  {<<"write", "finish">>, <<"barrier", "write", "finish">>,
   <<"read", "barrier", "write", "finish">>,
   <<"write", "hangup">>, <<"barrier", "write", "hangup">>,
   <<"write", "read", "read", "undefer", "barrier", "write", "hangup">>,
   <<"barrier", "write", "read", "read", "undefer", "barrier", "write", "hangup">>,
   <<"read", "barrier", "write", "read", "read", "undefer", "barrier", "write", "hangup">>}

\* A deferred write is not watched for between events, and no event that is being handled
\* comes to it.
DeferralKept(e) ==
  /\ todo[e] \in DeferredPlans \cup WritingPlans
  /\ send[e].defer = "pending" => todo[e] \in DeferredPlans
  /\ send[e].defer = "pending" /\ todo[e] = <<>> => "OUT" \notin watch[e]
  /\ transport[e] = "CONNECT" => todo[e] = <<>> /\ send[e].defer = "none"

\* Payload is written only after the handshake and never more than requested; what a
\* stage buffers is written before the next stage; a server answers only after it read.
WritesInBounds(e) ==
  /\ send[e].state \in {"NONE", "COMMAND", "RESPONSE"} => send[e].payloadBytes = 0
  /\ send[e].state = "PAYLOAD" /\ send[e].requestedBytes > 0 =>
       send[e].payloadBytes + Pending(e) <= send[e].requestedBytes
  /\ \/ send[e].state = "CHECKSUM" /\ send[e].requestedBytes = 0
     \/ send[e].state = "FOOTER" /\ ~Sized(send[e])
     \/ send[e].state \in {"FLUSH", "SUCCESS"} /\ error[e] = "NONE"
     => Pending(e) = 0
  /\ e = "server" /\ recv[e].state \in {"AUTHENTICATE", "HEADER", "MODEL"} =>
       send[e].state = "NONE"

Accepted == cmd.auth /\ cmd.header /\ cmd.model

\* A verdict in the log of an endpoint is the verdict on the command.
VerdictsLogged ==
  /\ \A i \in 1 .. Len(out["client"]) :
       /\ out["client"][i] = Tok("auth", 0) => cmd.auth
       /\ out["client"][i] = Tok("hdr", 0) => cmd.header
  /\ \A i \in 1 .. Len(out["server"]) : out["server"][i] = Tok("hdr", 0) => Accepted

\* The server starts to answer without an error only if it accepts the command.
ServerAccepts ==
  /\ recv["server"].state \in {"HEADER", "MODEL"} => cmd.auth
  /\ recv["server"].state = "MODEL" => cmd.header
  /\ mmodel["server"].loaded => cmd.model
  /\ send["server"].state # "NONE" /\ error["server"] = "NONE" => Accepted
  /\ send["server"].state # "COMMAND"

\* The client takes for a success only what was accepted, or a model that announces nothing.
AcceptedOrEmpty == Accepted \/ (~Sized(recv["client"]) /\ ToOrigin = 0)

\* The client receives payload only after the server accepted; it ends its own sending
\* after that, or, if neither direction has a size, after all that its model announces.
ClientAccepted ==
  LET r == recv["client"]
      s == send["client"]
      m == mmodel["client"]
  IN
  /\ r.state # "MODEL" /\ s.state # "RESPONSE"
  /\ r.state \in {"PAYLOAD", "CHECKSUM", "FOOTER"} \/ r.payloadBytes > 0 => Accepted
  /\ r.state = "SUCCESS" => AcceptedOrEmpty
  /\ Sized(s) /\ s.state \in {"FLUSH", "SUCCESS"} /\ error["client"] = "NONE" => AcceptedOrEmpty
  /\ ~Sized(r) /\ s.requestedBytes = 0 =>
       /\ ~s.requestedZero
       /\ r.expectedBytes + m.toRecv = ToOrigin
       /\ m.ended => m.toRecv = 0
       /\ s.state \in {"CHECKSUM", "FOOTER", "FLUSH", "SUCCESS"} /\ error["client"] = "NONE"
            => m.ended

\* Password, header and, from a client, the model.
Preamble(e) == 3 + (IF e = "client" /\ ~cmd.path THEN ModelSize ELSE 0)

\* What follows the payload of a stream with a size.
Trailer(e) ==
  IF send[e].requestedBytes > 0 THEN <<"sum", "nl", "fin", "nl">> ELSE <<"fin", "nl">>

\* The kind of the i-th token of e, which follows from the sizes alone.
Kind(e, i) ==
  LET k == i - Preamble(e) - send[e].requestedBytes IN
  IF i <= 3 THEN <<"auth", "hdr", "nl">>[i]
  ELSE IF i <= Preamble(e) THEN "model"
  ELSE IF ~Sized(send[e]) \/ k <= 0 THEN "data"
  ELSE IF k <= Len(Trailer(e)) THEN Trailer(e)[k] ELSE "none"

\* A stage has logged base tokens and writes a line of n tokens: the line is not buffered
\* yet, or not all of it is written.
WritesFrom(e, base, n) ==
  \/ Len(out[e]) = base /\ Pending(e) = 0
  \/ Len(out[e]) = base + n /\ Pending(e) > 0

\* Every token is of the kind that belongs where it is logged, and each stage of writing
\* starts where the one before has ended.
LogInOrder(e) ==
  LET s == send[e]
      sum == IF s.requestedBytes > 0 THEN 2 ELSE 0
  IN
  /\ \A i \in 1 .. Len(out[e]) : out[e][i].t = Kind(e, i)
  /\ s.state = "NONE" => out[e] = <<>>
  /\ s.state \in {"COMMAND", "RESPONSE"} => WritesFrom(e, 0, Preamble(e))
  /\ s.state = "PAYLOAD" => put[e] = Preamble(e) + s.payloadBytes
  /\ s.state = "CHECKSUM" => WritesFrom(e, Preamble(e) + s.payloadBytes, sum)
  /\ s.state = "FOOTER" => WritesFrom(e, Preamble(e) + s.payloadBytes + sum, 2)
  /\ s.state \in {"PAYLOAD", "CHECKSUM", "FOOTER"} /\ s.requestedBytes = 0 /\ s.requestedZero =>
       s.payloadBytes = 0 /\ (s.state = "PAYLOAD" => Pending(e) = 0)
  /\ s.state \in {"CHECKSUM", "FOOTER"} /\ s.requestedBytes > 0 =>
       s.payloadBytes = s.requestedBytes

\* The tokens that e has taken out of its buffer, by stage; what it has not is what the
\* stages that are left of the event are going to take, or the start of a line.
TakenInOrder(e) ==
  LET r == recv[e]
      sum == IF r.requestedBytes > 0 THEN 2 ELSE 0
      partial == r.state \in {"HEADER", "CHECKSUM", "FOOTER"} /\ Newlines(e, got[e]) = {}
  IN
  /\ r.payloadBytes = Cardinality({i \in 1 .. used[e] : out[Peer(e)][i].t = "data"})
  /\ r.state \in {"NONE", "AUTHENTICATE"} => used[e] = 0 /\ got[e] = 0
  /\ r.state \in {"NONE", "AUTHENTICATE", "HEADER"} => r.modelBytes = 0
  /\ r.state = "HEADER" => used[e] = 1 /\ Newlines(e, got[e]) = {}
  /\ r.state = "MODEL" => /\ e = "server" /\ used[e] = 3 + r.modelBytes
                          /\ mmodel[e].loaded = cmd.path /\ (cmd.path => r.modelBytes = 0)
  /\ r.state \in {"PAYLOAD", "CHECKSUM"} => used[e] = Preamble(Peer(e)) + r.payloadBytes
  /\ r.state = "FOOTER" => used[e] = Preamble(Peer(e)) + r.payloadBytes + sum
  /\ r.state \in {"PAYLOAD", "CHECKSUM", "FOOTER"} /\ r.requestedBytes = 0 /\ r.requestedZero =>
       r.payloadBytes = 0
  /\ r.state \in {"MODEL", "PAYLOAD"} => Buffered(e) <= ReadMax
  /\ r.state \in {"CHECKSUM", "FOOTER"} /\ ~Sized(r) => Buffered(e) = 0
  /\ r.state = "SUCCESS" => Buffered(e) = 0 \/ Gone(e)
  /\ InPhase(e, "read") \/ Buffered(e) = 0 \/ partial \/ error[e] # "NONE" \/ Gone(e)
  /\ todo[e] = <<>> /\ error[e] # "NONE" => Gone(e)

\* The server has taken the sizes from the header when it answers that it accepts.
SizesMatch ==
  /\ recv["server"].requestedBytes = send["client"].requestedBytes
  /\ recv["server"].requestedZero = send["client"].requestedZero
  /\ send["server"].requestedBytes = recv["client"].requestedBytes
  /\ send["server"].requestedZero = recv["client"].requestedZero

SizesTaken ==
  \/ recv["server"].state \in {"MODEL", "PAYLOAD", "CHECKSUM", "FOOTER"}
  \/ send["server"].state # "NONE" /\ error["server"] = "NONE"
  \/ \E i \in 1 .. Len(out["server"]) : out["server"][i] = Tok("hdr", 0)
  \/ recv["client"].state \in {"PAYLOAD", "CHECKSUM", "FOOTER"}
  => SizesMatch

\* Both ends count the same tokens as payload.
FramesInOrder == (\A e \in Ends : LogInOrder(e) /\ TakenInOrder(e)) /\ SizesTaken

\* The invariant that the proofs carry through every step: at both ends, what is counted,
\* what was acknowledged with a footer, the states and the notification fit together; what
\* is left to write is in bounds and not written before its time; what either end takes for
\* accepted was accepted; and either end takes each token for what the other sent it as.
StreamInv ==
  /\ EndsInOrder
  /\ \A e \in Ends : DeferralKept(e) /\ WritesInBounds(e)
  /\ VerdictsLogged /\ ServerAccepts /\ ClientAccepted
  /\ FramesInOrder
=============================================================================
