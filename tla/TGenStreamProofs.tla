-------------------------- MODULE TGenStreamProofs --------------------------
(***************************************************************************)
(* Proofs about TGenStream, for all options, sizes and buffer capacities.  *)
(***************************************************************************)
EXTENDS TGenStream, SequenceTheorems, FiniteSetTheorems, TLAPS

\* The two endpoints are each other's peers.
LEMMA PeerFacts ==
  \A e \in Ends : Peer(e) \in Ends /\ Peer(e) # e /\ Peer(Peer(e)) = e
  BY DEF Ends, Peer

\* What read() returns is bounded by the limit and by what has arrived.
LEMMA SockReadBounds ==
  ASSUME TypeOK, NEW e \in Ends, NEW limit \in Nat
  PROVE  /\ SockRead(e, limit).n \in Nat
         /\ SockRead(e, limit).n <= limit
         /\ got[e] + SockRead(e, limit).n <= arr[e]
         /\ SockRead(e, limit).kind # "data" => SockRead(e, limit).n = 0
         /\ SockRead(e, limit).kind \in {"data", "error", "eof", "again"}
  BY DEF TypeOK, ChannelTypes, CountersInOrder, SockRead, Min2

\* _tgenstream_read stays within recv.buffer or within what has arrived.
LEMMA StreamReadBounds ==
  ASSUME TypeOK, NEW e \in Ends, NEW limit \in Nat
  PROVE  /\ StreamRead(e, limit).n \in Nat
         /\ StreamRead(e, limit).n <= limit
         /\ Max2(got[e], used[e] + StreamRead(e, limit).n) \in Nat
         /\ used[e] + StreamRead(e, limit).n <= Max2(got[e], used[e] + StreamRead(e, limit).n)
         /\ got[e] <= Max2(got[e], used[e] + StreamRead(e, limit).n)
         /\ Max2(got[e], used[e] + StreamRead(e, limit).n) <= arr[e]
         /\ StreamRead(e, limit).kind # "data" => StreamRead(e, limit).n = 0
         /\ StreamRead(e, limit).kind \in {"data", "error", "eof", "again"}
  <1>1. CASE Buffered(e) > 0
    BY <1>1 DEF TypeOK, ChannelTypes, CountersInOrder, StreamRead, Buffered, Min2, Max2
  <1>2. CASE ~(Buffered(e) > 0)
    <2>1. used[e] = got[e]
      BY <1>2 DEF TypeOK, ChannelTypes, CountersInOrder, Buffered
    <2>2. StreamRead(e, limit) = SockRead(e, limit)
      BY <1>2 DEF StreamRead
    <2>3. got[e] \in Nat /\ arr[e] \in Nat
      BY DEF TypeOK, ChannelTypes
    <2> QED
      BY <2>1, <2>2, <2>3, SockReadBounds DEF Max2
  <1> QED
    BY <1>1, <1>2

\* A line lies within what has been read, and ends with a newline.
LEMMA GetLineBounds ==
  ASSUME TypeOK, NEW e \in Ends
  PROVE  /\ GetLine(e).n \in Nat
         /\ got[e] + GetLine(e).n <= arr[e]
         /\ GetLine(e).kind \in {"line", "error", "eof", "again"}
         /\ GetLine(e).kind = "line" => Newlines(e, got[e] + GetLine(e).n) # {}
  <1>1. ReadMax \in Nat
    BY SizeAssumption
  <1>2. /\ got[e] \in Nat /\ arr[e] \in Nat /\ got[e] <= arr[e] /\ got[e] + 0 = got[e]
    BY DEF TypeOK, ChannelTypes, CountersInOrder
  <1> QED
    BY <1>1, <1>2, SockReadBounds DEF GetLine

\* The line read, if any, ends beyond what was taken and within what was read.
LEMMA TakeLineBounds ==
  ASSUME TypeOK, NEW e \in Ends, TakeLine(e, GetLine(e))
  PROVE  /\ got' \in [Ends -> Nat] /\ used' \in [Ends -> Nat]
         /\ \A x \in Ends \ {e} : got'[x] = got[x] /\ used'[x] = used[x]
         /\ used'[e] <= got'[e] /\ got[e] <= got'[e] /\ got'[e] <= arr[e]
         /\ GetLine(e).kind = "line" => used[e] + 1 <= arr[e]
  <1> DEFINE r == GetLine(e)
  <1> HIDE DEF r
  <1>0. TakeLine(e, r)
    BY DEF r
  <1>1. /\ r.n \in Nat /\ got[e] + r.n <= arr[e]
        /\ r.kind = "line" => Newlines(e, got[e] + r.n) # {}
    BY GetLineBounds DEF r
  <1>2. got' = [got EXCEPT ![e] = @ + r.n]
    BY <1>0 DEF TakeLine
  <1>3. CASE r.kind = "line"
    <2>1. PICK i \in Newlines(e, got[e] + r.n) : used' = [used EXCEPT ![e] = i]
      BY <1>0, <1>3 DEF TakeLine
    <2>2. i \in Nat /\ used[e] + 1 <= i /\ i <= got[e] + r.n
      BY <1>1, <2>1 DEF Newlines, TypeOK, ChannelTypes
    <2> QED
      BY <1>1, <1>2, <2>1, <2>2 DEF TypeOK, ChannelTypes, CountersInOrder, r
  <1>4. CASE r.kind # "line"
    <2>1. used' = used
      BY <1>0, <1>4 DEF TakeLine
    <2> QED
      BY <1>1, <1>2, <1>4, <2>1 DEF TypeOK, ChannelTypes, CountersInOrder, r
  <1> QED
    BY <1>3, <1>4

-----------------------------------------------------------------------------
(* Types of what the helper actions leave behind.                           *)

\* Leaving a phase keeps the program of phases well typed.
LEMMA LeaveType ==
  ASSUME StreamTypes, NEW e \in Ends, todo[e] # <<>>, Leave(e)
  PROVE  todo' \in [Ends -> Seq(Phases)]
  <1>1. todo[e] \in Seq(Phases)
    BY DEF StreamTypes
  <1>2. Tail(todo[e]) \in Seq(Phases)
    BY <1>1
  <1> QED
    BY <1>2 DEF StreamTypes, Leave

\* An unsuccessful read changes at most the receive state and the error.
LEMMA ReadFailsType ==
  ASSUME StreamTypes, NEW e \in Ends, todo[e] # <<>>, NEW kind, ReadFails(e, kind)
  PROVE  /\ recv' = [recv EXCEPT ![e].state = IF kind = "again" THEN @ ELSE "ERROR"]
         /\ error' \in [Ends -> Errors]
         /\ \A x \in Ends \ {e} : error'[x] = error[x]
         /\ error'[e] = "NONE" => error[e] = "NONE"
         /\ kind \in {"error", "eof"} => error'[e] # "NONE"
         /\ todo' \in [Ends -> Seq(Phases)]
  <1>1. error \in [Ends -> Errors]
    BY DEF StreamTypes
  <1>2. error' = [error EXCEPT ![e] = CASE kind = "error" -> "READ"
                                        [] kind = "eof"   -> "READEOF"
                                        [] OTHER          -> @]
    BY DEF ReadFails
  <1>3. todo' \in [Ends -> Seq(Phases)]
    BY LeaveType DEF ReadFails
  <1>4. recv' = [recv EXCEPT ![e].state = IF kind = "again" THEN @ ELSE "ERROR"]
    BY DEF ReadFails
  <1>5. /\ error' \in [Ends -> Errors]
        /\ \A x \in Ends \ {e} : error'[x] = error[x]
        /\ error'[e] = "NONE" => error[e] = "NONE"
        /\ kind \in {"error", "eof"} => error'[e] # "NONE"
    BY <1>1, <1>2 DEF Errors
  <1> QED
    BY <1>3, <1>4, <1>5

\* What write() accepts of a log that extends the current one.
LEMMA FlushedBounds ==
  ASSUME TypeOK, NEW e \in Ends, NEW o \in Seq(Tokens), Len(o) >= put[e]
  PROVE  /\ Flushed(e, o) \in Nat
         /\ put[e] + Flushed(e, o) <= Len(o)
         /\ put[e] + Flushed(e, o) <= got[Peer(e)] + SockBuf
  <1>1. Peer(e) \in Ends
    BY PeerFacts
  <1>2. /\ put[e] \in Nat /\ got[Peer(e)] \in Nat /\ SockBuf \in Nat
        /\ put[e] <= got[Peer(e)] + SockBuf
    BY <1>1, SizeAssumption DEF TypeOK, ChannelTypes, CountersInOrder
  <1>3. Len(o) - put[e] \in Nat
    BY <1>2
  <1>4. SockRoom(e) \in Nat /\ put[e] + SockRoom(e) = got[Peer(e)] + SockBuf
    BY <1>2 DEF SockRoom
  <1>5. /\ Flushed(e, o) \in Nat
        /\ Flushed(e, o) <= Len(o) - put[e] /\ Flushed(e, o) <= SockRoom(e)
    BY <1>3, <1>4 DEF Flushed, Min2
  <1>6. Len(o) \in Nat
    OBVIOUS
  <1> QED
    BY <1>2, <1>4, <1>5, <1>6

\* Queueing a line extends the log by that line or leaves it as it is.
LEMMA QueueBounds ==
  ASSUME TypeOK, NEW e \in Ends, NEW line \in Seq(Tokens)
  PROVE  /\ Queue(e, line) \in Seq(Tokens)
         /\ Len(Queue(e, line)) \in Nat
         /\ Len(out[e]) <= Len(Queue(e, line))
         /\ put[e] <= Len(Queue(e, line))
  <1>1. out[e] \in Seq(Tokens) /\ put[e] \in Nat /\ put[e] <= Len(out[e])
    BY DEF TypeOK, ChannelTypes, CountersInOrder
  <1>2. out[e] \o line \in Seq(Tokens) /\ Len(out[e] \o line) = Len(out[e]) + Len(line)
    BY <1>1, ConcatProperties
  <1>3. Len(out[e]) \in Nat /\ Len(line) \in Nat
    BY <1>1
  <1> QED
    BY <1>1, <1>2, <1>3 DEF Queue

\* Writing a line: the log, the write counter, and the state that follows.
LEMMA WriteLineType ==
  ASSUME TypeOK, NEW e \in Ends, NEW line \in Seq(Tokens), NEW next \in SendStates,
         todo[e] # <<>>, WriteLine(e, line, next)
  PROVE  /\ out' = [out EXCEPT ![e] = Queue(e, line)]
         /\ out' \in [Ends -> Seq(Tokens)]
         /\ put' \in [Ends -> Nat]
         /\ \A x \in Ends \ {e} : put'[x] = put[x]
         /\ put[e] <= put'[e] /\ put'[e] <= Len(Queue(e, line))
         /\ put'[e] <= got[Peer(e)] + SockBuf
         /\ \/ send' = send
            \/ \E st \in {"ERROR", next} : send' = [send EXCEPT ![e].state = st]
         /\ send'[e].state \in {send[e].state, next} \/ error'[e] # "NONE"
         /\ error' \in [Ends -> Errors]
         /\ \A x \in Ends \ {e} : error'[x] = error[x]
         /\ error'[e] = "NONE" => error[e] = "NONE"
         /\ todo' \in [Ends -> Seq(Phases)]
  <1> DEFINE o == Queue(e, line)
  <1> HIDE DEF o
  <1>1. o \in Seq(Tokens) /\ Len(o) \in Nat /\ put[e] <= Len(o)
    BY QueueBounds DEF o
  <1>2. /\ Flushed(e, o) \in Nat /\ put[e] + Flushed(e, o) <= Len(o)
        /\ put[e] + Flushed(e, o) <= got[Peer(e)] + SockBuf
    BY <1>1, FlushedBounds
  <1>3. out' = [out EXCEPT ![e] = o]
    BY DEF WriteLine, o
  <1>4. out' \in [Ends -> Seq(Tokens)]
    BY <1>1, <1>3 DEF TypeOK, ChannelTypes
  <1>5. put[e] \in Nat /\ put \in [Ends -> Nat] /\ put[e] <= got[Peer(e)] + SockBuf
    BY DEF TypeOK, ChannelTypes, CountersInOrder
  <1>6. CASE reset[e]
    <2>1. WriteError(e)
      BY <1>6 DEF WriteLine
    <2>2. /\ send' = [send EXCEPT ![e].state = "ERROR"]
          /\ error' = [error EXCEPT ![e] = "WRITE"]
          /\ put' = put
      BY <2>1 DEF WriteError
    <2>3. todo' \in [Ends -> Seq(Phases)]
      BY <2>1, LeaveType DEF WriteError, TypeOK
    <2>4. error \in [Ends -> Errors]
      BY DEF TypeOK, StreamTypes
    <2>5. /\ error' \in [Ends -> Errors]
          /\ \A x \in Ends \ {e} : error'[x] = error[x]
          /\ error'[e] # "NONE"
      BY <2>2, <2>4 DEF Errors
    <2> QED
      BY <1>1, <1>3, <1>4, <1>5, <2>2, <2>3, <2>5 DEF o
  <1>7. CASE ~reset[e]
    <2>1. /\ put' = [put EXCEPT ![e] = @ + Flushed(e, o)]
          /\ error' = error
          /\ \/ send' = [send EXCEPT ![e].state = next] /\ todo' = todo
             \/ Leave(e) /\ send' = send
      BY <1>7 DEF WriteLine, o
    <2>2. todo' \in [Ends -> Seq(Phases)] /\ error' \in [Ends -> Errors]
      BY <2>1, LeaveType DEF TypeOK, StreamTypes
    <2>3. send \in [Ends -> SendType]
      BY DEF TypeOK, StreamTypes
    <2>4. /\ put' \in [Ends -> Nat] /\ \A x \in Ends \ {e} : put'[x] = put[x]
          /\ put'[e] = put[e] + Flushed(e, o)
      BY <1>2, <1>5, <2>1
    <2>5. put[e] <= put'[e] /\ put'[e] <= Len(o) /\ put'[e] <= got[Peer(e)] + SockBuf
      BY <1>1, <1>2, <1>5, <2>4
    <2>6. send'[e].state \in {send[e].state, next}
      BY <2>1, <2>3 DEF SendType
    <2> QED
      BY <1>3, <1>4, <2>1, <2>2, <2>4, <2>5, <2>6 DEF o
  <1> QED
    BY <1>6, <1>7

-----------------------------------------------------------------------------
(* Frames: what a step at endpoint e must show.                             *)

\* Both ends together are the whole of the invariant.
LEMMA BothEnds ==
  ASSUME NEW e \in Ends, EndInv(e)', EndInv(Peer(e))'
  PROVE  EndsInOrder'
  BY DEF EndsInOrder, Ends, Peer

\* A step at e that leaves the peer's stream alone keeps the peer's part, as
\* long as no footer of e disappears.
LEMMA OtherEnd ==
  ASSUME EndsInOrder, NEW e \in Ends,
         recv'[Peer(e)] = recv[Peer(e)], send'[Peer(e)] = send[Peer(e)],
         error'[Peer(e)] = error[Peer(e)], note'[Peer(e)] = note[Peer(e)],
         transport'[Peer(e)] = transport[Peer(e)], todo'[Peer(e)] = todo[Peer(e)],
         HasFooter(Peer(e))' <=> HasFooter(Peer(e)), HasFooter(e) => HasFooter(e)'
  PROVE  EndInv(Peer(e))'
  <1>1. Peer(e) \in Ends /\ Peer(Peer(e)) = e
    BY PeerFacts
  <1>2. EndInv(Peer(e))
    BY <1>1 DEF EndsInOrder
  <1> QED
    BY <1>1, <1>2 DEF EndInv, ReadsInBounds, StatesAgree, ReceiptInOrder,
      FooterMeansReceived, DestroyedIsFinal, ReceivedAll, GotRequested, Sized, Gone

\* Reading moves the read and taken counters of one end forward.
LEMMA ReadCounters ==
  ASSUME TypeOK, NEW e \in Ends, UNCHANGED <<out, put, arr>>,
         got' \in [Ends -> Nat], used' \in [Ends -> Nat],
         \A x \in Ends \ {e} : got'[x] = got[x] /\ used'[x] = used[x],
         used'[e] <= got'[e], got[e] <= got'[e], got'[e] <= arr[e]
  PROVE  ChannelTypes' /\ CountersInOrder'
  <1>1. ChannelTypes'
    BY DEF TypeOK, ChannelTypes
  <1>2. \A x \in Ends : Peer(x) \in Ends /\ Peer(x) # x
    BY PeerFacts
  <1>3. SockBuf \in Nat
    BY SizeAssumption
  <1>4. ASSUME NEW x \in Ends
        PROVE  /\ put[x] \in Nat /\ got[x] \in Nat /\ got'[x] \in Nat
               /\ got[x] <= got'[x] /\ used'[x] <= got'[x] /\ got'[x] <= arr[x]
    <2>1. CASE x = e
      BY <2>1 DEF TypeOK, ChannelTypes
    <2>2. CASE x # e
      BY <2>2 DEF TypeOK, ChannelTypes, CountersInOrder
    <2> QED
      BY <2>1, <2>2
  <1>5. ASSUME NEW x \in Ends
        PROVE  /\ arr[x] <= put[Peer(x)] /\ put[x] <= Len(out[x])
               /\ put[x] <= got'[Peer(x)] + SockBuf
    <2>1. /\ arr[x] <= put[Peer(x)] /\ put[x] <= Len(out[x])
          /\ put[x] <= got[Peer(x)] + SockBuf
      BY DEF TypeOK, CountersInOrder
    <2>2. Peer(x) \in Ends
      BY <1>2
    <2>3. put[x] \in Nat /\ got[Peer(x)] \in Nat /\ got'[Peer(x)] \in Nat
          /\ got[Peer(x)] <= got'[Peer(x)]
      BY <1>4, <2>2
    <2> QED
      BY <1>3, <2>1, <2>3
  <1>6. CountersInOrder'
    BY <1>4, <1>5 DEF CountersInOrder
  <1> QED
    BY <1>1, <1>6

\* Writing extends the log of one end and moves its write counter forward.
LEMMA WriteCounters ==
  ASSUME TypeOK, NEW e \in Ends, UNCHANGED <<got, used, arr>>,
         NEW o \in Seq(Tokens), out' = [out EXCEPT ![e] = o],
         put' \in [Ends -> Nat], \A x \in Ends \ {e} : put'[x] = put[x],
         put[e] <= put'[e], put'[e] <= Len(o), put'[e] <= got[Peer(e)] + SockBuf
  PROVE  ChannelTypes' /\ CountersInOrder'
  <1>1. ChannelTypes'
    BY DEF TypeOK, ChannelTypes
  <1>2. \A x \in Ends : Peer(x) \in Ends /\ Peer(x) # x
    BY PeerFacts
  <1>3. SockBuf \in Nat /\ Len(o) \in Nat
    BY SizeAssumption
  <1>4. ASSUME NEW x \in Ends
        PROVE  /\ put[x] \in Nat /\ put'[x] \in Nat /\ arr[x] \in Nat
               /\ put[x] <= put'[x] /\ put'[x] <= Len(out'[x])
               /\ put'[x] <= got[Peer(x)] + SockBuf
    <2>1. CASE x = e
      BY <2>1 DEF TypeOK, ChannelTypes
    <2>2. CASE x # e
      <3>1. out'[x] = out[x] /\ put'[x] = put[x] /\ put[x] \in Nat /\ arr[x] \in Nat
        BY <2>2 DEF TypeOK, ChannelTypes
      <3> QED
        BY <3>1 DEF TypeOK, CountersInOrder
    <2> QED
      BY <2>1, <2>2
  <1>5. ASSUME NEW x \in Ends
        PROVE  used[x] <= got[x] /\ got[x] <= arr[x] /\ arr[x] <= put'[Peer(x)]
    <2>1. used[x] <= got[x] /\ got[x] <= arr[x] /\ arr[x] <= put[Peer(x)]
      BY DEF TypeOK, CountersInOrder
    <2>2. Peer(x) \in Ends
      BY <1>2
    <2>3. /\ arr[x] \in Nat /\ put[Peer(x)] \in Nat /\ put'[Peer(x)] \in Nat
          /\ put[Peer(x)] <= put'[Peer(x)]
      BY <1>4, <2>2
    <2> QED
      BY <2>1, <2>3
  <1>6. CountersInOrder'
    BY <1>4, <1>5 DEF CountersInOrder
  <1> QED
    BY <1>1, <1>6

\* An endpoint that handles an event is alive and has not notified the driver.
LEMMA ActiveEnd ==
  ASSUME EndsInOrder, NEW e \in Ends, todo[e] # <<>>
  PROVE  EndInv(e) /\ ~Gone(e) /\ note[e] = "none"
  BY DEF EndsInOrder, EndInv, DestroyedIsFinal

\* What has to be shown of a step of onReadable.
LEMMA ReadStep ==
  ASSUME TypeOK, EndsInOrder, NEW e \in Ends, todo[e] # <<>>,
         UNCHANGED <<cmd, note, transport, watch, out, put, arr, reset>>,
         recv' \in [Ends -> RecvType], send' \in [Ends -> SendType],
         error' \in [Ends -> Errors], mmodel' \in [Ends -> ModelType],
         todo' \in [Ends -> Seq(Phases)],
         \A x \in Ends \ {e} : /\ recv'[x] = recv[x] /\ send'[x] = send[x]
                               /\ error'[x] = error[x] /\ todo'[x] = todo[x],
         got' \in [Ends -> Nat], used' \in [Ends -> Nat],
         \A x \in Ends \ {e} : got'[x] = got[x] /\ used'[x] = used[x],
         used'[e] <= got'[e], got[e] <= got'[e], got'[e] <= arr[e],
         ReadsInBounds(e)', StatesAgree(e)', ReceiptInOrder(e)', FooterMeansReceived(e)'
  PROVE  TypeOK' /\ EndsInOrder'
  <1>1. ChannelTypes' /\ CountersInOrder'
    BY ReadCounters
  <1>2. StreamTypes'
    BY DEF TypeOK, StreamTypes
  <1>3. \A x : HasFooter(x)' <=> HasFooter(x)
    BY DEF HasFooter
  <1>4. Peer(e) \in Ends \ {e}
    BY PeerFacts
  <1>5. EndInv(Peer(e))'
    BY <1>3, <1>4, OtherEnd
  <1>6. DestroyedIsFinal(e)'
    BY ActiveEnd DEF DestroyedIsFinal, Gone
  <1>7. EndInv(e)'
    BY <1>6 DEF EndInv
  <1> QED
    BY <1>1, <1>2, <1>5, <1>7, BothEnds DEF TypeOK

\* _tgenstream_read, taken into account.
LEMMA TakeBounds ==
  ASSUME TypeOK, NEW e \in Ends, NEW limit \in Nat, Take(e, StreamRead(e, limit).n)
  PROVE  /\ got' \in [Ends -> Nat] /\ used' \in [Ends -> Nat]
         /\ \A x \in Ends \ {e} : got'[x] = got[x] /\ used'[x] = used[x]
         /\ used'[e] <= got'[e] /\ got[e] <= got'[e] /\ got'[e] <= arr[e]
  <1> DEFINE n == StreamRead(e, limit).n
  <1> HIDE DEF n
  <1>1. /\ n \in Nat /\ Max2(got[e], used[e] + n) \in Nat
        /\ used[e] + n <= Max2(got[e], used[e] + n)
        /\ got[e] <= Max2(got[e], used[e] + n) /\ Max2(got[e], used[e] + n) <= arr[e]
    BY StreamReadBounds DEF n
  <1>2. /\ used' = [used EXCEPT ![e] = @ + n]
        /\ got' = [got EXCEPT ![e] = Max2(@, used[e] + n)]
    BY DEF Take, n
  <1>3. got \in [Ends -> Nat] /\ used \in [Ends -> Nat]
    BY DEF TypeOK, ChannelTypes
  <1> QED
    BY <1>1, <1>2, <1>3

\* An unsuccessful read keeps what the invariant says of the reader.
LEMMA ReadFailsKeeps ==
  ASSUME TypeOK, EndsInOrder, NEW e \in Ends, todo[e] # <<>>, UNCHANGED <<send, out>>,
         NEW kind \in {"error", "eof", "again"}, recv[e].state # "NONE", ReadFails(e, kind)
  PROVE  /\ recv' \in [Ends -> RecvType] /\ send' \in [Ends -> SendType]
         /\ error' \in [Ends -> Errors] /\ todo' \in [Ends -> Seq(Phases)]
         /\ \A x \in Ends \ {e} : /\ recv'[x] = recv[x] /\ send'[x] = send[x]
                                  /\ error'[x] = error[x] /\ todo'[x] = todo[x]
         /\ ReadsInBounds(e)' /\ StatesAgree(e)' /\ ReceiptInOrder(e)'
         /\ FooterMeansReceived(e)'
  <1>1. /\ recv' = [recv EXCEPT ![e].state = IF kind = "again" THEN @ ELSE "ERROR"]
        /\ error' \in [Ends -> Errors]
        /\ \A x \in Ends \ {e} : error'[x] = error[x]
        /\ error'[e] = "NONE" => error[e] = "NONE"
        /\ kind \in {"error", "eof"} => error'[e] # "NONE"
        /\ todo' \in [Ends -> Seq(Phases)]
    BY ReadFailsType DEF TypeOK
  <1>2. /\ recv \in [Ends -> RecvType] /\ send \in [Ends -> SendType]
        /\ error \in [Ends -> Errors]
    BY DEF TypeOK, StreamTypes
  <1>3. \A x \in Ends \ {e} : todo'[x] = todo[x]
    BY DEF ReadFails, Leave, TypeOK, StreamTypes
  <1> DEFINE st == IF kind = "again" THEN recv[e].state ELSE "ERROR"
  <1> HIDE DEF st
  <1>a. recv' = [recv EXCEPT ![e].state = st]
    BY <1>1, <1>2 DEF st
  <1>b. st \in RecvStates
    BY <1>2 DEF st, RecvType, RecvStates
  <1>c. st = recv[e].state \/ (st = "ERROR" /\ error'[e] # "NONE")
    BY <1>1 DEF st
  <1>4. \A x \in Ends \ {e} : recv'[x] = recv[x]
    BY <1>a, <1>2
  <1>5. recv' \in [Ends -> RecvType]
    BY <1>a, <1>b, <1>2 DEF RecvType
  <1>6. /\ \/ recv'[e].state = recv[e].state
           \/ recv'[e].state = "ERROR" /\ error'[e] # "NONE"
        /\ recv'[e].requestedBytes = recv[e].requestedBytes
        /\ recv'[e].requestedZero = recv[e].requestedZero
        /\ recv'[e].payloadBytes = recv[e].payloadBytes
        /\ recv'[e].modelBytes = recv[e].modelBytes
        /\ recv'[e].checksumRecv = recv[e].checksumRecv
    BY <1>a, <1>c, <1>2 DEF RecvType
  <1>7. \A x : HasFooter(x)' <=> HasFooter(x)
    BY DEF HasFooter
  <1>8. EndInv(e)
    BY DEF EndsInOrder
  <1>9. ReadsInBounds(e)'
    BY <1>6, <1>8 DEF EndInv, ReadsInBounds
  <1>10. StatesAgree(e)'
    BY <1>1, <1>6, <1>8 DEF EndInv, StatesAgree
  <1>11. ReceiptInOrder(e)'
    BY <1>6, <1>8 DEF EndInv, ReceiptInOrder, ReceivedAll, GotRequested
  <1>12. FooterMeansReceived(e)'
    BY <1>6, <1>7, <1>8 DEF EndInv, FooterMeansReceived, GotRequested, Sized
  <1> QED
    BY <1>1, <1>2, <1>3, <1>4, <1>5, <1>9, <1>10, <1>11, <1>12

-----------------------------------------------------------------------------
(* The stages of onReadable keep the invariant.                             *)

\* A read that does not succeed ends the stage in the same way everywhere.
LEMMA ReadFailsStep ==
  ASSUME TypeOK, EndsInOrder, NEW e \in Ends, todo[e] # <<>>, recv[e].state # "NONE",
         UNCHANGED <<cmd, send, mmodel, note, transport, watch, out, put, arr, reset>>,
         NEW kind \in {"error", "eof", "again"}, ReadFails(e, kind),
         got' \in [Ends -> Nat], used' \in [Ends -> Nat],
         \A x \in Ends \ {e} : got'[x] = got[x] /\ used'[x] = used[x],
         used'[e] <= got'[e], got[e] <= got'[e], got'[e] <= arr[e]
  PROVE  TypeOK' /\ EndsInOrder'
  <1>1. /\ recv' \in [Ends -> RecvType] /\ send' \in [Ends -> SendType]
        /\ error' \in [Ends -> Errors] /\ todo' \in [Ends -> Seq(Phases)]
        /\ \A x \in Ends \ {e} : /\ recv'[x] = recv[x] /\ send'[x] = send[x]
                                 /\ error'[x] = error[x] /\ todo'[x] = todo[x]
        /\ ReadsInBounds(e)' /\ StatesAgree(e)' /\ ReceiptInOrder(e)'
        /\ FooterMeansReceived(e)'
    BY ReadFailsKeeps
  <1>2. mmodel' \in [Ends -> ModelType]
    BY DEF TypeOK, StreamTypes
  <1> QED
    BY <1>1, <1>2, ReadStep

\* The receive side of e moves to state st; sizes and counts stay, and a
\* checksum that was received stays received.
RecvMoves(e, st) ==
  /\ recv' \in [Ends -> RecvType]
  /\ \A x \in Ends \ {e} : recv'[x] = recv[x]
  /\ recv'[e].state = st
  /\ recv'[e].requestedBytes = recv[e].requestedBytes
  /\ recv'[e].requestedZero = recv[e].requestedZero
  /\ recv'[e].payloadBytes = recv[e].payloadBytes
  /\ recv'[e].modelBytes = recv[e].modelBytes
  /\ recv[e].checksumRecv => recv'[e].checksumRecv

\* The error of e becomes er, the phases left are the same or one less.
ErrorMoves(e, er) ==
  /\ error' \in [Ends -> Errors]
  /\ \A x \in Ends \ {e} : error'[x] = error[x]
  /\ error'[e] = er
  /\ todo' \in [Ends -> Seq(Phases)]
  /\ \A x \in Ends \ {e} : todo'[x] = todo[x]

\* What a read leaves of the counters.
ReadMoves(e) ==
  /\ got' \in [Ends -> Nat] /\ used' \in [Ends -> Nat]
  /\ \A x \in Ends \ {e} : got'[x] = got[x] /\ used'[x] = used[x]
  /\ used'[e] <= got'[e] /\ got[e] <= got'[e] /\ got'[e] <= arr[e]

\* Assigning only the receive state changes nothing else of either end's receiving side.
LEMMA SetState ==
  ASSUME TypeOK, NEW e \in Ends, NEW st \in RecvStates,
         recv' = [recv EXCEPT ![e].state = st]
  PROVE  RecvMoves(e, st)
  <1>1. recv \in [Ends -> RecvType]
    BY DEF TypeOK, StreamTypes
  <1> DEFINE nr == [recv[e] EXCEPT !.state = st]
  <1>2. nr \in RecvType
    BY <1>1 DEF RecvType
  <1>3. recv' = [recv EXCEPT ![e] = nr]
    BY <1>1
  <1>4. recv' \in [Ends -> RecvType] /\ \A x \in Ends \ {e} : recv'[x] = recv[x]
    BY <1>1, <1>2, <1>3
  <1>5. /\ recv'[e].state = st
        /\ recv'[e].requestedBytes = recv[e].requestedBytes
        /\ recv'[e].requestedZero = recv[e].requestedZero
        /\ recv'[e].payloadBytes = recv[e].payloadBytes
        /\ recv'[e].modelBytes = recv[e].modelBytes
        /\ recv'[e].checksumRecv = recv[e].checksumRecv
    BY <1>1 DEF RecvType
  <1> QED
    BY <1>4, <1>5 DEF RecvMoves

\* The same when the assignment also records time.checksumRecv.
LEMMA SetStateAndFlag ==
  ASSUME TypeOK, NEW e \in Ends, NEW st \in RecvStates,
         recv' = [recv EXCEPT ![e].state = st, ![e].checksumRecv = TRUE]
  PROVE  RecvMoves(e, st) /\ recv'[e].checksumRecv
  <1>1. recv \in [Ends -> RecvType]
    BY DEF TypeOK, StreamTypes
  <1> DEFINE nr == [recv[e] EXCEPT !.state = st, !.checksumRecv = TRUE]
  <1>2. nr \in RecvType
    BY <1>1 DEF RecvType
  <1>3. recv' = [recv EXCEPT ![e] = nr]
    BY <1>1
  <1>4. recv' \in [Ends -> RecvType] /\ \A x \in Ends \ {e} : recv'[x] = recv[x]
    BY <1>1, <1>2, <1>3
  <1>5. /\ recv'[e].state = st
        /\ recv'[e].requestedBytes = recv[e].requestedBytes
        /\ recv'[e].requestedZero = recv[e].requestedZero
        /\ recv'[e].payloadBytes = recv[e].payloadBytes
        /\ recv'[e].modelBytes = recv[e].modelBytes
        /\ recv'[e].checksumRecv
    BY <1>1 DEF RecvType
  <1> QED
    BY <1>4, <1>5 DEF RecvMoves

\* Leaving a handler with an error recorded touches no error or pending stage of the peer.
LEMMA SetError ==
  ASSUME TypeOK, NEW e \in Ends, NEW er \in Errors, todo[e] # <<>>,
         error' = [error EXCEPT ![e] = er], Leave(e)
  PROVE  ErrorMoves(e, er)
  <1>1. error \in [Ends -> Errors] /\ todo \in [Ends -> Seq(Phases)]
    BY DEF TypeOK, StreamTypes
  <1>2. todo' \in [Ends -> Seq(Phases)] /\ \A x \in Ends \ {e} : todo'[x] = todo[x]
    BY <1>1, LeaveType DEF Leave, TypeOK
  <1> QED
    BY <1>1, <1>2 DEF ErrorMoves

\* A step that records no error is such a step too, with the error it had.
LEMMA KeepError ==
  ASSUME TypeOK, NEW e \in Ends, todo[e] # <<>>, UNCHANGED error,
         todo' = todo \/ Leave(e)
  PROVE  ErrorMoves(e, error[e])
  <1>1. error \in [Ends -> Errors] /\ todo \in [Ends -> Seq(Phases)]
    BY DEF TypeOK, StreamTypes
  <1>2. todo' \in [Ends -> Seq(Phases)] /\ \A x \in Ends \ {e} : todo'[x] = todo[x]
    <2>1. CASE todo' = todo
      BY <1>1, <2>1
    <2>2. CASE Leave(e)
      BY <1>1, <2>2, LeaveType DEF Leave, TypeOK
    <2> QED
      BY <2>1, <2>2
  <1> QED
    BY <1>1, <1>2 DEF ErrorMoves

\* A stage that fails a check leaves with an error.
LEMMA StageFails ==
  ASSUME TypeOK, EndsInOrder, NEW e \in Ends, todo[e] # <<>>, recv[e].state # "NONE",
         UNCHANGED <<cmd, send, mmodel, note, transport, watch, out, put, arr, reset>>,
         ReadMoves(e), RecvMoves(e, "ERROR"), NEW er \in Errors \ {"NONE"}, ErrorMoves(e, er)
  PROVE  TypeOK' /\ EndsInOrder'
  <1>1. \A x : HasFooter(x)' <=> HasFooter(x)
    BY DEF HasFooter
  <1>2. EndInv(e)
    BY DEF EndsInOrder
  <1>3. send \in [Ends -> SendType] /\ mmodel \in [Ends -> ModelType]
    BY DEF TypeOK, StreamTypes
  <1>4. ReadsInBounds(e)'
    BY <1>2 DEF EndInv, ReadsInBounds, RecvMoves
  <1>5. StatesAgree(e)'
    BY <1>2 DEF EndInv, StatesAgree, RecvMoves, ErrorMoves
  <1>6. ReceiptInOrder(e)'
    BY <1>2 DEF EndInv, ReceiptInOrder, ReceivedAll, RecvMoves
  <1>7. FooterMeansReceived(e)'
    BY <1>1, <1>2 DEF EndInv, FooterMeansReceived, GotRequested, Sized, RecvMoves
  <1> QED
    BY <1>3, <1>4, <1>5, <1>6, <1>7, ReadStep DEF RecvMoves, ErrorMoves, ReadMoves

\* A stage that succeeds moves to a later state.
LEMMA StageStep ==
  ASSUME TypeOK, EndsInOrder, NEW e \in Ends, todo[e] # <<>>,
         UNCHANGED <<cmd, send, mmodel, note, transport, watch, out, put, arr, reset>>,
         ReadMoves(e), ErrorMoves(e, error[e]),
         NEW st, RecvMoves(e, st),
         \/ st = "HEADER" /\ recv[e].state = "AUTHENTICATE"
         \/ st = "PAYLOAD" /\ recv[e].state = "HEADER"
         \/ /\ st = "FOOTER" /\ recv[e].state = "CHECKSUM"
            /\ recv[e].requestedBytes > 0 => recv'[e].checksumRecv
         \/ /\ st = "SUCCESS" /\ recv[e].state = "FOOTER"
            /\ Sized(recv[e]) => HasFooter(Peer(e))
  PROVE  TypeOK' /\ EndsInOrder'
  <1>1. \A x : HasFooter(x)' <=> HasFooter(x)
    BY DEF HasFooter
  <1>2. EndInv(e)
    BY DEF EndsInOrder
  <1>3. send \in [Ends -> SendType] /\ mmodel \in [Ends -> ModelType]
    BY DEF TypeOK, StreamTypes
  <1>4. ReadsInBounds(e)'
    BY <1>2 DEF EndInv, ReadsInBounds, RecvMoves
  <1>5. StatesAgree(e)'
    BY <1>2 DEF EndInv, StatesAgree, RecvMoves, ErrorMoves
  <1>6. ReceiptInOrder(e)'
    BY <1>2 DEF EndInv, ReceiptInOrder, ReceivedAll, GotRequested, RecvMoves
  <1>7. FooterMeansReceived(e)'
    BY <1>1, <1>2 DEF EndInv, FooterMeansReceived, GotRequested, Sized, RecvMoves
  <1> QED
    BY <1>3, <1>4, <1>5, <1>6, <1>7, ReadStep DEF RecvMoves, ErrorMoves, ReadMoves

\* Reading the password.
LEMMA readAuthenticateKeeps ==
  ASSUME TypeOK, EndsInOrder, NEW e \in Ends, readAuthenticate(e)
  PROVE  TypeOK' /\ EndsInOrder'
  <1> DEFINE r == StreamRead(e, 1)
  <1> HIDE DEF r
  <1>1. /\ todo[e] # <<>> /\ recv[e].state = "AUTHENTICATE"
        /\ UNCHANGED <<cmd, send, mmodel, note, transport, watch, out, put, arr, reset>>
    BY DEF readAuthenticate, Reading
  <1>2. r.kind \in {"data", "error", "eof", "again"}
    BY StreamReadBounds DEF r
  <1>3. ReadMoves(e)
    BY TakeBounds DEF readAuthenticate, ReadMoves
  <1>4. CASE r.kind # "data"
    <2>1. ReadFails(e, r.kind)
      BY <1>4 DEF readAuthenticate, r
    <2> QED
      BY <1>1, <1>2, <1>3, <1>4, <2>1, ReadFailsStep DEF ReadMoves
  <1>5. CASE r.kind = "data" /\ LineText(e) = Tok("auth", 0)
    <2>1. recv' = [recv EXCEPT ![e].state = "HEADER"] /\ UNCHANGED <<error, todo>>
      BY <1>5 DEF readAuthenticate, r
    <2>2. RecvMoves(e, "HEADER") /\ ErrorMoves(e, error[e])
      BY <1>1, <2>1, SetState, KeepError DEF RecvStates
    <2> QED
      BY <1>1, <1>3, <2>2, StageStep
  <1>6. CASE r.kind = "data" /\ LineText(e) # Tok("auth", 0)
    <2>1. /\ recv' = [recv EXCEPT ![e].state = "ERROR"]
          /\ error' = [error EXCEPT ![e] = "AUTHENTICATE"] /\ Leave(e)
      BY <1>6 DEF readAuthenticate, r
    <2>2. RecvMoves(e, "ERROR") /\ ErrorMoves(e, "AUTHENTICATE")
      BY <1>1, <2>1, SetState, SetError DEF RecvStates, Errors
    <2> QED
      BY <1>1, <1>3, <2>2, StageFails DEF Errors
  <1> QED
    BY <1>4, <1>5, <1>6

\* A stage without a system call leaves the counters alone.
LEMMA NoRead ==
  ASSUME TypeOK, NEW e \in Ends, UNCHANGED <<got, used>>
  PROVE  ReadMoves(e)
  BY DEF TypeOK, ChannelTypes, CountersInOrder, ReadMoves

\* A stage that needs a line moves the counters within what has arrived.
LEMMA LineMoves ==
  ASSUME TypeOK, NEW e \in Ends, TakeLine(e, GetLine(e))
  PROVE  ReadMoves(e)
  BY TakeLineBounds DEF ReadMoves

\* Skipping the checksum of a stream without a receive size.
LEMMA skipChecksumKeeps ==
  ASSUME TypeOK, EndsInOrder, NEW e \in Ends, skipChecksum(e)
  PROVE  TypeOK' /\ EndsInOrder'
  <1>1. /\ todo[e] # <<>> /\ recv[e].state = "CHECKSUM" /\ recv[e].requestedBytes = 0
        /\ UNCHANGED <<cmd, send, mmodel, note, transport, watch, out, put, arr, reset>>
        /\ UNCHANGED <<error, todo, got, used>>
        /\ recv' = [recv EXCEPT ![e].state = "FOOTER"]
    BY DEF skipChecksum, Reading
  <1>2. RecvMoves(e, "FOOTER") /\ ErrorMoves(e, error[e]) /\ ReadMoves(e)
    BY <1>1, SetState, KeepError, NoRead DEF RecvStates
  <1>3. ~(recv[e].requestedBytes > 0)
    BY <1>1
  <1> QED
    BY <1>1, <1>2, <1>3, StageStep

\* Reading the checksum line.
LEMMA readChecksumKeeps ==
  ASSUME TypeOK, EndsInOrder, NEW e \in Ends, readChecksum(e)
  PROVE  TypeOK' /\ EndsInOrder'
  <1> DEFINE r == GetLine(e)
             good == LineText(e) = Tok("sum", recv[e].payloadBytes)
  <1> HIDE DEF r, good
  <1>1. /\ todo[e] # <<>> /\ recv[e].state = "CHECKSUM"
        /\ UNCHANGED <<cmd, send, mmodel, note, transport, watch, out, put, arr, reset>>
    BY DEF readChecksum, Reading
  <1>2. r.kind \in {"line", "error", "eof", "again"}
    BY GetLineBounds DEF r
  <1>3. ReadMoves(e)
    BY LineMoves DEF readChecksum
  <1>4. CASE r.kind # "line"
    <2>1. ReadFails(e, r.kind)
      BY <1>4 DEF readChecksum, r
    <2> QED
      BY <1>1, <1>2, <1>3, <1>4, <2>1, ReadFailsStep DEF ReadMoves
  <1>5. CASE r.kind = "line" /\ good
    <2>1. /\ recv' = [recv EXCEPT ![e].state = "FOOTER", ![e].checksumRecv = TRUE]
          /\ UNCHANGED <<error, todo>>
      BY <1>5 DEF readChecksum, r, good
    <2>2. RecvMoves(e, "FOOTER") /\ recv'[e].checksumRecv /\ ErrorMoves(e, error[e])
      BY <1>1, <2>1, SetStateAndFlag, KeepError DEF RecvStates
    <2> QED
      BY <1>1, <1>3, <2>2, StageStep
  <1>6. CASE r.kind = "line" /\ ~good
    <2>1. /\ recv' = [recv EXCEPT ![e].state = "ERROR", ![e].checksumRecv = TRUE]
          /\ error' = [error EXCEPT ![e] = "CHECKSUM"] /\ Leave(e)
      BY <1>6 DEF readChecksum, r, good
    <2>2. RecvMoves(e, "ERROR") /\ ErrorMoves(e, "CHECKSUM")
      BY <1>1, <2>1, SetStateAndFlag, SetError DEF RecvStates, Errors
    <2> QED
      BY <1>1, <1>3, <2>2, StageFails DEF Errors
  <1> QED
    BY <1>4, <1>5, <1>6

\* Skipping the footer of a stream without a receive size.
LEMMA skipFooterKeeps ==
  ASSUME TypeOK, EndsInOrder, NEW e \in Ends, skipFooter(e)
  PROVE  TypeOK' /\ EndsInOrder'
  <1>1. /\ todo[e] # <<>> /\ recv[e].state = "FOOTER" /\ ~Sized(recv[e])
        /\ UNCHANGED <<cmd, send, mmodel, note, transport, watch, out, put, arr, reset>>
        /\ UNCHANGED <<error, todo, got, used>>
        /\ recv' = [recv EXCEPT ![e].state = "SUCCESS"]
    BY DEF skipFooter, Reading
  <1>2. RecvMoves(e, "SUCCESS") /\ ErrorMoves(e, error[e]) /\ ReadMoves(e)
    BY <1>1, SetState, KeepError, NoRead DEF RecvStates
  <1> QED
    BY <1>1, <1>2, StageStep

\* Reading the footer line: the peer buffered a footer if one is read.
LEMMA readFooterKeeps ==
  ASSUME TypeOK, EndsInOrder, NEW e \in Ends, readFooter(e)
  PROVE  TypeOK' /\ EndsInOrder'
  <1> DEFINE r == GetLine(e)
             good == LineText(e).t = "fin"
  <1> HIDE DEF r, good
  <1>1. /\ todo[e] # <<>> /\ recv[e].state = "FOOTER"
        /\ UNCHANGED <<cmd, send, mmodel, note, transport, watch, out, put, arr, reset>>
    BY DEF readFooter, Reading
  <1>2. r.kind \in {"line", "error", "eof", "again"}
    BY GetLineBounds DEF r
  <1>3. ReadMoves(e) /\ (r.kind = "line" => used[e] + 1 <= arr[e])
    BY LineMoves, TakeLineBounds DEF readFooter, r
  <1>4. CASE r.kind # "line"
    <2>1. ReadFails(e, r.kind)
      BY <1>4 DEF readFooter, r
    <2> QED
      BY <1>1, <1>2, <1>3, <1>4, <2>1, ReadFailsStep DEF ReadMoves
  <1>5. CASE r.kind = "line" /\ good
    <2>1. recv' = [recv EXCEPT ![e].state = "SUCCESS"] /\ UNCHANGED <<error, todo>>
      BY <1>5 DEF readFooter, r, good
    <2>2. RecvMoves(e, "SUCCESS") /\ ErrorMoves(e, error[e])
      BY <1>1, <2>1, SetState, KeepError DEF RecvStates
    <2>3. Peer(e) \in Ends
      BY PeerFacts
    <2>4. /\ arr[e] <= put[Peer(e)] /\ put[Peer(e)] <= Len(out[Peer(e)])
          /\ used[e] \in Nat /\ arr[e] \in Nat /\ put[Peer(e)] \in Nat
          /\ Len(out[Peer(e)]) \in Nat
      BY <2>3 DEF TypeOK, ChannelTypes, CountersInOrder
    <2>5. used[e] + 1 \in 1 .. Len(out[Peer(e)])
      BY <1>3, <1>5, <2>4
    <2>6. HasFooter(Peer(e))
      BY <1>5, <2>5 DEF HasFooter, LineText, good
    <2> QED
      BY <1>1, <1>3, <2>2, <2>6, StageStep
  <1>6. CASE r.kind = "line" /\ ~good
    <2>1. /\ recv' = [recv EXCEPT ![e].state = "ERROR"]
          /\ error' = [error EXCEPT ![e] = "FOOTER"] /\ Leave(e)
      BY <1>6 DEF readFooter, r, good
    <2>2. RecvMoves(e, "ERROR") /\ ErrorMoves(e, "FOOTER")
      BY <1>1, <2>1, SetState, SetError DEF RecvStates, Errors
    <2> QED
      BY <1>1, <1>3, <2>2, StageFails DEF Errors
  <1> QED
    BY <1>4, <1>5, <1>6

\* No stage is left: only the phase ends.
LEMMA endReadableKeeps ==
  ASSUME TypeOK, EndsInOrder, NEW e \in Ends, endReadable(e)
  PROVE  TypeOK' /\ EndsInOrder'
  <1>1. /\ todo[e] # <<>> /\ Leave(e)
        /\ UNCHANGED <<cmd, send, mmodel, note, transport, watch, out, put, arr, reset>>
        /\ UNCHANGED <<recv, error, got, used>>
    BY DEF endReadable, Reading, stream
  <1>2. ErrorMoves(e, error[e]) /\ ReadMoves(e)
    BY <1>1, KeepError, NoRead
  <1>3. \A x : HasFooter(x)' <=> HasFooter(x)
    BY <1>1 DEF HasFooter
  <1>4. /\ recv \in [Ends -> RecvType] /\ send \in [Ends -> SendType]
        /\ mmodel \in [Ends -> ModelType]
    BY DEF TypeOK, StreamTypes
  <1>5. EndInv(e)
    BY DEF EndsInOrder
  <1>6. /\ ReadsInBounds(e)' /\ StatesAgree(e)' /\ ReceiptInOrder(e)'
        /\ FooterMeansReceived(e)'
    BY <1>1, <1>3, <1>5 DEF EndInv, ReadsInBounds, StatesAgree, ReceiptInOrder,
      FooterMeansReceived, ReceivedAll, GotRequested, Sized
  <1> QED
    BY <1>1, <1>2, <1>4, <1>6, ReadStep DEF ErrorMoves, ReadMoves

\* Setting only the send state.
LEMMA SetSendState ==
  ASSUME TypeOK, NEW e \in Ends, NEW st \in SendStates,
         send' = [send EXCEPT ![e].state = st]
  PROVE  /\ send' \in [Ends -> SendType] /\ send'[e].state = st
         /\ \A x \in Ends \ {e} : send'[x] = send[x]
  <1>1. send \in [Ends -> SendType]
    BY DEF TypeOK, StreamTypes
  <1> DEFINE ns == [send[e] EXCEPT !.state = st]
  <1>2. ns \in SendType /\ ns.state = st
    BY <1>1 DEF SendType
  <1>3. send' = [send EXCEPT ![e] = ns]
    BY <1>1
  <1> HIDE DEF ns
  <1> QED
    BY <1>1, <1>2, <1>3

\* Reading the header line; on the server it brings the sizes.
LEMMA readHeaderKeeps ==
  ASSUME TypeOK, EndsInOrder, NEW e \in Ends, readHeader(e)
  PROVE  TypeOK' /\ EndsInOrder'
  <1> DEFINE r == GetLine(e)
  <1> HIDE DEF r
  <1>1. /\ todo[e] # <<>> /\ recv[e].state = "HEADER"
        /\ UNCHANGED <<cmd, note, transport, watch, out, put, arr, reset>>
    BY DEF readHeader, Reading
  <1>2. r.kind \in {"line", "error", "eof", "again"}
    BY GetLineBounds DEF r
  <1>3. ReadMoves(e)
    BY LineMoves DEF readHeader
  <1>4. /\ recv \in [Ends -> RecvType] /\ send \in [Ends -> SendType]
        /\ mmodel \in [Ends -> ModelType]
    BY DEF TypeOK, StreamTypes
  <1>5. \A x : HasFooter(x)' <=> HasFooter(x)
    BY <1>1 DEF HasFooter
  <1>6. EndInv(e)
    BY DEF EndsInOrder
  <1>7. CASE r.kind # "line"
    <2>1. ReadFails(e, r.kind) /\ UNCHANGED <<send, mmodel>>
      BY <1>7 DEF readHeader, r
    <2> QED
      BY <1>1, <1>2, <1>3, <1>7, <2>1, ReadFailsStep DEF ReadMoves
  <1>8. CASE r.kind = "line" /\ ~HeaderAccepted(e)
    <2> DEFINE st == IF e = "client" THEN "SUCCESS" ELSE "RESPONSE"
    <2>1. /\ recv' = [recv EXCEPT ![e].state = "ERROR"]
          /\ error' = [error EXCEPT ![e] = "HEADER"]
          /\ send' = [send EXCEPT ![e].state = st]
          /\ Leave(e) /\ UNCHANGED mmodel
      BY <1>8 DEF readHeader, r
    <2>2. RecvMoves(e, "ERROR") /\ ErrorMoves(e, "HEADER")
      BY <1>1, <2>1, SetState, SetError DEF RecvStates, Errors
    <2>3. st \in SendStates /\ st \notin {"COMMAND", "ERROR"}
      BY DEF SendStates
    <2> HIDE DEF st
    <2>4. /\ send' \in [Ends -> SendType] /\ send'[e].state = st
          /\ \A x \in Ends \ {e} : send'[x] = send[x]
      BY <2>1, <2>3, SetSendState
    <2>5. ReadsInBounds(e)'
      BY <1>6, <2>2 DEF EndInv, ReadsInBounds, RecvMoves
    <2>6. StatesAgree(e)'
      BY <2>2, <2>3, <2>4 DEF StatesAgree, RecvMoves, ErrorMoves
    <2>7. ReceiptInOrder(e)'
      BY <2>2 DEF ReceiptInOrder, ReceivedAll, RecvMoves
    <2>8. FooterMeansReceived(e)'
      BY <1>1, <1>5, <1>6, <2>2 DEF EndInv, FooterMeansReceived, RecvMoves
    <2> QED
      BY <1>1, <1>3, <1>4, <2>1, <2>2, <2>4, <2>5, <2>6, <2>7, <2>8, ReadStep
        DEF RecvMoves, ErrorMoves, ReadMoves
  <1>9. CASE r.kind = "line" /\ HeaderAccepted(e) /\ e = "client"
    <2>1. /\ recv' = [recv EXCEPT ![e].state = "PAYLOAD"]
          /\ UNCHANGED <<error, send, mmodel, todo>>
      BY <1>9 DEF readHeader, r
    <2>2. RecvMoves(e, "PAYLOAD") /\ ErrorMoves(e, error[e])
      BY <1>1, <2>1, SetState, KeepError DEF RecvStates
    <2> QED
      BY <1>1, <1>3, <2>1, <2>2, StageStep
  <1>10. CASE r.kind = "line" /\ HeaderAccepted(e) /\ e # "client"
    <2> DEFINE nr == [recv[e] EXCEPT !.state = "MODEL",
                        !.requestedBytes = send["client"].requestedBytes,
                        !.requestedZero = send["client"].requestedZero]
               ns == [send[e] EXCEPT !.requestedBytes = recv["client"].requestedBytes,
                        !.requestedZero = recv["client"].requestedZero]
               nm == [mmodel[e] EXCEPT !.loaded = cmd.path]
    <2>1. /\ recv' = [recv EXCEPT
               ![e].state = "MODEL",
               ![e].requestedBytes = send["client"].requestedBytes,
               ![e].requestedZero = send["client"].requestedZero]
          /\ send' = [send EXCEPT
               ![e].requestedBytes = recv["client"].requestedBytes,
               ![e].requestedZero = recv["client"].requestedZero]
          /\ mmodel' = [mmodel EXCEPT ![e].loaded = cmd.path]
          /\ UNCHANGED <<error, todo>>
      BY <1>10 DEF readHeader, r
    <2>2. /\ recv' = [recv EXCEPT ![e] = nr] /\ send' = [send EXCEPT ![e] = ns]
          /\ mmodel' = [mmodel EXCEPT ![e] = nm]
      BY <1>4, <2>1
    <2>3. "client" \in Ends /\ cmd.path \in BOOLEAN
      BY DEF Ends, TypeOK, StreamTypes, CommandType
    <2>4. send["client"] \in SendType /\ recv["client"] \in RecvType
      BY <1>4, <2>3
    <2>5. /\ nr \in RecvType /\ nr.state = "MODEL"
          /\ nr.payloadBytes = recv[e].payloadBytes /\ nr.modelBytes = recv[e].modelBytes
      BY <1>4, <2>4 DEF RecvType, SendType, RecvStates
    <2>6. ns \in SendType /\ ns.state = send[e].state
      BY <1>4, <2>4 DEF RecvType, SendType
    <2>7. nm \in ModelType
      BY <1>4, <2>3 DEF ModelType
    <2> HIDE DEF nr, ns, nm
    <2>8. /\ recv' \in [Ends -> RecvType] /\ send' \in [Ends -> SendType]
          /\ mmodel' \in [Ends -> ModelType] /\ recv'[e] = nr /\ send'[e] = ns
          /\ \A x \in Ends \ {e} : recv'[x] = recv[x] /\ send'[x] = send[x]
      BY <1>4, <2>2, <2>5, <2>6, <2>7
    <2>9. ErrorMoves(e, error[e])
      BY <1>1, <2>1, KeepError
    <2>10. recv[e].payloadBytes = 0
      BY <1>1, <1>6 DEF EndInv, ReadsInBounds
    <2>a. nr.payloadBytes = 0 /\ nr.requestedBytes \in Nat
      BY <2>5, <2>10 DEF RecvType
    <2>b. nr.requestedBytes > 0 => 0 <= nr.requestedBytes
      BY <2>a
    <2>11. ReadsInBounds(e)'
      BY <1>6, <2>5, <2>8, <2>a, <2>b DEF EndInv, ReadsInBounds
    <2>12. StatesAgree(e)'
      BY <1>1, <1>6, <2>1, <2>5, <2>6, <2>8 DEF EndInv, StatesAgree
    <2>13. ReceiptInOrder(e)'
      BY <2>5, <2>8 DEF ReceiptInOrder, ReceivedAll
    <2>14. FooterMeansReceived(e)'
      BY <1>1, <1>5, <1>6, <2>5, <2>8 DEF EndInv, FooterMeansReceived
    <2> QED
      BY <1>1, <1>3, <2>8, <2>9, <2>11, <2>12, <2>13, <2>14, ReadStep
        DEF ErrorMoves, ReadMoves
  <1> QED
    BY <1>7, <1>8, <1>9, <1>10

\* The server has its model and goes on to respond and to receive payload.
LEMMA StartResponseKeeps ==
  ASSUME TypeOK, EndsInOrder, NEW e \in Ends, todo[e] # <<>>, recv[e].state = "MODEL",
         UNCHANGED <<cmd, note, transport, watch, out, put, arr, reset>>,
         ReadMoves(e), mmodel' \in [Ends -> ModelType], StartResponse(e)
  PROVE  TypeOK' /\ EndsInOrder'
  <1>1. /\ recv' = [recv EXCEPT ![e].state = "PAYLOAD"]
        /\ send' = [send EXCEPT ![e].state = "RESPONSE"]
        /\ UNCHANGED <<error, todo>>
    BY DEF StartResponse
  <1>2. RecvMoves(e, "PAYLOAD") /\ ErrorMoves(e, error[e])
    BY <1>1, SetState, KeepError DEF RecvStates
  <1>3. /\ send' \in [Ends -> SendType] /\ send'[e].state = "RESPONSE"
        /\ \A x \in Ends \ {e} : send'[x] = send[x]
    BY <1>1, SetSendState DEF SendStates
  <1>4. \A x : HasFooter(x)' <=> HasFooter(x)
    BY DEF HasFooter
  <1>5. EndInv(e)
    BY DEF EndsInOrder
  <1>6. ReadsInBounds(e)'
    BY <1>2, <1>5 DEF EndInv, ReadsInBounds, RecvMoves
  <1>7. StatesAgree(e)'
    BY <1>2, <1>3, <1>5 DEF EndInv, StatesAgree, RecvMoves, ErrorMoves
  <1>8. ReceiptInOrder(e)'
    BY <1>2 DEF ReceiptInOrder, ReceivedAll, RecvMoves
  <1>9. FooterMeansReceived(e)'
    BY <1>2, <1>4, <1>5 DEF EndInv, FooterMeansReceived, RecvMoves
  <1> QED
    BY <1>2, <1>3, <1>6, <1>7, <1>8, <1>9, ReadStep DEF RecvMoves, ErrorMoves, ReadMoves

\* readModel with a model already loaded goes straight to the response and keeps the invariant.
LEMMA skipModelKeeps ==
  ASSUME TypeOK, EndsInOrder, NEW e \in Ends, skipModel(e)
  PROVE  TypeOK' /\ EndsInOrder'
  <1>1. /\ todo[e] # <<>> /\ recv[e].state = "MODEL" /\ StartResponse(e)
        /\ UNCHANGED <<cmd, note, transport, watch, out, put, arr, reset>>
        /\ UNCHANGED <<mmodel, got, used>>
    BY DEF skipModel, Reading
  <1>2. ReadMoves(e) /\ mmodel' \in [Ends -> ModelType]
    BY <1>1, NoRead DEF TypeOK, StreamTypes
  <1> QED
    BY <1>1, <1>2, StartResponseKeeps

\* Reading the model: never more than what is left of it.
LEMMA readModelKeeps ==
  ASSUME TypeOK, EndsInOrder, NEW e \in Ends, readModel(e)
  PROVE  TypeOK' /\ EndsInOrder'
  <1> DEFINE limit == Min2(ReadMax, ModelSize - recv[e].modelBytes)
             r == StreamRead(e, limit)
             have == recv[e].modelBytes + r.n
  <1>1. /\ todo[e] # <<>> /\ recv[e].state = "MODEL"
        /\ UNCHANGED <<cmd, note, transport, watch, out, put, arr, reset>>
        /\ Take(e, StreamRead(e, limit).n)
    BY DEF readModel, Reading
  <1>2. /\ recv \in [Ends -> RecvType] /\ send \in [Ends -> SendType]
        /\ mmodel \in [Ends -> ModelType]
    BY DEF TypeOK, StreamTypes
  <1>3. EndInv(e)
    BY DEF EndsInOrder
  <1>4. recv[e].modelBytes \in Nat /\ recv[e].modelBytes < ModelSize
    BY <1>2, <1>3 DEF EndInv, ReadsInBounds, RecvType
  <1>5. limit \in Nat
    BY <1>4, SizeAssumption DEF Min2
  <1> HIDE DEF limit
  <1>6. r.kind \in {"data", "error", "eof", "again"} /\ r.n \in Nat
    BY <1>5, StreamReadBounds
  <1>7. ReadMoves(e)
    BY <1>1, <1>5, TakeBounds DEF ReadMoves
  <1>8. IF r.kind # "data" THEN ReadFails(e, r.kind) /\ UNCHANGED <<send, mmodel>>
        ELSE IF have < ModelSize
        THEN /\ recv' = [recv EXCEPT ![e].modelBytes = have]
             /\ Leave(e)
             /\ UNCHANGED <<error, send, mmodel>>
        ELSE IF cmd.model
        THEN StartResponse(e) /\ mmodel' = [mmodel EXCEPT ![e].loaded = TRUE]
        ELSE /\ recv' = [recv EXCEPT ![e].state = "ERROR"]
             /\ send' = [send EXCEPT ![e].state = "RESPONSE"]
             /\ error' = [error EXCEPT ![e] = "MODEL"]
             /\ Leave(e)
             /\ UNCHANGED mmodel
    BY DEF readModel, limit
  <1> HIDE DEF r
  <1>9. have \in Nat
    BY <1>4, <1>6
  <1> HIDE DEF have
  <1>10. \A x : HasFooter(x)' <=> HasFooter(x)
    BY <1>1 DEF HasFooter
  <1>11. CASE r.kind # "data"
    BY <1>1, <1>6, <1>7, <1>8, <1>11, ReadFailsStep DEF ReadMoves
  <1>12. CASE r.kind = "data" /\ have < ModelSize
    <2> DEFINE nr == [recv[e] EXCEPT !.modelBytes = have]
    <2>1. /\ recv' = [recv EXCEPT ![e].modelBytes = have] /\ Leave(e)
          /\ UNCHANGED <<error, send, mmodel>>
      BY <1>8, <1>12
    <2>2. recv' = [recv EXCEPT ![e] = nr]
      BY <1>2, <2>1
    <2>3. /\ nr \in RecvType /\ nr.state = recv[e].state /\ nr.modelBytes = have
          /\ nr.payloadBytes = recv[e].payloadBytes
          /\ nr.requestedBytes = recv[e].requestedBytes
      BY <1>2, <1>9 DEF RecvType
    <2> HIDE DEF nr
    <2>4. /\ recv' \in [Ends -> RecvType] /\ recv'[e] = nr
          /\ \A x \in Ends \ {e} : recv'[x] = recv[x]
      BY <1>2, <2>2, <2>3
    <2>5. ErrorMoves(e, error[e])
      BY <1>1, <2>1, KeepError
    <2>6. ReadsInBounds(e)'
      BY <1>3, <1>12, <2>3, <2>4 DEF EndInv, ReadsInBounds
    <2>7. StatesAgree(e)'
      BY <1>3, <2>1, <2>3, <2>4 DEF EndInv, StatesAgree
    <2>8. ReceiptInOrder(e)'
      BY <1>1, <2>3, <2>4 DEF ReceiptInOrder, ReceivedAll
    <2>9. FooterMeansReceived(e)'
      BY <1>1, <1>3, <1>10, <2>3, <2>4 DEF EndInv, FooterMeansReceived
    <2> QED
      BY <1>1, <1>2, <1>7, <2>1, <2>4, <2>5, <2>6, <2>7, <2>8, <2>9, ReadStep
        DEF ErrorMoves, ReadMoves
  <1>13. CASE r.kind = "data" /\ ~(have < ModelSize) /\ cmd.model
    <2>1. StartResponse(e) /\ mmodel' = [mmodel EXCEPT ![e].loaded = TRUE]
      BY <1>8, <1>13
    <2>2. mmodel' \in [Ends -> ModelType]
      BY <1>2, <2>1 DEF ModelType
    <2> QED
      BY <1>1, <1>7, <2>1, <2>2, StartResponseKeeps
  <1>14. CASE r.kind = "data" /\ ~(have < ModelSize) /\ ~cmd.model
    <2>1. /\ recv' = [recv EXCEPT ![e].state = "ERROR"]
          /\ send' = [send EXCEPT ![e].state = "RESPONSE"]
          /\ error' = [error EXCEPT ![e] = "MODEL"]
          /\ Leave(e) /\ UNCHANGED mmodel
      BY <1>8, <1>14
    <2>2. RecvMoves(e, "ERROR") /\ ErrorMoves(e, "MODEL")
      BY <1>1, <2>1, SetState, SetError DEF RecvStates, Errors
    <2>3. /\ send' \in [Ends -> SendType] /\ send'[e].state = "RESPONSE"
          /\ \A x \in Ends \ {e} : send'[x] = send[x]
      BY <2>1, SetSendState DEF SendStates
    <2>4. ReadsInBounds(e)'
      BY <1>3, <2>2 DEF EndInv, ReadsInBounds, RecvMoves
    <2>5. StatesAgree(e)'
      BY <2>2, <2>3 DEF StatesAgree, RecvMoves, ErrorMoves
    <2>6. ReceiptInOrder(e)'
      BY <2>2 DEF ReceiptInOrder, ReceivedAll, RecvMoves
    <2>7. FooterMeansReceived(e)'
      BY <1>1, <1>3, <1>10, <2>2 DEF EndInv, FooterMeansReceived, RecvMoves
    <2>8. /\ recv' \in [Ends -> RecvType] /\ error' \in [Ends -> Errors]
          /\ \A x \in Ends \ {e} : recv'[x] = recv[x] /\ error'[x] = error[x]
      BY <2>2 DEF RecvMoves, ErrorMoves
    <2>9. mmodel' \in [Ends -> ModelType]
      BY <1>2, <2>1
    <2>10. todo' \in [Ends -> Seq(Phases)]
      BY <1>1, <2>1, LeaveType DEF TypeOK
    <2>11. \A x \in Ends \ {e} : todo'[x] = todo[x]
      BY <2>1 DEF Leave, TypeOK, StreamTypes
    <2> QED
      BY <1>1, <1>7, <2>3, <2>4, <2>5, <2>6, <2>7, <2>8, <2>9, <2>10, <2>11, ReadStep
        DEF ReadMoves
  <1> QED
    BY <1>11, <1>12, <1>13, <1>14

\* Reading payload: never more than what was requested, and the stage is left
\* only with all of it.
LEMMA readPayloadKeeps ==
  ASSUME TypeOK, EndsInOrder, NEW e \in Ends, readPayload(e)
  PROVE  TypeOK' /\ EndsInOrder'
  <1> DEFINE sized == recv[e].requestedBytes > 0
             skips == recv[e].requestedBytes = 0 /\ recv[e].requestedZero
             r == IF skips THEN [kind |-> "skip", n |-> 0]
                  ELSE StreamRead(e, PayloadLimit(e))
             have == recv[e].payloadBytes + r.n
             full == \/ r.kind = "skip"
                     \/ r.kind = "eof" /\ ~sized
                     \/ r.kind = "data" /\ sized /\ have >= recv[e].requestedBytes
  <1>1. /\ todo[e] # <<>> /\ recv[e].state = "PAYLOAD"
        /\ UNCHANGED <<cmd, send, mmodel, note, transport, watch, out, put, arr, reset>>
        /\ Take(e, r.n)
    BY DEF readPayload, Reading
  <1>2. /\ recv \in [Ends -> RecvType] /\ send \in [Ends -> SendType]
        /\ mmodel \in [Ends -> ModelType]
    BY DEF TypeOK, StreamTypes
  <1>3. EndInv(e)
    BY DEF EndsInOrder
  <1>4. /\ recv[e].payloadBytes \in Nat /\ recv[e].requestedBytes \in Nat
        /\ sized => recv[e].payloadBytes <= recv[e].requestedBytes
    BY <1>2, <1>3 DEF EndInv, ReadsInBounds, RecvType
  <1>5. PayloadLimit(e) \in Nat
        /\ (sized => PayloadLimit(e) <= recv[e].requestedBytes - recv[e].payloadBytes)
    BY <1>4, SizeAssumption DEF PayloadLimit, Min2
  <1>6. ~skips => /\ r.kind \in {"data", "error", "eof", "again"} /\ r.n \in Nat
                  /\ r.n <= PayloadLimit(e)
    BY <1>5, StreamReadBounds
  <1>7. skips => r.kind = "skip" /\ r.n = 0 /\ ~sized
    BY <1>4
  <1>8. ReadMoves(e)
    <2>1. CASE skips
      <3>1. r.n = 0
        BY <2>1
      <3>2. /\ used' = [used EXCEPT ![e] = @ + 0]
            /\ got' = [got EXCEPT ![e] = Max2(@, used[e] + 0)]
        BY <1>1, <3>1 DEF Take
      <3> QED
        BY <3>2 DEF TypeOK, ChannelTypes, CountersInOrder, ReadMoves, Max2
    <2>2. CASE ~skips
      <3>1. Take(e, StreamRead(e, PayloadLimit(e)).n)
        BY <1>1, <2>2
      <3> QED
        BY <1>5, <3>1, TakeBounds DEF ReadMoves
    <2> QED
      BY <2>1, <2>2
  <1>9. IF full
        THEN /\ recv' = [recv EXCEPT ![e].state = "CHECKSUM", ![e].payloadBytes = have]
             /\ UNCHANGED <<error, todo>>
        ELSE IF r.kind = "data"
        THEN /\ recv' = [recv EXCEPT ![e].payloadBytes = have]
             /\ Leave(e)
             /\ UNCHANGED error
        ELSE ReadFails(e, r.kind)
    BY DEF readPayload
  <1> HIDE DEF r
  <1>10. /\ have \in Nat
         /\ sized => have <= recv[e].requestedBytes
    BY <1>4, <1>5, <1>6, <1>7
  <1>11. r.kind = "skip" => skips
    BY <1>6
  <1>12. full /\ sized => have = recv[e].requestedBytes
    BY <1>4, <1>7, <1>10, <1>11
  <1> HIDE DEF full, have, skips
  <1>13. \A x : HasFooter(x)' <=> HasFooter(x)
    BY <1>1 DEF HasFooter
  <1>14. CASE full
    <2> DEFINE nr == [recv[e] EXCEPT !.state = "CHECKSUM", !.payloadBytes = have]
    <2>1. /\ recv' = [recv EXCEPT ![e].state = "CHECKSUM", ![e].payloadBytes = have]
          /\ UNCHANGED <<error, todo>>
      BY <1>9, <1>14
    <2>2. recv' = [recv EXCEPT ![e] = nr]
      BY <1>2, <2>1
    <2>3. /\ nr \in RecvType /\ nr.state = "CHECKSUM" /\ nr.payloadBytes = have
          /\ nr.modelBytes = recv[e].modelBytes
          /\ nr.requestedBytes = recv[e].requestedBytes
      BY <1>2, <1>10 DEF RecvType, RecvStates
    <2> HIDE DEF nr
    <2>4. /\ recv' \in [Ends -> RecvType] /\ recv'[e] = nr
          /\ \A x \in Ends \ {e} : recv'[x] = recv[x]
      BY <1>2, <2>2, <2>3
    <2>5. ErrorMoves(e, error[e])
      BY <1>1, <2>1, KeepError
    <2>6. ReadsInBounds(e)'
      BY <1>3, <1>10, <2>3, <2>4 DEF EndInv, ReadsInBounds
    <2>7. StatesAgree(e)'
      BY <1>1, <1>3, <2>1, <2>3, <2>4 DEF EndInv, StatesAgree
    <2>8. ReceiptInOrder(e)'
      BY <1>12, <1>14, <2>3, <2>4 DEF ReceiptInOrder, ReceivedAll
    <2>9. FooterMeansReceived(e)'
      BY <1>1, <1>3, <1>13, <2>3, <2>4 DEF EndInv, FooterMeansReceived
    <2> QED
      BY <1>1, <1>2, <1>8, <2>4, <2>5, <2>6, <2>7, <2>8, <2>9, ReadStep
        DEF ErrorMoves, ReadMoves
  <1>15. CASE ~full /\ r.kind = "data"
    <2> DEFINE nr == [recv[e] EXCEPT !.payloadBytes = have]
    <2>1. recv' = [recv EXCEPT ![e].payloadBytes = have] /\ Leave(e) /\ UNCHANGED error
      BY <1>9, <1>15
    <2>2. recv' = [recv EXCEPT ![e] = nr]
      BY <1>2, <2>1
    <2>3. /\ nr \in RecvType /\ nr.state = recv[e].state /\ nr.payloadBytes = have
          /\ nr.modelBytes = recv[e].modelBytes
          /\ nr.requestedBytes = recv[e].requestedBytes
      BY <1>2, <1>10 DEF RecvType
    <2> HIDE DEF nr
    <2>4. /\ recv' \in [Ends -> RecvType] /\ recv'[e] = nr
          /\ \A x \in Ends \ {e} : recv'[x] = recv[x]
      BY <1>2, <2>2, <2>3
    <2>5. ErrorMoves(e, error[e])
      BY <1>1, <2>1, KeepError
    <2>6. ReadsInBounds(e)'
      BY <1>1, <1>3, <1>10, <2>3, <2>4 DEF EndInv, ReadsInBounds
    <2>7. StatesAgree(e)'
      BY <1>1, <1>3, <2>1, <2>3, <2>4 DEF EndInv, StatesAgree
    <2>8. ReceiptInOrder(e)'
      BY <1>1, <2>3, <2>4 DEF ReceiptInOrder, ReceivedAll
    <2>9. FooterMeansReceived(e)'
      BY <1>1, <1>3, <1>13, <2>3, <2>4 DEF EndInv, FooterMeansReceived
    <2> QED
      BY <1>1, <1>2, <1>8, <2>4, <2>5, <2>6, <2>7, <2>8, <2>9, ReadStep
        DEF ErrorMoves, ReadMoves
  <1>16. CASE ~full /\ r.kind # "data"
    <2>1. ReadFails(e, r.kind)
      BY <1>9, <1>16
    <2>2. r.kind \in {"error", "eof", "again"}
      BY <1>6, <1>7, <1>16 DEF full
    <2> QED
      BY <1>1, <1>8, <2>1, <2>2, ReadFailsStep DEF ReadMoves
  <1> QED
    BY <1>14, <1>15, <1>16

-----------------------------------------------------------------------------
(* The stages of onWritable keep the invariant.                             *)

\* What is appended to the log of e adds a footer only if it contains one.
LEMMA FooterAppended ==
  ASSUME TypeOK, NEW e \in Ends, NEW line \in Seq(Tokens),
         out' = [out EXCEPT ![e] = out[e] \o line]
  PROVE  /\ HasFooter(e) => HasFooter(e)'
         /\ HasFooter(e)' => HasFooter(e) \/ \E i \in 1 .. Len(line) : line[i].t = "fin"
         /\ HasFooter(Peer(e))' <=> HasFooter(Peer(e))
  <1>1. out[e] \in Seq(Tokens) /\ out'[e] = out[e] \o line /\ Len(out[e]) \in Nat
        /\ Len(line) \in Nat
    BY DEF TypeOK, ChannelTypes
  <1>2. /\ Len(out'[e]) = Len(out[e]) + Len(line)
        /\ \A i \in 1 .. Len(out[e]) : out'[e][i] = out[e][i]
        /\ \A i \in Len(out[e]) + 1 .. Len(out[e]) + Len(line) :
             out'[e][i] = line[i - Len(out[e])]
    BY <1>1
  <1>3. HasFooter(e) => HasFooter(e)'
    BY <1>1, <1>2 DEF HasFooter
  <1>4. ASSUME NEW i \in 1 .. Len(out'[e]), out'[e][i].t = "fin"
        PROVE  HasFooter(e) \/ \E k \in 1 .. Len(line) : line[k].t = "fin"
    <2>1. CASE i <= Len(out[e])
      BY <1>1, <1>2, <1>4, <2>1 DEF HasFooter
    <2>2. CASE i > Len(out[e])
      <3>1. i - Len(out[e]) \in 1 .. Len(line) /\ out'[e][i] = line[i - Len(out[e])]
        BY <1>1, <1>2, <2>2
      <3> QED
        BY <1>4, <3>1
    <2> QED
      BY <1>1, <2>1, <2>2
  <1>5. HasFooter(Peer(e))' <=> HasFooter(Peer(e))
    BY PeerFacts DEF HasFooter, TypeOK, ChannelTypes
  <1> QED
    BY <1>3, <1>4, <1>5 DEF HasFooter

\* The write side of a step: the log and the write counter of e grow.
WriteMoves(e) ==
  /\ ChannelTypes' /\ CountersInOrder'
  /\ HasFooter(e) => HasFooter(e)'
  /\ HasFooter(Peer(e))' <=> HasFooter(Peer(e))

\* What has to be shown of a step of onWritable.
LEMMA WriteStep ==
  ASSUME TypeOK, EndsInOrder, NEW e \in Ends, todo[e] # <<>>,
         UNCHANGED <<cmd, note, transport, watch, arr, got, used, reset>>,
         WriteMoves(e),
         recv' \in [Ends -> RecvType], send' \in [Ends -> SendType],
         mmodel' \in [Ends -> ModelType],
         NEW er, ErrorMoves(e, er),
         \A x \in Ends \ {e} : recv'[x] = recv[x] /\ send'[x] = send[x],
         ReadsInBounds(e)', StatesAgree(e)', ReceiptInOrder(e)', FooterMeansReceived(e)'
  PROVE  TypeOK' /\ EndsInOrder'
  <1>1. StreamTypes'
    BY DEF TypeOK, StreamTypes, ErrorMoves
  <1>2. Peer(e) \in Ends \ {e}
    BY PeerFacts
  <1>3. EndInv(Peer(e))'
    BY <1>2, OtherEnd DEF WriteMoves, ErrorMoves
  <1>4. DestroyedIsFinal(e)'
    BY ActiveEnd DEF DestroyedIsFinal, Gone
  <1>5. EndInv(e)'
    BY <1>4 DEF EndInv
  <1> QED
    BY <1>1, <1>3, <1>5, BothEnds DEF TypeOK, WriteMoves

\* A write stage that changes no receive state, and adds a footer only if
\* everything was received.
LEMMA SendStep ==
  ASSUME TypeOK, EndsInOrder, NEW e \in Ends, todo[e] # <<>>,
         UNCHANGED <<cmd, recv, note, transport, watch, arr, got, used, reset>>,
         WriteMoves(e), send' \in [Ends -> SendType],
         mmodel' \in [Ends -> ModelType],
         NEW er, ErrorMoves(e, er), error[e] # "NONE" => er # "NONE",
         \A x \in Ends \ {e} : send'[x] = send[x],
         send'[e].state = "COMMAND" => send[e].state = "COMMAND",
         send'[e].state = "ERROR" => er # "NONE",
         HasFooter(e)' => HasFooter(e) \/ ReceivedAll(e)
  PROVE  TypeOK' /\ EndsInOrder'
  <1>1. EndInv(e)
    BY DEF EndsInOrder
  <1>2. recv \in [Ends -> RecvType]
    BY DEF TypeOK, StreamTypes
  <1>3. ReadsInBounds(e)'
    BY <1>1 DEF EndInv, ReadsInBounds
  <1>4. StatesAgree(e)'
    BY <1>1 DEF EndInv, StatesAgree, ErrorMoves
  <1>5. ReceiptInOrder(e)'
    BY <1>1 DEF EndInv, ReceiptInOrder, ReceivedAll, GotRequested
  <1>6. FooterMeansReceived(e)'
    BY <1>1 DEF EndInv, FooterMeansReceived, ReceiptInOrder, ReceivedAll, GotRequested,
      Sized, WriteMoves
  <1> QED
    BY <1>2, <1>3, <1>4, <1>5, <1>6, WriteStep

\* A stage that writes nothing.
LEMMA NoWrite ==
  ASSUME TypeOK, NEW e \in Ends, UNCHANGED <<out, put, arr, got, used>>
  PROVE  WriteMoves(e) /\ (HasFooter(e)' <=> HasFooter(e))
  BY DEF WriteMoves, HasFooter, TypeOK, ChannelTypes, CountersInOrder

\* The sequences that the stages write.
HasFin(line) == \E i \in 1 .. Len(line) : line[i].t = "fin"

\* Writing a line, in terms of the frames above.
LEMMA WriteLineMoves ==
  ASSUME TypeOK, NEW e \in Ends, NEW line \in Seq(Tokens), NEW next \in SendStates,
         todo[e] # <<>>, WriteLine(e, line, next), UNCHANGED <<got, used, arr>>
  PROVE  /\ WriteMoves(e) /\ (HasFooter(e)' => HasFooter(e) \/ HasFin(line))
         /\ ErrorMoves(e, error'[e]) /\ (error[e] # "NONE" => error'[e] # "NONE")
         /\ send' \in [Ends -> SendType]
         /\ \A x \in Ends \ {e} : send'[x] = send[x]
         /\ send'[e].state \in {send[e].state, next} \/ error'[e] # "NONE"
         /\ send'[e].state \in {send[e].state, next, "ERROR"}
  <1> DEFINE o == Queue(e, line)
  <1>1. /\ out' = [out EXCEPT ![e] = o]
        /\ put' \in [Ends -> Nat]
        /\ \A x \in Ends \ {e} : put'[x] = put[x]
        /\ put[e] <= put'[e] /\ put'[e] <= Len(o)
        /\ put'[e] <= got[Peer(e)] + SockBuf
        /\ \/ send' = send
           \/ \E st \in {"ERROR", next} : send' = [send EXCEPT ![e].state = st]
        /\ send'[e].state \in {send[e].state, next} \/ error'[e] # "NONE"
        /\ error' \in [Ends -> Errors]
        /\ \A x \in Ends \ {e} : error'[x] = error[x]
        /\ error'[e] = "NONE" => error[e] = "NONE"
        /\ todo' \in [Ends -> Seq(Phases)]
    BY WriteLineType
  <1>2. o \in Seq(Tokens)
    BY QueueBounds
  <1>3. o = out[e] \/ o = out[e] \o line
    BY DEF Queue
  <1> HIDE DEF o
  <1>4. ChannelTypes' /\ CountersInOrder'
    BY <1>1, <1>2, WriteCounters
  <1>5. /\ HasFooter(e) => HasFooter(e)'
        /\ HasFooter(e)' => HasFooter(e) \/ HasFin(line)
        /\ HasFooter(Peer(e))' <=> HasFooter(Peer(e))
    <2>1. CASE o = out[e]
      <3>1. out' = out
        BY <1>1, <2>1 DEF TypeOK, ChannelTypes
      <3> QED
        BY <3>1 DEF HasFooter
    <2>2. CASE o = out[e] \o line
      BY <1>1, <2>2, FooterAppended DEF HasFin
    <2> QED
      BY <1>3, <2>1, <2>2
  <1>6. \A x \in Ends \ {e} : todo'[x] = todo[x]
    <2>1. todo' = todo \/ Leave(e)
      BY DEF WriteLine, WriteError
    <2> QED
      BY <2>1 DEF Leave, TypeOK, StreamTypes
  <1>7. /\ send' \in [Ends -> SendType] /\ \A x \in Ends \ {e} : send'[x] = send[x]
        /\ send'[e].state \in {send[e].state, next, "ERROR"}
    <2>1. CASE send' = send
      BY <2>1 DEF TypeOK, StreamTypes
    <2>2. CASE \E st \in {"ERROR", next} : send' = [send EXCEPT ![e].state = st]
      BY <2>2, SetSendState DEF SendStates
    <2> QED
      BY <1>1, <2>1, <2>2
  <1> QED
    BY <1>1, <1>4, <1>5, <1>6, <1>7 DEF WriteMoves, ErrorMoves

\* The lines that are written, and whether they hold a footer.
LEMMA LineTypes ==
  /\ \A t \in {"auth", "hdr", "model", "data", "sum", "fin", "nl"}, v \in Nat :
       Tok(t, v) \in Tokens /\ Tok(t, v).t = t
  /\ \A b : Verdict(b) \in Nat
  BY DEF Tok, Tokens, Verdict

\* All payload is sent.
LEMMA endPayloadKeeps ==
  ASSUME TypeOK, EndsInOrder, NEW e \in Ends, endPayload(e)
  PROVE  TypeOK' /\ EndsInOrder'
  <1>1. /\ todo[e] # <<>> /\ send[e].state = "PAYLOAD"
        /\ UNCHANGED <<cmd, recv, note, transport, watch, arr, got, used, reset>>
        /\ UNCHANGED <<error, mmodel, todo, out, put>>
        /\ send' = [send EXCEPT ![e].state = "CHECKSUM"]
    BY DEF endPayload, Writing
  <1>2. /\ send' \in [Ends -> SendType] /\ send'[e].state = "CHECKSUM"
        /\ \A x \in Ends \ {e} : send'[x] = send[x]
    BY <1>1, SetSendState DEF SendStates
  <1>3. WriteMoves(e) /\ (HasFooter(e)' <=> HasFooter(e)) /\ ErrorMoves(e, error[e])
    BY <1>1, NoWrite, KeepError
  <1>4. mmodel \in [Ends -> ModelType]
    BY DEF TypeOK, StreamTypes
  <1> QED
    BY <1>1, <1>2, <1>3, <1>4, SendStep

\* Without a send size no checksum is sent.
LEMMA skipSendChecksumKeeps ==
  ASSUME TypeOK, EndsInOrder, NEW e \in Ends, skipSendChecksum(e)
  PROVE  TypeOK' /\ EndsInOrder'
  <1>1. /\ todo[e] # <<>> /\ send[e].state = "CHECKSUM"
        /\ UNCHANGED <<cmd, recv, note, transport, watch, arr, got, used, reset>>
        /\ UNCHANGED <<error, mmodel, todo, out, put>>
        /\ send' = [send EXCEPT ![e].state = "FOOTER"]
    BY DEF skipSendChecksum, Writing
  <1>2. /\ send' \in [Ends -> SendType] /\ send'[e].state = "FOOTER"
        /\ \A x \in Ends \ {e} : send'[x] = send[x]
    BY <1>1, SetSendState DEF SendStates
  <1>3. WriteMoves(e) /\ (HasFooter(e)' <=> HasFooter(e)) /\ ErrorMoves(e, error[e])
    BY <1>1, NoWrite, KeepError
  <1>4. mmodel \in [Ends -> ModelType]
    BY DEF TypeOK, StreamTypes
  <1> QED
    BY <1>1, <1>2, <1>3, <1>4, SendStep

\* Without a send size no footer is sent.
LEMMA skipSendFooterKeeps ==
  ASSUME TypeOK, EndsInOrder, NEW e \in Ends, skipSendFooter(e)
  PROVE  TypeOK' /\ EndsInOrder'
  <1>1. /\ todo[e] # <<>> /\ send[e].state = "FOOTER"
        /\ UNCHANGED <<cmd, recv, note, transport, watch, arr, got, used, reset>>
        /\ UNCHANGED <<error, mmodel, todo, out, put>>
        /\ send' = [send EXCEPT ![e].state = "FLUSH"]
    BY DEF skipSendFooter, Writing
  <1>2. /\ send' \in [Ends -> SendType] /\ send'[e].state = "FLUSH"
        /\ \A x \in Ends \ {e} : send'[x] = send[x]
    BY <1>1, SetSendState DEF SendStates
  <1>3. WriteMoves(e) /\ (HasFooter(e)' <=> HasFooter(e)) /\ ErrorMoves(e, error[e])
    BY <1>1, NoWrite, KeepError
  <1>4. mmodel \in [Ends -> ModelType]
    BY DEF TypeOK, StreamTypes
  <1> QED
    BY <1>1, <1>2, <1>3, <1>4, SendStep

\* The last send stage.
LEMMA flushKeeps ==
  ASSUME TypeOK, EndsInOrder, NEW e \in Ends, flush(e)
  PROVE  TypeOK' /\ EndsInOrder'
  <1>1. /\ todo[e] # <<>> /\ send[e].state = "FLUSH"
        /\ UNCHANGED <<cmd, recv, note, transport, watch, arr, got, used, reset>>
        /\ UNCHANGED <<error, mmodel, todo, out, put>>
        /\ send' = [send EXCEPT ![e].state = "SUCCESS"]
    BY DEF flush, Writing
  <1>2. /\ send' \in [Ends -> SendType] /\ send'[e].state = "SUCCESS"
        /\ \A x \in Ends \ {e} : send'[x] = send[x]
    BY <1>1, SetSendState DEF SendStates
  <1>3. WriteMoves(e) /\ (HasFooter(e)' <=> HasFooter(e)) /\ ErrorMoves(e, error[e])
    BY <1>1, NoWrite, KeepError
  <1>4. mmodel \in [Ends -> ModelType]
    BY DEF TypeOK, StreamTypes
  <1> QED
    BY <1>1, <1>2, <1>3, <1>4, SendStep

\* The footer waits.
LEMMA holdFooterKeeps ==
  ASSUME TypeOK, EndsInOrder, NEW e \in Ends, holdFooter(e)
  PROVE  TypeOK' /\ EndsInOrder'
  <1>1. /\ todo[e] # <<>> /\ Leave(e)
        /\ UNCHANGED <<cmd, recv, note, transport, watch, arr, got, used, reset>>
        /\ UNCHANGED <<send, error, mmodel, out, put>>
    BY DEF holdFooter, Writing
  <1>2. WriteMoves(e) /\ (HasFooter(e)' <=> HasFooter(e)) /\ ErrorMoves(e, error[e])
    BY <1>1, NoWrite, KeepError
  <1>3. mmodel \in [Ends -> ModelType] /\ send \in [Ends -> SendType]
    BY DEF TypeOK, StreamTypes
  <1>4. send[e].state = "ERROR" => error[e] # "NONE"
    BY DEF EndsInOrder, EndInv, StatesAgree
  <1> QED
    BY <1>1, <1>2, <1>3, <1>4, SendStep

\* No write stage is left.
LEMMA endWritableKeeps ==
  ASSUME TypeOK, EndsInOrder, NEW e \in Ends, endWritable(e)
  PROVE  TypeOK' /\ EndsInOrder'
  <1>1. /\ todo[e] # <<>> /\ Leave(e)
        /\ UNCHANGED <<cmd, recv, note, transport, watch, arr, got, used, reset>>
        /\ UNCHANGED <<send, error, mmodel, out, put>>
    BY DEF endWritable, Writing
  <1>2. WriteMoves(e) /\ (HasFooter(e)' <=> HasFooter(e)) /\ ErrorMoves(e, error[e])
    BY <1>1, NoWrite, KeepError
  <1>3. mmodel \in [Ends -> ModelType] /\ send \in [Ends -> SendType]
    BY DEF TypeOK, StreamTypes
  <1>4. send[e].state = "ERROR" => error[e] # "NONE"
    BY DEF EndsInOrder, EndInv, StatesAgree
  <1> QED
    BY <1>1, <1>2, <1>3, <1>4, SendStep

\* Writing the checksum line.
LEMMA writeChecksumKeeps ==
  ASSUME TypeOK, EndsInOrder, NEW e \in Ends, writeChecksum(e)
  PROVE  TypeOK' /\ EndsInOrder'
  <1> DEFINE line == <<Tok("sum", send[e].payloadBytes), Tok("nl", 0)>>
             next == "FOOTER"
  <1>1. /\ todo[e] # <<>> /\ send[e].state = "CHECKSUM" /\ WriteLine(e, line, next)
        /\ UNCHANGED <<cmd, recv, note, transport, watch, arr, got, used, reset>>
        /\ UNCHANGED mmodel
    BY DEF writeChecksum, Writing
  <1>2. send \in [Ends -> SendType] /\ mmodel \in [Ends -> ModelType]
    BY DEF TypeOK, StreamTypes
  <1>3. line \in Seq(Tokens)
    BY <1>2, LineTypes DEF SendType
  <1>4. ~HasFin(line)
    BY DEF HasFin, Tok
  <1>5. next \in SendStates \ {"COMMAND", "ERROR"}
    BY DEF SendStates
  <1> HIDE DEF line, next
  <1>6. /\ WriteMoves(e) /\ (HasFooter(e)' => HasFooter(e) \/ HasFin(line))
        /\ ErrorMoves(e, error'[e]) /\ (error[e] # "NONE" => error'[e] # "NONE")
        /\ send' \in [Ends -> SendType]
        /\ \A x \in Ends \ {e} : send'[x] = send[x]
        /\ send'[e].state \in {send[e].state, next} \/ error'[e] # "NONE"
        /\ send'[e].state \in {send[e].state, next, "ERROR"}
    BY <1>1, <1>3, <1>5, WriteLineMoves
  <1>7. /\ send'[e].state = "COMMAND" => send[e].state = "COMMAND"
        /\ send'[e].state = "ERROR" => error'[e] # "NONE"
    BY <1>1, <1>5, <1>6
  <1>8. HasFooter(e)' => HasFooter(e) \/ ReceivedAll(e)
    BY <1>4, <1>6
  <1> QED
    BY <1>1, <1>2, <1>6, <1>7, <1>8, SendStep

\* Writing the footer line, after everything was received.
LEMMA writeFooterKeeps ==
  ASSUME TypeOK, EndsInOrder, NEW e \in Ends, writeFooter(e)
  PROVE  TypeOK' /\ EndsInOrder'
  <1> DEFINE line == <<Tok("fin", 0), Tok("nl", 0)>>
             next == "FLUSH"
  <1>1. /\ todo[e] # <<>> /\ send[e].state = "FOOTER" /\ WriteLine(e, line, next)
        /\ UNCHANGED <<cmd, recv, note, transport, watch, arr, got, used, reset>>
        /\ UNCHANGED mmodel
    BY DEF writeFooter, Writing
  <1>2. send \in [Ends -> SendType] /\ mmodel \in [Ends -> ModelType]
    BY DEF TypeOK, StreamTypes
  <1>3. line \in Seq(Tokens)
    BY <1>2, LineTypes DEF SendType
  <1>4. ReceivedAll(e)
    BY DEF writeFooter
  <1>5. next \in SendStates \ {"COMMAND", "ERROR"}
    BY DEF SendStates
  <1> HIDE DEF line, next
  <1>6. /\ WriteMoves(e) /\ (HasFooter(e)' => HasFooter(e) \/ HasFin(line))
        /\ ErrorMoves(e, error'[e]) /\ (error[e] # "NONE" => error'[e] # "NONE")
        /\ send' \in [Ends -> SendType]
        /\ \A x \in Ends \ {e} : send'[x] = send[x]
        /\ send'[e].state \in {send[e].state, next} \/ error'[e] # "NONE"
        /\ send'[e].state \in {send[e].state, next, "ERROR"}
    BY <1>1, <1>3, <1>5, WriteLineMoves
  <1>7. /\ send'[e].state = "COMMAND" => send[e].state = "COMMAND"
        /\ send'[e].state = "ERROR" => error'[e] # "NONE"
    BY <1>1, <1>5, <1>6
  <1>8. HasFooter(e)' => HasFooter(e) \/ ReceivedAll(e)
    BY <1>4, <1>6
  <1> QED
    BY <1>1, <1>2, <1>6, <1>7, <1>8, SendStep

\* Writing the response.
LEMMA writeResponseKeeps ==
  ASSUME TypeOK, EndsInOrder, NEW e \in Ends, writeResponse(e)
  PROVE  TypeOK' /\ EndsInOrder'
  <1> DEFINE line == <<Tok("auth", 0), Tok("hdr", Verdict(error[e] = "NONE")),
                       Tok("nl", 0)>>
             next == IF error[e] = "NONE" THEN "PAYLOAD" ELSE "SUCCESS"
  <1>1. /\ todo[e] # <<>> /\ send[e].state = "RESPONSE" /\ WriteLine(e, line, next)
        /\ UNCHANGED <<cmd, recv, note, transport, watch, arr, got, used, reset>>
        /\ UNCHANGED mmodel
    BY DEF writeResponse, Writing
  <1>2. send \in [Ends -> SendType] /\ mmodel \in [Ends -> ModelType]
    BY DEF TypeOK, StreamTypes
  <1>3. line \in Seq(Tokens)
    BY <1>2, LineTypes DEF SendType
  <1>4. ~HasFin(line)
    BY DEF HasFin, Tok
  <1>5. next \in SendStates \ {"COMMAND", "ERROR"}
    BY DEF SendStates
  <1> HIDE DEF line, next
  <1>6. /\ WriteMoves(e) /\ (HasFooter(e)' => HasFooter(e) \/ HasFin(line))
        /\ ErrorMoves(e, error'[e]) /\ (error[e] # "NONE" => error'[e] # "NONE")
        /\ send' \in [Ends -> SendType]
        /\ \A x \in Ends \ {e} : send'[x] = send[x]
        /\ send'[e].state \in {send[e].state, next} \/ error'[e] # "NONE"
        /\ send'[e].state \in {send[e].state, next, "ERROR"}
    BY <1>1, <1>3, <1>5, WriteLineMoves
  <1>7. /\ send'[e].state = "COMMAND" => send[e].state = "COMMAND"
        /\ send'[e].state = "ERROR" => error'[e] # "NONE"
    BY <1>1, <1>5, <1>6
  <1>8. HasFooter(e)' => HasFooter(e) \/ ReceivedAll(e)
    BY <1>4, <1>6
  <1> QED
    BY <1>1, <1>2, <1>6, <1>7, <1>8, SendStep

\* The command is a sequence of tokens without a footer.
LEMMA CommandType1 ==
  ASSUME TypeOK
  PROVE  Command \in Seq(Tokens) /\ ~HasFin(Command)
  <1> DEFINE head == <<Tok("auth", Verdict(cmd.auth)), Tok("hdr", Verdict(cmd.header)),
                       Tok("nl", 0)>>
             tail == IF cmd.path THEN <<>> ELSE [i \in 1 .. ModelSize |-> Tok("model", 0)]
  <1>1. ModelSize \in Nat
    BY SizeAssumption
  <1>2. head \in Seq(Tokens)
    BY LineTypes
  <1>3. \A i \in 1 .. Len(head) : head[i].t # "fin"
    BY DEF Tok
  <1>4. tail \in Seq(Tokens)
    BY <1>1, LineTypes
  <1>5. \A i \in 1 .. Len(tail) : tail[i].t # "fin"
    BY <1>1 DEF Tok
  <1> HIDE DEF head, tail
  <1>6. /\ head \o tail \in Seq(Tokens) /\ Len(head \o tail) = Len(head) + Len(tail)
        /\ \A i \in 1 .. Len(head) : (head \o tail)[i] = head[i]
        /\ \A i \in Len(head) + 1 .. Len(head) + Len(tail) :
             (head \o tail)[i] = tail[i - Len(head)]
    BY <1>2, <1>4
  <1>7. Len(head) \in Nat /\ Len(tail) \in Nat
    BY <1>2, <1>4
  <1>8. ASSUME NEW i \in 1 .. Len(head \o tail)
        PROVE  (head \o tail)[i].t # "fin"
    <2>1. CASE i <= Len(head)
      BY <1>3, <1>6, <1>7, <2>1
    <2>2. CASE i > Len(head)
      BY <1>5, <1>6, <1>7, <2>2
    <2> QED
      BY <1>6, <1>7, <2>1, <2>2
  <1>9. Command = head \o tail
    BY DEF Command, head, tail
  <1> QED
    BY <1>6, <1>8, <1>9 DEF HasFin

\* Writing the command; the client starts to receive once it is written.
LEMMA writeCommandKeeps ==
  ASSUME TypeOK, EndsInOrder, NEW e \in Ends, writeCommand(e)
  PROVE  TypeOK' /\ EndsInOrder'
  <1>1. /\ todo[e] # <<>> /\ send[e].state = "COMMAND" /\ WriteLine(e, Command, "PAYLOAD")
        /\ UNCHANGED <<cmd, note, transport, watch, arr, got, used, reset>>
        /\ UNCHANGED mmodel
        /\ recv' = [recv EXCEPT ![e].state =
                      IF send'[e].state = "PAYLOAD" THEN "AUTHENTICATE" ELSE @]
    BY DEF writeCommand, Writing
  <1>2. recv \in [Ends -> RecvType] /\ mmodel \in [Ends -> ModelType]
    BY DEF TypeOK, StreamTypes
  <1>3. EndInv(e)
    BY DEF EndsInOrder
  <1>4. recv[e].state = "NONE" /\ recv[e].payloadBytes = 0 /\ ~HasFooter(e)
    BY <1>1, <1>3 DEF EndInv, StatesAgree, ReadsInBounds, FooterMeansReceived
  <1>5. /\ WriteMoves(e) /\ (HasFooter(e)' => HasFooter(e) \/ HasFin(Command))
        /\ ErrorMoves(e, error'[e]) /\ (error[e] # "NONE" => error'[e] # "NONE")
        /\ send' \in [Ends -> SendType]
        /\ \A x \in Ends \ {e} : send'[x] = send[x]
        /\ send'[e].state \in {send[e].state, "PAYLOAD"} \/ error'[e] # "NONE"
        /\ send'[e].state \in {send[e].state, "PAYLOAD", "ERROR"}
    BY <1>1, CommandType1, WriteLineMoves DEF SendStates
  <1> DEFINE st == IF send'[e].state = "PAYLOAD" THEN "AUTHENTICATE" ELSE "NONE"
  <1>6. recv' = [recv EXCEPT ![e].state = st]
    BY <1>1, <1>2, <1>4
  <1>7. st \in RecvStates /\ st \in {"NONE", "AUTHENTICATE"}
    BY DEF RecvStates
  <1>8. send'[e].state = "COMMAND" => st = "NONE"
    OBVIOUS
  <1> HIDE DEF st
  <1>9. RecvMoves(e, st)
    BY <1>6, <1>7, SetState
  <1>10. ReadsInBounds(e)'
    BY <1>3, <1>4, <1>9 DEF EndInv, ReadsInBounds, RecvMoves
  <1>11. StatesAgree(e)'
    BY <1>1, <1>5, <1>7, <1>8, <1>9 DEF StatesAgree, RecvMoves
  <1>12. ReceiptInOrder(e)'
    BY <1>7, <1>9 DEF ReceiptInOrder, ReceivedAll, RecvMoves
  <1>13. FooterMeansReceived(e)'
    BY <1>4, <1>5, <1>7, <1>9, CommandType1 DEF FooterMeansReceived, RecvMoves
  <1> QED
    BY <1>1, <1>2, <1>5, <1>9, <1>10, <1>11, <1>12, <1>13, WriteStep DEF RecvMoves

\* Flushing buffered payload.
LEMMA flushPayloadKeeps ==
  ASSUME TypeOK, EndsInOrder, NEW e \in Ends, flushPayload(e)
  PROVE  TypeOK' /\ EndsInOrder'
  <1> DEFINE n == Flushed(e, out[e])
  <1>1. /\ todo[e] # <<>> /\ send[e].state = "PAYLOAD"
        /\ UNCHANGED <<cmd, recv, note, transport, watch, arr, got, used, reset>>
        /\ UNCHANGED <<mmodel, out>>
    BY DEF flushPayload, Writing
  <1>2. /\ send \in [Ends -> SendType] /\ mmodel \in [Ends -> ModelType]
    BY DEF TypeOK, StreamTypes
  <1>3. /\ out[e] \in Seq(Tokens) /\ put[e] <= Len(out[e]) /\ put \in [Ends -> Nat]
        /\ out' = [out EXCEPT ![e] = out[e]]
        /\ put[e] <= got[Peer(e)] + SockBuf /\ Len(out[e]) \in Nat /\ put[e] \in Nat
    BY <1>1 DEF TypeOK, ChannelTypes, CountersInOrder
  <1>4. n \in Nat /\ put[e] + n <= Len(out[e]) /\ put[e] + n <= got[Peer(e)] + SockBuf
    BY <1>3, FlushedBounds
  <1>5. HasFooter(e)' <=> HasFooter(e)
    BY <1>1 DEF HasFooter
  <1>6. HasFooter(Peer(e))' <=> HasFooter(Peer(e))
    BY <1>1 DEF HasFooter
  <1>7. CASE reset[e]
    <2>1. /\ send' = [send EXCEPT ![e].state = "ERROR"]
          /\ error' = [error EXCEPT ![e] = "WRITE"] /\ Leave(e) /\ UNCHANGED put
      BY <1>7 DEF flushPayload, WriteError
    <2>2. /\ send' \in [Ends -> SendType] /\ send'[e].state = "ERROR"
          /\ \A x \in Ends \ {e} : send'[x] = send[x]
      BY <2>1, SetSendState DEF SendStates
    <2>3. ErrorMoves(e, "WRITE") /\ WriteMoves(e)
      BY <1>1, <2>1, SetError, NoWrite DEF Errors
    <2> QED
      BY <1>1, <1>2, <1>5, <2>2, <2>3, SendStep
  <1>8. CASE ~reset[e]
    <2>1. /\ put' = [put EXCEPT ![e] = @ + n]
          /\ send' = [send EXCEPT ![e].payloadBytes = @ + n]
          /\ UNCHANGED error /\ (todo' = todo \/ Leave(e))
      BY <1>8 DEF flushPayload
    <2> HIDE DEF n
    <2>2. /\ put' \in [Ends -> Nat] /\ put'[e] = put[e] + n
          /\ \A x \in Ends \ {e} : put'[x] = put[x]
      BY <1>3, <1>4, <2>1
    <2>3. put[e] <= put'[e] /\ put'[e] <= Len(out[e]) /\ put'[e] <= got[Peer(e)] + SockBuf
      BY <1>3, <1>4, <2>2
    <2>4. ChannelTypes' /\ CountersInOrder'
      BY <1>1, <1>3, <2>2, <2>3, WriteCounters
    <2>5. WriteMoves(e)
      BY <1>5, <1>6, <2>4 DEF WriteMoves
    <2> DEFINE pb == send[e].payloadBytes + n
               ns == [send[e] EXCEPT !.payloadBytes = pb]
    <2>a. pb \in Nat
      BY <1>2, <1>4 DEF SendType
    <2>7. send' = [send EXCEPT ![e] = ns]
      BY <1>2, <2>1
    <2> HIDE DEF pb
    <2>6. ns \in SendType /\ ns.state = send[e].state
      BY <1>2, <2>a DEF SendType
    <2> HIDE DEF ns
    <2>8. /\ send' \in [Ends -> SendType] /\ send'[e].state = "PAYLOAD"
          /\ \A x \in Ends \ {e} : send'[x] = send[x]
      BY <1>1, <1>2, <2>6, <2>7
    <2>9. ErrorMoves(e, error[e])
      BY <1>1, <2>1, KeepError
    <2> QED
      BY <1>1, <1>2, <1>5, <2>5, <2>8, <2>9, SendStep
  <1> QED
    BY <1>7, <1>8

\* A run of payload is a sequence of tokens without a footer.
LEMMA PayloadRun ==
  ASSUME NEW n \in Nat
  PROVE  /\ [i \in 1 .. n |-> Tok("data", 0)] \in Seq(Tokens)
         /\ ~HasFin([i \in 1 .. n |-> Tok("data", 0)])
  <1>1. [i \in 1 .. n |-> Tok("data", 0)] \in Seq(Tokens)
    BY LineTypes
  <1>2. ~HasFin([i \in 1 .. n |-> Tok("data", 0)])
    BY DEF HasFin, Tok
  <1> QED
    BY <1>1, <1>2

\* A walk sends and expects no more than the model has left.
LEMMA WalkBounds ==
  ASSUME TypeOK, NEW e \in Ends, NEW w \in Walks(e)
  PROVE  /\ w.s \in Nat /\ w.r \in Nat /\ w.ended \in BOOLEAN /\ w.defer \in BOOLEAN
         /\ ~(send[e].requestedBytes > 0) => mmodel[e].toSend - w.s \in Nat
         /\ mmodel[e].toRecv - w.r \in Nat
         /\ w.defer => mmodel[e].pauses - 1 \in Nat
  <1>1. send[e] \in SendType /\ mmodel[e] \in ModelType
    BY DEF TypeOK, StreamTypes
  <1>2. /\ send[e].requestedBytes \in Nat /\ send[e].payloadBytes \in Nat
        /\ mmodel[e].toSend \in Nat /\ mmodel[e].toRecv \in Nat /\ mmodel[e].pauses \in Nat
    BY <1>1 DEF SendType, ModelType
  <1> DEFINE limit == IF send[e].requestedBytes > 0
                      THEN Min2(send[e].requestedBytes - send[e].payloadBytes, WriteMax)
                      ELSE Min2(mmodel[e].toSend, WriteMax)
             most == IF Sized(recv[e]) THEN 0 ELSE mmodel[e].toRecv
  <1>3. /\ w \in [s : 0 .. limit, r : 0 .. most, ended : BOOLEAN, defer : BOOLEAN]
        /\ w.defer => mmodel[e].pauses > 0
    BY DEF Walks
  <1>4. /\ limit \in Int /\ most \in Nat /\ most <= mmodel[e].toRecv
        /\ ~(send[e].requestedBytes > 0) => limit <= mmodel[e].toSend
    BY <1>2, SizeAssumption DEF Min2
  <1> HIDE DEF limit, most
  <1>5. w.s \in 0 .. limit /\ w.r \in 0 .. most /\ w.ended \in BOOLEAN /\ w.defer \in BOOLEAN
    BY <1>3
  <1> QED
    BY <1>2, <1>3, <1>4, <1>5

\* Walking the model, buffering what it says and writing it.
LEMMA writePayloadKeeps ==
  ASSUME TypeOK, EndsInOrder, NEW e \in Ends, writePayload(e)
  PROVE  TypeOK' /\ EndsInOrder'
  <1>1. PICK w \in Walks(e) :
          LET o == out[e] \o [i \in 1 .. w.s |-> Tok("data", 0)]
              n == Flushed(e, o)
              broken == reset[e] /\ w.s > 0
          IN
          /\ Writing(e, "PAYLOAD")
          /\ out' = [out EXCEPT ![e] = o]
          /\ put' = [put EXCEPT ![e] = IF broken THEN @ ELSE @ + n]
          /\ send' = [send EXCEPT
               ![e].state = IF broken THEN "ERROR" ELSE @,
               ![e].payloadBytes = IF broken THEN @ ELSE @ + n,
               ![e].defer = IF w.defer THEN "pending" ELSE @]
          /\ error' = [error EXCEPT ![e] = IF broken THEN "WRITE" ELSE @]
          /\ recv' = [recv EXCEPT ![e].expectedBytes = @ + w.r]
          /\ mmodel' = [mmodel EXCEPT
               ![e].toSend = IF send[e].requestedBytes > 0 THEN @ ELSE @ - w.s,
               ![e].toRecv = IF send[e].requestedBytes > 0 THEN @ ELSE @ - w.r,
               ![e].ended = w.ended,
               ![e].pauses = IF w.defer THEN @ - 1 ELSE @]
          /\ Leave(e)
    BY DEF writePayload
  <1> DEFINE run == [i \in 1 .. w.s |-> Tok("data", 0)]
             o == out[e] \o run
             n == Flushed(e, o)
             broken == reset[e] /\ w.s > 0
             np == IF broken THEN put[e] ELSE put[e] + n
             st == IF broken THEN "ERROR" ELSE send[e].state
             pb == IF broken THEN send[e].payloadBytes ELSE send[e].payloadBytes + n
             df == IF w.defer THEN "pending" ELSE send[e].defer
             er == IF broken THEN "WRITE" ELSE error[e]
             eb == recv[e].expectedBytes + w.r
             ts == IF send[e].requestedBytes > 0 THEN mmodel[e].toSend
                   ELSE mmodel[e].toSend - w.s
             tr == IF send[e].requestedBytes > 0 THEN mmodel[e].toRecv
                   ELSE mmodel[e].toRecv - w.r
             ps == IF w.defer THEN mmodel[e].pauses - 1 ELSE mmodel[e].pauses
             ns == [send[e] EXCEPT !.state = st, !.payloadBytes = pb, !.defer = df]
             nr == [recv[e] EXCEPT !.expectedBytes = eb]
             nm == [mmodel[e] EXCEPT !.toSend = ts, !.toRecv = tr, !.ended = w.ended,
                                     !.pauses = ps]
  <1>2. /\ recv \in [Ends -> RecvType] /\ send \in [Ends -> SendType]
        /\ mmodel \in [Ends -> ModelType] /\ error \in [Ends -> Errors]
    BY DEF TypeOK, StreamTypes
  <1>3. /\ todo[e] # <<>> /\ send[e].state = "PAYLOAD" /\ Leave(e)
        /\ UNCHANGED <<cmd, note, transport, watch, arr, got, used, reset>>
    BY <1>1 DEF Writing
  <1>4. /\ out' = [out EXCEPT ![e] = o]
        /\ put' = [put EXCEPT ![e] = np]
        /\ error' = [error EXCEPT ![e] = er]
    BY <1>1 DEF TypeOK, StreamTypes, ChannelTypes
  <1>5. send' = [send EXCEPT ![e] = ns]
    BY <1>1, <1>2
  <1>6. recv' = [recv EXCEPT ![e] = nr]
    BY <1>1, <1>2
  <1>7. mmodel' = [mmodel EXCEPT ![e] = nm]
    BY <1>1, <1>2
  <1>8. /\ w.s \in Nat /\ w.r \in Nat /\ w.ended \in BOOLEAN /\ w.defer \in BOOLEAN
        /\ ~(send[e].requestedBytes > 0) => mmodel[e].toSend - w.s \in Nat
        /\ mmodel[e].toRecv - w.r \in Nat
        /\ w.defer => mmodel[e].pauses - 1 \in Nat
    BY WalkBounds
  <1>9. run \in Seq(Tokens) /\ ~HasFin(run)
    BY <1>8, PayloadRun
  <1> HIDE DEF run
  <1>10. /\ out[e] \in Seq(Tokens) /\ put \in [Ends -> Nat] /\ put[e] \in Nat
         /\ put[e] <= Len(out[e]) /\ put[e] <= got[Peer(e)] + SockBuf
    BY DEF TypeOK, ChannelTypes, CountersInOrder
  <1>11. o \in Seq(Tokens) /\ Len(o) \in Nat /\ put[e] <= Len(o)
    <2>1. o \in Seq(Tokens) /\ Len(o) = Len(out[e]) + Len(run)
      BY <1>9, <1>10, ConcatProperties
    <2>2. Len(out[e]) \in Nat /\ Len(run) \in Nat
      BY <1>9, <1>10
    <2> QED
      BY <1>10, <2>1, <2>2
  <1>12. /\ HasFooter(e) => HasFooter(e)'
         /\ HasFooter(e)' => HasFooter(e)
         /\ HasFooter(Peer(e))' <=> HasFooter(Peer(e))
    BY <1>4, <1>9, FooterAppended DEF HasFin
  <1> HIDE DEF o
  <1>13. n \in Nat /\ put[e] + n <= Len(o) /\ put[e] + n <= got[Peer(e)] + SockBuf
    BY <1>11, FlushedBounds
  <1> HIDE DEF n
  <1>14. /\ np \in Nat /\ put[e] <= np /\ np <= Len(o) /\ np <= got[Peer(e)] + SockBuf
    BY <1>10, <1>11, <1>13
  <1>15. pb \in Nat /\ df \in {"none", "pending", "passed"} /\ st \in {"ERROR", "PAYLOAD"}
    BY <1>2, <1>3, <1>8, <1>13 DEF SendType
  <1>16. eb \in Nat
    BY <1>2, <1>8 DEF RecvType
  <1>17. ts \in Nat /\ tr \in Nat /\ ps \in Nat
    BY <1>2, <1>8 DEF ModelType
  <1>18. er \in Errors /\ (error[e] # "NONE" => er # "NONE") /\ (st = "ERROR" => er # "NONE")
    BY <1>2, <1>3 DEF Errors
  <1> HIDE DEF np, pb, df, st, eb, ts, tr, ps, er
  <1>19. ns \in SendType /\ ns.state = st
    BY <1>2, <1>15 DEF SendType, SendStates
  <1>20. /\ nr \in RecvType /\ nr.state = recv[e].state
         /\ nr.requestedBytes = recv[e].requestedBytes
         /\ nr.requestedZero = recv[e].requestedZero
         /\ nr.payloadBytes = recv[e].payloadBytes /\ nr.modelBytes = recv[e].modelBytes
         /\ nr.checksumRecv = recv[e].checksumRecv
    BY <1>2, <1>16 DEF RecvType
  <1>21. nm \in ModelType
    BY <1>2, <1>8, <1>17 DEF ModelType
  <1> HIDE DEF ns, nr, nm
  <1>22. /\ send' \in [Ends -> SendType] /\ send'[e].state = st
         /\ recv' \in [Ends -> RecvType] /\ recv'[e] = nr
         /\ mmodel' \in [Ends -> ModelType]
         /\ \A x \in Ends \ {e} : recv'[x] = recv[x] /\ send'[x] = send[x]
    BY <1>2, <1>5, <1>6, <1>7, <1>19, <1>20, <1>21
  <1>23. /\ put' \in [Ends -> Nat] /\ put'[e] = np
         /\ \A x \in Ends \ {e} : put'[x] = put[x]
    BY <1>4, <1>10, <1>14
  <1>24. ChannelTypes' /\ CountersInOrder'
    BY <1>3, <1>4, <1>11, <1>14, <1>23, WriteCounters
  <1>25. WriteMoves(e)
    BY <1>12, <1>24 DEF WriteMoves
  <1>26. ErrorMoves(e, er)
    BY <1>3, <1>4, <1>18, SetError
  <1>27. EndInv(e)
    BY DEF EndsInOrder
  <1>28. ReadsInBounds(e)'
    BY <1>20, <1>22, <1>27 DEF EndInv, ReadsInBounds
  <1>29. StatesAgree(e)'
    BY <1>15, <1>18, <1>20, <1>22, <1>26, <1>27 DEF EndInv, StatesAgree, ErrorMoves
  <1>30. ReceiptInOrder(e)'
    BY <1>20, <1>22, <1>27 DEF EndInv, ReceiptInOrder, ReceivedAll, GotRequested
  <1>31. FooterMeansReceived(e)'
    BY <1>12, <1>20, <1>22, <1>27 DEF EndInv, FooterMeansReceived, GotRequested, Sized
  <1> QED
    BY <1>3, <1>22, <1>25, <1>26, <1>28, <1>29, <1>30, <1>31, WriteStep

-----------------------------------------------------------------------------
(* Events, timers and the network keep the invariant.                       *)

\* What has to be shown of a step that reads and writes nothing.
LEMMA EventStep ==
  ASSUME TypeOK, EndsInOrder, NEW e \in Ends,
         UNCHANGED <<out, put, arr, got, used>>, StreamTypes',
         \A x \in Ends \ {e} : /\ recv'[x] = recv[x] /\ send'[x] = send[x]
                               /\ error'[x] = error[x] /\ note'[x] = note[x]
                               /\ transport'[x] = transport[x] /\ todo'[x] = todo[x],
         EndInv(e)'
  PROVE  TypeOK' /\ EndsInOrder'
  <1>1. ChannelTypes' /\ CountersInOrder'
    BY DEF TypeOK, ChannelTypes, CountersInOrder
  <1>2. \A x : HasFooter(x)' <=> HasFooter(x)
    BY DEF HasFooter
  <1>3. Peer(e) \in Ends \ {e}
    BY PeerFacts
  <1>4. EndInv(Peer(e))'
    BY <1>2, <1>3, OtherEnd
  <1> QED
    BY <1>1, <1>4, BothEnds DEF TypeOK

\* Phases are well typed however they are put together.
LEMMA WhenType ==
  ASSUME NEW c \in BOOLEAN, NEW ph \in Seq(Phases)
  PROVE  When(c, ph) \in Seq(Phases)
  BY DEF When

\* tgenstream_onEvent, whichever of its read and write stages run, keeps the invariant.
LEMMA onEventKeeps ==
  ASSUME TypeOK, EndsInOrder, NEW e \in Ends, onEvent(e)
  PROVE  TypeOK' /\ EndsInOrder'
  <1> DEFINE in == "IN" \in watch[e] /\ Readable(e)
             ou == "OUT" \in watch[e] /\ Writable(e)
             ph == When(in, <<"read">>) \o When(ou, <<"barrier", "write">>)
                     \o (IF reset[e]
                         THEN <<"read", "read", "undefer", "barrier", "write", "hangup">>
                         ELSE <<"finish">>)
  <1>1. /\ Idle(e) /\ todo' = [todo EXCEPT ![e] = ph]
        /\ UNCHANGED <<cmd, recv, send, error, mmodel, note, transport, watch, out, put,
                       arr, got, used, reset>>
    BY DEF onEvent, stream, io
  <1>2. ph \in Seq(Phases)
    <2>1. /\ <<"read">> \in Seq(Phases) /\ <<"barrier", "write">> \in Seq(Phases)
          /\ <<"read", "read", "undefer", "barrier", "write", "hangup">> \in Seq(Phases)
          /\ <<"finish">> \in Seq(Phases)
      BY DEF Phases
    <2>2. When(in, <<"read">>) \in Seq(Phases)
      BY <2>1, WhenType
    <2>3. When(ou, <<"barrier", "write">>) \in Seq(Phases)
      BY <2>1, WhenType
    <2> HIDE DEF in, ou
    <2> QED
      BY <2>1, <2>2, <2>3, ConcatProperties
  <1> HIDE DEF ph
  <1>3. StreamTypes'
    BY <1>1, <1>2 DEF TypeOK, StreamTypes
  <1>4. \A x \in Ends \ {e} : todo'[x] = todo[x]
    BY <1>1 DEF TypeOK, StreamTypes
  <1>5. EndInv(e)
    BY DEF EndsInOrder
  <1>6. \A x : HasFooter(x)' <=> HasFooter(x)
    BY <1>1 DEF HasFooter
  <1>7. DestroyedIsFinal(e)'
    BY <1>1, <1>5 DEF EndInv, DestroyedIsFinal, Idle, Gone
  <1>8. ReadsInBounds(e)' /\ StatesAgree(e)' /\ ReceiptInOrder(e)'
    BY <1>1, <1>5 DEF EndInv, ReadsInBounds, StatesAgree, ReceiptInOrder, ReceivedAll,
      GotRequested
  <1>9. FooterMeansReceived(e)'
    BY <1>1, <1>5, <1>6 DEF EndInv, FooterMeansReceived, GotRequested, Sized
  <1> QED
    BY <1>1, <1>3, <1>4, <1>7, <1>8, <1>9, EventStep DEF EndInv

\* A step that leaves recv, error, note and the send state of e alone, and does
\* not create or destroy the stream.
LEMMA QuietStep ==
  ASSUME TypeOK, EndsInOrder, NEW e \in Ends, StreamTypes',
         UNCHANGED <<recv, error, note, out, put, arr, got, used>>,
         \A x \in Ends \ {e} : /\ send'[x] = send[x] /\ transport'[x] = transport[x]
                               /\ todo'[x] = todo[x],
         send'[e].state = send[e].state, ~Gone(e), transport'[e] # "CLOSED"
  PROVE  TypeOK' /\ EndsInOrder'
  <1>1. EndInv(e)
    BY DEF EndsInOrder
  <1>2. \A x : HasFooter(x)' <=> HasFooter(x)
    BY DEF HasFooter
  <1>3. DestroyedIsFinal(e)'
    BY <1>1 DEF EndInv, DestroyedIsFinal, Gone
  <1>4. ReadsInBounds(e)' /\ StatesAgree(e)' /\ ReceiptInOrder(e)'
    BY <1>1 DEF EndInv, ReadsInBounds, StatesAgree, ReceiptInOrder, ReceivedAll, GotRequested
  <1>5. FooterMeansReceived(e)'
    BY <1>1, <1>2 DEF EndInv, FooterMeansReceived, GotRequested, Sized
  <1> QED
    BY <1>3, <1>4, <1>5, EventStep DEF EndInv

\* Setting only the write barrier.
LEMMA SetDefer ==
  ASSUME TypeOK, NEW e \in Ends, NEW d \in {"none", "pending", "passed"},
         send' = [send EXCEPT ![e].defer = d]
  PROVE  /\ send' \in [Ends -> SendType] /\ send'[e].state = send[e].state
         /\ \A x \in Ends \ {e} : send'[x] = send[x]
  <1>1. send \in [Ends -> SendType]
    BY DEF TypeOK, StreamTypes
  <1> DEFINE ns == [send[e] EXCEPT !.defer = d]
  <1>2. ns \in SendType /\ ns.state = send[e].state
    BY <1>1 DEF SendType
  <1>3. send' = [send EXCEPT ![e] = ns]
    BY <1>1
  <1> HIDE DEF ns
  <1> QED
    BY <1>1, <1>2, <1>3

\* Clearing the defer barrier in onWritable keeps the invariant.
LEMMA clearBarrierKeeps ==
  ASSUME TypeOK, EndsInOrder, NEW e \in Ends, clearBarrier(e)
  PROVE  TypeOK' /\ EndsInOrder'
  <1>1. /\ todo[e] # <<>> /\ Leave(e) /\ send' = [send EXCEPT ![e].defer = "none"]
        /\ UNCHANGED <<cmd, recv, error, mmodel, note, transport, watch, out, put, arr, got,
                       used, reset>>
    BY DEF clearBarrier, InPhase, io
  <1>2. /\ send' \in [Ends -> SendType] /\ send'[e].state = send[e].state
        /\ \A x \in Ends \ {e} : send'[x] = send[x]
    BY <1>1, SetDefer
  <1>3. ErrorMoves(e, error[e])
    BY <1>1, KeepError
  <1>4. ~Gone(e)
    BY <1>1, ActiveEnd
  <1>5. StreamTypes'
    BY <1>1, <1>2, <1>3 DEF TypeOK, StreamTypes, ErrorMoves
  <1> QED
    BY <1>1, <1>2, <1>3, <1>4, <1>5, QuietStep DEF ErrorMoves, Gone

\* The step that opens the transport keeps the invariant.
LEMMA connectKeeps ==
  ASSUME TypeOK, EndsInOrder, NEW e \in Ends, connect(e)
  PROVE  TypeOK' /\ EndsInOrder'
  <1>1. /\ ~Gone(e) /\ transport' = [transport EXCEPT ![e] = "SUCCESSOPEN"]
        /\ watch' = [watch EXCEPT ![e] = {"IN", "OUT"}]
        /\ UNCHANGED <<cmd, recv, send, error, mmodel, note, todo, out, put, arr, got, used,
                       reset>>
    BY DEF connect, Idle, stream, io
  <1>2. StreamTypes' /\ transport'[e] # "CLOSED"
        /\ \A x \in Ends \ {e} : transport'[x] = transport[x]
    BY <1>1 DEF TypeOK, StreamTypes
  <1> QED
    BY <1>1, <1>2, QuietStep

\* The clock passing the defer barrier keeps the invariant.
LEMMA barrierPassesKeeps ==
  ASSUME TypeOK, EndsInOrder, NEW e \in Ends, barrierPasses(e)
  PROVE  TypeOK' /\ EndsInOrder'
  <1>1. /\ ~Gone(e) /\ send' = [send EXCEPT ![e].defer = "passed"]
        /\ UNCHANGED <<cmd, recv, error, mmodel, note, transport, watch, todo, out, put, arr,
                       got, used, reset>>
    BY DEF barrierPasses, io
  <1>2. /\ send' \in [Ends -> SendType] /\ send'[e].state = send[e].state
        /\ \A x \in Ends \ {e} : send'[x] = send[x]
    BY <1>1, SetDefer
  <1>3. StreamTypes'
    BY <1>1, <1>2 DEF TypeOK, StreamTypes
  <1> QED
    BY <1>1, <1>2, <1>3, QuietStep DEF Gone

\* The expiry of the defer timer in tgen-io.c keeps the invariant.
LEMMA onDeferTimerExpiredKeeps ==
  ASSUME TypeOK, EndsInOrder, NEW e \in Ends, onDeferTimerExpired(e)
  PROVE  TypeOK' /\ EndsInOrder'
  <1>1. /\ ~Gone(e) /\ watch' = [watch EXCEPT ![e] = @ \cup {"OUT"}]
        /\ UNCHANGED <<cmd, recv, send, error, mmodel, note, transport, todo, out, put, arr,
                       got, used, reset>>
    BY DEF onDeferTimerExpired, Idle, stream, io
  <1>2. StreamTypes'
    BY <1>1 DEF TypeOK, StreamTypes
  <1> QED
    BY <1>1, <1>2, QuietStep DEF Gone

\* A broken connection keeps the invariant: nothing already received is lost.
LEMMA ResetKeeps ==
  ASSUME TypeOK, EndsInOrder, NEW e \in Ends, Reset(e)
  PROVE  TypeOK' /\ EndsInOrder'
  <1>1. /\ ~Gone(e) /\ reset' = [reset EXCEPT ![e] = TRUE]
        /\ UNCHANGED <<cmd, recv, send, error, mmodel, note, transport, watch, todo, out, put,
                       arr, got, used>>
    BY DEF Reset, stream, io
  <1>2. StreamTypes'
    BY <1>1 DEF TypeOK, StreamTypes
  <1> QED
    BY <1>1, <1>2, QuietStep DEF Gone

\* Nothing that the invariant mentions changes, except for what has arrived.
LEMMA SameStreams ==
  ASSUME EndsInOrder, UNCHANGED <<recv, send, error, note, transport, todo, out>>
  PROVE  EndsInOrder'
  BY DEF EndsInOrder, EndInv, ReadsInBounds, StatesAgree, ReceiptInOrder, ReceivedAll,
    GotRequested, FooterMeansReceived, HasFooter, Sized, DestroyedIsFinal, Gone

\* TCP delivering a piece of the byte stream keeps the invariant.
LEMMA deliverKeeps ==
  ASSUME TypeOK, EndsInOrder, NEW e \in Ends, deliver(e)
  PROVE  TypeOK' /\ EndsInOrder'
  <1>1. /\ arr[e] < put[Peer(e)] /\ arr' = [arr EXCEPT ![e] = @ + 1]
        /\ UNCHANGED <<cmd, recv, send, error, mmodel, note, transport, watch, todo, out, put,
                       got, used, reset>>
    BY DEF deliver, stream, io
  <1>2. Peer(e) \in Ends
    BY PeerFacts
  <1>3. /\ arr \in [Ends -> Nat] /\ put \in [Ends -> Nat] /\ got \in [Ends -> Nat]
    BY DEF TypeOK, ChannelTypes
  <1>4. StreamTypes' /\ ChannelTypes'
    <2>1. arr' \in [Ends -> Nat]
      BY <1>1, <1>3
    <2>2. ChannelTypes'
      BY <1>1, <2>1 DEF TypeOK, ChannelTypes
    <2>3. StreamTypes'
      BY <1>1 DEF TypeOK, StreamTypes
    <2> QED
      BY <2>2, <2>3
  <1>5. ASSUME NEW x \in Ends
        PROVE  got[x] <= arr'[x] /\ arr'[x] <= put[Peer(x)]
    <2>1. got[x] <= arr[x] /\ arr[x] <= put[Peer(x)]
      BY DEF TypeOK, CountersInOrder
    <2>2. CASE x = e
      BY <1>1, <1>2, <1>3, <2>1, <2>2
    <2>3. CASE x # e
      BY <1>1, <1>3, <2>1, <2>3
    <2> QED
      BY <2>2, <2>3
  <1>6. CountersInOrder'
    BY <1>1, <1>5 DEF TypeOK, CountersInOrder
  <1>7. EndsInOrder'
    BY <1>1, SameStreams
  <1> QED
    BY <1>4, <1>6, <1>7 DEF TypeOK

\* Destroying a stream: it is closed, has no phases left, and was notified.
LEMMA DestroyTypes ==
  ASSUME TypeOK, NEW e \in Ends, NEW v \in {"success", "failure"},
         note' = [note EXCEPT ![e] = v], Deregister(e)
  PROVE  /\ note' \in [Ends -> {"none", "success", "failure"}] /\ note'[e] = v
         /\ transport' \in [Ends -> {"CONNECT", "SUCCESSOPEN", "CLOSED"}]
         /\ transport'[e] = "CLOSED"
         /\ watch' \in [Ends -> SUBSET {"IN", "OUT"}]
         /\ todo' \in [Ends -> Seq(Phases)] /\ todo'[e] = <<>>
         /\ \A x \in Ends \ {e} : /\ note'[x] = note[x] /\ transport'[x] = transport[x]
                                  /\ todo'[x] = todo[x]
  <1>1. <<>> \in Seq(Phases)
    OBVIOUS
  <1>2. todo' \in [Ends -> Seq(Phases)] /\ todo'[e] = <<>>
        /\ \A x \in Ends \ {e} : todo'[x] = todo[x]
    BY <1>1 DEF TypeOK, StreamTypes, Deregister
  <1> QED
    BY <1>2 DEF TypeOK, StreamTypes, Deregister

\* A live stream ends in failure, its states as they are.
LEMMA FailStep ==
  ASSUME TypeOK, EndsInOrder, NEW e \in Ends, ~Gone(e), NEW er \in Errors \ {"NONE"},
         error' = [error EXCEPT ![e] = er], NEW err, err # "NONE", Notify(e, err),
         Deregister(e), UNCHANGED <<cmd, recv, send, mmodel, out, put, arr, got, used, reset>>
  PROVE  TypeOK' /\ EndsInOrder'
  <1>1. EndInv(e)
    BY DEF EndsInOrder
  <1>2. note[e] = "none"
    BY <1>1 DEF EndInv, DestroyedIsFinal
  <1>a. note \in [Ends -> {"none", "success", "failure"}]
    BY DEF TypeOK, StreamTypes
  <1>b. note' = [note EXCEPT ![e] = IF note[e] # "none" THEN note[e]
                                    ELSE IF err = "NONE" THEN "success" ELSE "failure"]
    BY <1>a DEF Notify
  <1>3. note' = [note EXCEPT ![e] = "failure"]
    BY <1>2, <1>b
  <1>4. /\ note' \in [Ends -> {"none", "success", "failure"}] /\ note'[e] = "failure"
        /\ transport' \in [Ends -> {"CONNECT", "SUCCESSOPEN", "CLOSED"}]
        /\ transport'[e] = "CLOSED"
        /\ watch' \in [Ends -> SUBSET {"IN", "OUT"}]
        /\ todo' \in [Ends -> Seq(Phases)] /\ todo'[e] = <<>>
        /\ \A x \in Ends \ {e} : /\ note'[x] = note[x] /\ transport'[x] = transport[x]
                                 /\ todo'[x] = todo[x]
    BY <1>3, DestroyTypes
  <1>5. /\ error' \in [Ends -> Errors] /\ error'[e] = er
        /\ \A x \in Ends \ {e} : error'[x] = error[x]
    BY DEF TypeOK, StreamTypes
  <1>6. StreamTypes'
    BY <1>4, <1>5 DEF TypeOK, StreamTypes
  <1>7. \A x : HasFooter(x)' <=> HasFooter(x)
    BY DEF HasFooter
  <1>8. DestroyedIsFinal(e)'
    BY <1>4 DEF DestroyedIsFinal, Gone
  <1>9. ReadsInBounds(e)' /\ StatesAgree(e)' /\ ReceiptInOrder(e)'
    BY <1>1, <1>5 DEF EndInv, ReadsInBounds, StatesAgree, ReceiptInOrder, ReceivedAll,
      GotRequested
  <1>10. FooterMeansReceived(e)'
    BY <1>1, <1>7 DEF EndInv, FooterMeansReceived, GotRequested, Sized
  <1> QED
    BY <1>4, <1>5, <1>6, <1>8, <1>9, <1>10, EventStep DEF EndInv

\* A transport that fails to open destroys its stream and notifies it once.
LEMMA connectFailsKeeps ==
  ASSUME TypeOK, EndsInOrder, NEW e \in Ends, connectFails(e)
  PROVE  TypeOK' /\ EndsInOrder'
  <1>1. /\ ~Gone(e) /\ error' = [error EXCEPT ![e] = "PROXY"] /\ Notify(e, "PROXY")
        /\ Deregister(e) /\ UNCHANGED <<cmd, recv, send, mmodel, out, put, arr, got, used, reset>>
    BY DEF connectFails, Idle, io
  <1>2. "PROXY" \in Errors \ {"NONE"}
    BY DEF Errors
  <1> QED
    BY <1>1, <1>2, FailStep

\* The timeout and stallout check keeps the invariant of both ends.
LEMMA onCheckTimeoutKeeps ==
  ASSUME TypeOK, EndsInOrder, NEW e \in Ends, onCheckTimeout(e)
  PROVE  TypeOK' /\ EndsInOrder'
  <1> DEFINE er == IF transport[e] = "CONNECT" THEN "PROXY" ELSE "TIMEOUT"
  <1>1. /\ ~Gone(e) /\ error' = [error EXCEPT ![e] = er] /\ Notify(e, "TIMEOUT")
        /\ Deregister(e) /\ UNCHANGED <<cmd, recv, send, mmodel, out, put, arr, got, used, reset>>
    BY DEF onCheckTimeout, Idle, io
  <1>2. er \in Errors \ {"NONE"}
    BY DEF Errors
  <1> HIDE DEF er
  <1> QED
    BY <1>1, <1>2, FailStep

\* A stream that is done: what finish and hangup leave behind.  Without an
\* error it has received everything, and its receive state says so.
LEMMA DoneStep ==
  ASSUME TypeOK, EndsInOrder, NEW e \in Ends, ~Gone(e), StreamDone(e),
         recv' = [recv EXCEPT ![e].state = IF MetExpected(e) THEN "SUCCESS" ELSE @],
         Notify(e, error[e]), Deregister(e),
         UNCHANGED <<cmd, send, error, mmodel, out, put, arr, got, used, reset>>
  PROVE  TypeOK' /\ EndsInOrder'
  <1>1. EndInv(e)
    BY DEF EndsInOrder
  <1>2. /\ recv \in [Ends -> RecvType] /\ send \in [Ends -> SendType]
        /\ note \in [Ends -> {"none", "success", "failure"}]
    BY DEF TypeOK, StreamTypes
  <1> DEFINE st == IF MetExpected(e) THEN "SUCCESS" ELSE recv[e].state
             v == IF error[e] = "NONE" THEN "success" ELSE "failure"
  <1>3. recv' = [recv EXCEPT ![e].state = st] /\ st \in RecvStates
    BY <1>2 DEF RecvType, RecvStates
  <1>4. RecvMoves(e, st)
    BY <1>3, SetState
  <1>5. note[e] = "none"
    BY <1>1 DEF EndInv, DestroyedIsFinal
  <1>6. note' = [note EXCEPT ![e] = v]
    BY <1>2, <1>5 DEF Notify
  <1>7. /\ note' \in [Ends -> {"none", "success", "failure"}] /\ note'[e] = v
        /\ transport' \in [Ends -> {"CONNECT", "SUCCESSOPEN", "CLOSED"}]
        /\ transport'[e] = "CLOSED"
        /\ watch' \in [Ends -> SUBSET {"IN", "OUT"}]
        /\ todo' \in [Ends -> Seq(Phases)] /\ todo'[e] = <<>>
        /\ \A x \in Ends \ {e} : /\ note'[x] = note[x] /\ transport'[x] = transport[x]
                                 /\ todo'[x] = todo[x]
    BY <1>6, DestroyTypes
  <1>8. MetExpected(e) => /\ error[e] = "NONE" /\ send[e].state # "COMMAND"
                          /\ ~Sized(recv[e]) /\ recv[e].state # "ERROR"
    BY DEF MetExpected, SendDone, RecvDone
  <1>9. error[e] = "NONE" => st = "SUCCESS"
    BY <1>1 DEF StreamDone, RecvDone, EndInv, StatesAgree
  <1>10. st # recv[e].state => MetExpected(e) /\ st = "SUCCESS"
    OBVIOUS
  <1> HIDE DEF st, v
  <1>11. StreamTypes'
    BY <1>4, <1>7 DEF TypeOK, StreamTypes, RecvMoves
  <1>12. \A x : HasFooter(x)' <=> HasFooter(x)
    BY DEF HasFooter
  <1>13. DestroyedIsFinal(e)'
    BY <1>4, <1>7, <1>9 DEF DestroyedIsFinal, Gone, RecvMoves, v
  <1>14. ReadsInBounds(e)'
    BY <1>1, <1>4, <1>10 DEF EndInv, ReadsInBounds, RecvMoves
  <1>15. StatesAgree(e)'
    BY <1>1, <1>4, <1>8, <1>10 DEF EndInv, StatesAgree, RecvMoves
  <1>16. ReceiptInOrder(e)'
    BY <1>1, <1>4, <1>8, <1>10 DEF EndInv, ReceiptInOrder, ReceivedAll, GotRequested, Sized,
      RecvMoves
  <1>17. FooterMeansReceived(e)'
    BY <1>1, <1>4, <1>8, <1>10, <1>12 DEF EndInv, FooterMeansReceived, GotRequested, Sized,
      RecvMoves
  <1> QED
    BY <1>4, <1>7, <1>11, <1>13, <1>14, <1>15, <1>16, <1>17, EventStep DEF EndInv, RecvMoves

\* The destruction of a completed or failed stream keeps the invariant.
LEMMA finishKeeps ==
  ASSUME TypeOK, EndsInOrder, NEW e \in Ends, finish(e)
  PROVE  TypeOK' /\ EndsInOrder'
  <1>1. /\ todo[e] # <<>>
        /\ recv' = [recv EXCEPT ![e].state = IF MetExpected(e) THEN "SUCCESS" ELSE @]
        /\ UNCHANGED <<cmd, send, error, mmodel, out, put, arr, got, used, reset>>
    BY DEF finish, InPhase, io
  <1>2. ~Gone(e)
    BY <1>1, ActiveEnd
  <1>3. CASE StreamDone(e)
    <2>1. Notify(e, error[e]) /\ Deregister(e)
      BY <1>3 DEF finish
    <2> QED
      BY <1>1, <1>2, <1>3, <2>1, DoneStep
  <1>4. CASE ~StreamDone(e)
    <2>1. /\ watch' = [watch EXCEPT ![e] = Watched(e)] /\ Leave(e)
          /\ UNCHANGED <<note, transport>>
      BY <1>4 DEF finish
    <2>2. ~MetExpected(e)
      BY <1>4 DEF StreamDone, MetExpected
    <2>3. recv \in [Ends -> RecvType]
      BY DEF TypeOK, StreamTypes
    <2>4. recv' = [recv EXCEPT ![e].state = recv[e].state]
      BY <1>1, <2>2, <2>3
    <2>5. recv' = recv
      <3>1. [recv[e] EXCEPT !.state = recv[e].state] = recv[e]
        BY <2>3 DEF RecvType
      <3> QED
        BY <2>3, <2>4, <3>1
    <2>6. ErrorMoves(e, error[e])
      BY <1>1, <2>1, KeepError
    <2>7. watch' \in [Ends -> SUBSET {"IN", "OUT"}]
      BY <2>1 DEF Watched, TypeOK, StreamTypes
    <2>8. StreamTypes'
      BY <1>1, <2>1, <2>5, <2>6, <2>7 DEF TypeOK, StreamTypes, ErrorMoves
    <2> QED
      BY <1>1, <1>2, <2>1, <2>5, <2>6, <2>8, QuietStep DEF ErrorMoves, Gone
  <1> QED
    BY <1>3, <1>4

\* A hang-up ends a stream that is not done in failure.
LEMMA hangupKeeps ==
  ASSUME TypeOK, EndsInOrder, NEW e \in Ends, hangup(e)
  PROVE  TypeOK' /\ EndsInOrder'
  <1> DEFINE rs == IF ~StreamDone(e) /\ WantsRead(e) THEN "ERROR"
                   ELSE IF MetExpected(e) THEN "SUCCESS" ELSE recv[e].state
             ss == IF ~StreamDone(e) /\ WantsWrite(e) /\ send[e].defer = "none"
                   THEN "ERROR" ELSE send[e].state
             er == IF ~StreamDone(e) THEN "MISC" ELSE error[e]
  <1>1. /\ recv \in [Ends -> RecvType] /\ send \in [Ends -> SendType]
        /\ error \in [Ends -> Errors]
        /\ note \in [Ends -> {"none", "success", "failure"}]
    BY DEF TypeOK, StreamTypes
  <1>2. /\ todo[e] # <<>> /\ recv' = [recv EXCEPT ![e].state = rs]
        /\ send' = [send EXCEPT ![e].state = ss] /\ error' = [error EXCEPT ![e] = er]
        /\ Notify(e, error'[e]) /\ Deregister(e)
        /\ UNCHANGED <<cmd, mmodel, out, put, arr, got, used, reset>>
    BY <1>1 DEF hangup, InPhase, io
  <1>3. EndInv(e) /\ ~Gone(e) /\ note[e] = "none"
    BY <1>2, ActiveEnd
  <1>4. CASE StreamDone(e)
    <2>1. recv' = [recv EXCEPT ![e].state = IF MetExpected(e) THEN "SUCCESS" ELSE @]
      BY <1>1, <1>2, <1>4
    <2>2. error' = error
      BY <1>1, <1>2, <1>4
    <2>3. send' = send
      <3>1. send' = [send EXCEPT ![e].state = send[e].state]
        BY <1>2, <1>4
      <3>2. [send[e] EXCEPT !.state = send[e].state] = send[e]
        BY <1>1 DEF SendType
      <3> QED
        BY <1>1, <3>1, <3>2
    <2>4. Notify(e, error[e])
      BY <1>2, <2>2 DEF Notify
    <2> QED
      BY <1>2, <1>3, <1>4, <2>1, <2>2, <2>3, <2>4, DoneStep
  <1>5. CASE ~StreamDone(e)
    <2>1. ~MetExpected(e)
      BY <1>5 DEF StreamDone, MetExpected
    <2>2. er = "MISC" /\ er \in Errors
      BY <1>5 DEF Errors
    <2>3. rs \in RecvStates /\ (rs = recv[e].state \/ (rs = "ERROR" /\ recv[e].state # "NONE"))
      BY <1>1, <2>1 DEF RecvType, RecvStates, WantsRead
    <2>4. ss \in SendStates /\ (ss = send[e].state \/ ss = "ERROR")
      BY <1>1 DEF SendType, SendStates
    <2> HIDE DEF rs, ss, er
    <2>5. RecvMoves(e, rs)
      BY <1>2, <2>3, SetState
    <2>6. /\ send' \in [Ends -> SendType] /\ send'[e].state = ss
          /\ \A x \in Ends \ {e} : send'[x] = send[x]
      BY <1>2, <2>4, SetSendState
    <2>7. /\ error' \in [Ends -> Errors] /\ error'[e] = "MISC"
          /\ \A x \in Ends \ {e} : error'[x] = error[x]
      BY <1>1, <1>2, <2>2
    <2>8. note' = [note EXCEPT ![e] = "failure"]
      <3>1. note' = [note EXCEPT ![e] = IF note[e] # "none" THEN note[e]
                         ELSE IF error'[e] = "NONE" THEN "success" ELSE "failure"]
        BY <1>1, <1>2 DEF Notify
      <3> QED
        BY <1>3, <2>7, <3>1
    <2>9. /\ note' \in [Ends -> {"none", "success", "failure"}] /\ note'[e] = "failure"
          /\ transport' \in [Ends -> {"CONNECT", "SUCCESSOPEN", "CLOSED"}]
          /\ transport'[e] = "CLOSED"
          /\ watch' \in [Ends -> SUBSET {"IN", "OUT"}]
          /\ todo' \in [Ends -> Seq(Phases)] /\ todo'[e] = <<>>
          /\ \A x \in Ends \ {e} : /\ note'[x] = note[x] /\ transport'[x] = transport[x]
                                   /\ todo'[x] = todo[x]
      BY <1>2, <2>8, DestroyTypes
    <2>10. StreamTypes'
      BY <1>2, <2>5, <2>6, <2>7, <2>9 DEF TypeOK, StreamTypes, RecvMoves
    <2>11. \A x : HasFooter(x)' <=> HasFooter(x)
      BY <1>2 DEF HasFooter
    <2>12. DestroyedIsFinal(e)'
      BY <2>9 DEF DestroyedIsFinal, Gone
    <2>13. ReadsInBounds(e)'
      BY <1>3, <2>3, <2>5 DEF EndInv, ReadsInBounds, RecvMoves
    <2>14. StatesAgree(e)'
      BY <1>3, <2>3, <2>4, <2>5, <2>6, <2>7 DEF EndInv, StatesAgree, RecvMoves
    <2>15. ReceiptInOrder(e)'
      BY <1>3, <2>3, <2>5 DEF EndInv, ReceiptInOrder, ReceivedAll, GotRequested, RecvMoves
    <2>16. FooterMeansReceived(e)'
      BY <1>3, <2>3, <2>5, <2>11 DEF EndInv, FooterMeansReceived, GotRequested, Sized,
        RecvMoves
    <2> QED
      BY <1>2, <2>5, <2>6, <2>7, <2>9, <2>10, <2>12, <2>13, <2>14, <2>15, <2>16, EventStep
        DEF EndInv, RecvMoves
  <1> QED
    BY <1>4, <1>5

-----------------------------------------------------------------------------
(* The theorems.                                                            *)

\* tgenstream_new establishes the invariant at both ends.
LEMMA InitKeeps ==
  ASSUME Init
  PROVE  TypeOK /\ EndsInOrder
  <1>1. PICK o \in Options : /\ recv = [e \in Ends |-> NewRecv(o, e)]
                             /\ send = [e \in Ends |-> NewSend(o, e)]
    BY DEF Init
  <1>2. o.sendsize \in Nat \cup {Unset} /\ o.recvsize \in Nat \cup {Unset}
    BY OptionsAssumption DEF OptionType
  <1>3. ASSUME NEW e \in Ends
        PROVE  NewRecv(o, e) \in RecvType
    BY <1>2 DEF NewRecv, RecvType, RecvStates
  <1>4. ASSUME NEW e \in Ends
        PROVE  NewSend(o, e) \in SendType
    BY <1>2 DEF NewSend, SendType, SendStates
  <1>5. ASSUME NEW e \in Ends
        PROVE  NewModel(e) \in ModelType
    BY SizeAssumption DEF NewModel, ModelType
  <1>6. StreamTypes
    <2>1. recv \in [Ends -> RecvType] /\ send \in [Ends -> SendType]
      BY <1>1, <1>3, <1>4
    <2>2. mmodel \in [Ends -> ModelType]
      BY <1>5 DEF Init
    <2>3. cmd \in CommandType
      BY CommandsAssumption DEF Init
    <2>4. todo \in [Ends -> Seq(Phases)]
      BY DEF Init
    <2>5. error \in [Ends -> Errors]
      BY DEF Init, Errors
    <2> QED
      BY <2>1, <2>2, <2>3, <2>4, <2>5 DEF Init, StreamTypes
  <1>7. ChannelTypes
    BY DEF Init, ChannelTypes
  <1>8. CountersInOrder
    BY SizeAssumption, PeerFacts DEF Init, CountersInOrder
  <1>9. ASSUME NEW e \in Ends
        PROVE  EndInv(e)
    <2>1. /\ recv[e].state \in {"NONE", "AUTHENTICATE"} /\ recv[e].modelBytes = 0
          /\ recv[e].payloadBytes = 0 /\ recv[e].requestedBytes \in Nat
          /\ send[e].state # "ERROR" /\ (send[e].state = "COMMAND" => recv[e].state = "NONE")
      BY <1>1, <1>2 DEF NewRecv, NewSend
    <2>2. ~HasFooter(e)
      BY DEF Init, HasFooter
    <2>3. /\ error[e] = "NONE" /\ note[e] = "none" /\ ~Gone(e)
      BY DEF Init, Gone
    <2>4. ReadsInBounds(e)
      BY <2>1, SizeAssumption DEF ReadsInBounds
    <2> QED
      BY <2>1, <2>2, <2>3, <2>4 DEF EndInv, StatesAgree, ReceiptInOrder, ReceivedAll,
        FooterMeansReceived, DestroyedIsFinal
  <1> QED
    BY <1>6, <1>7, <1>8, <1>9 DEF TypeOK, EndsInOrder

\* Every step keeps the invariant: one step per action.
LEMMA NextKeeps ==
  ASSUME TypeOK, EndsInOrder, [Next]_vars
  PROVE  TypeOK' /\ EndsInOrder'
  <1>1. ASSUME NEW e \in Ends, onReadable(e)
        PROVE  TypeOK' /\ EndsInOrder'
    BY <1>1, readAuthenticateKeeps, readHeaderKeeps, skipModelKeeps, readModelKeeps,
      readPayloadKeeps, skipChecksumKeeps, readChecksumKeeps, skipFooterKeeps,
      readFooterKeeps, endReadableKeeps DEF onReadable
  <1>2. ASSUME NEW e \in Ends, onWritable(e)
        PROVE  TypeOK' /\ EndsInOrder'
    BY <1>2, writeCommandKeeps, writeResponseKeeps, flushPayloadKeeps, endPayloadKeeps,
      writePayloadKeeps, skipSendChecksumKeeps, writeChecksumKeeps, skipSendFooterKeeps,
      holdFooterKeeps, writeFooterKeeps, flushKeeps, endWritableKeeps DEF onWritable
  <1>3. ASSUME NEW e \in Ends, step(e)
        PROVE  TypeOK' /\ EndsInOrder'
    BY <1>1, <1>2, <1>3, onEventKeeps, clearBarrierKeeps, finishKeeps, hangupKeeps,
      connectKeeps, connectFailsKeeps, onDeferTimerExpiredKeeps DEF step
  <1>4. ASSUME NEW e \in Ends, peerResets(e) \/ networkResets(e)
        PROVE  TypeOK' /\ EndsInOrder'
    BY <1>4, ResetKeeps DEF peerResets, networkResets
  <1>5. CASE UNCHANGED vars
    <2>1. EndsInOrder'
      BY <1>5, SameStreams DEF vars
    <2>2. StreamTypes'
      BY <1>5 DEF vars, TypeOK, StreamTypes
    <2>3. ChannelTypes' /\ CountersInOrder'
      BY <1>5 DEF vars, TypeOK, ChannelTypes, CountersInOrder
    <2> QED
      BY <2>1, <2>2, <2>3 DEF TypeOK
  <1>6. CASE ended
    BY <1>5, <1>6 DEF ended
  <1> QED
    BY <1>3, <1>4, <1>5, <1>6, barrierPassesKeeps, onCheckTimeoutKeeps, deliverKeeps DEF Next

-----------------------------------------------------------------------------
(* What an event leaves to do while a write is deferred.                    *)

\* What is left of an event after the first phase of the plan p.
TailFits(p) ==
  /\ Tail(p) \in DeferredPlans \cup WritingPlans
  /\ Head(p) = "write" => Tail(p) \in DeferredPlans
  /\ Head(p) \in {"read", "barrier", "write", "undefer"} => Tail(p) # <<>>
  /\ p \in DeferredPlans /\ Head(p) # "undefer" => Tail(p) \in DeferredPlans
  /\ p \in DeferredPlans => Head(p) \notin {"write", "barrier"}
  /\ Head(p) \in {"finish", "hangup"} => Tail(p) = <<>>

\* What an event leaves to do, phase by phase.
LEMMA PlanTails ==
  ASSUME NEW p \in DeferredPlans \cup WritingPlans, p # <<>>
  PROVE  TailFits(p)
  <1>1. TailFits(<<"finish">>) /\ TailFits(<<"hangup">>)
    BY DEF TailFits, DeferredPlans
  <1>2. TailFits(<<"read", "finish">>)
    BY DEF TailFits, DeferredPlans
  <1>3. TailFits(<<"undefer", "barrier", "write", "hangup">>)
    BY DEF TailFits, DeferredPlans, WritingPlans
  <1>4. TailFits(<<"read", "undefer", "barrier", "write", "hangup">>)
    BY DEF TailFits, DeferredPlans
  <1>5. TailFits(<<"read", "read", "undefer", "barrier", "write", "hangup">>)
    BY DEF TailFits, DeferredPlans
  <1>6. TailFits(<<"read", "read", "read", "undefer", "barrier", "write", "hangup">>)
    BY DEF TailFits, DeferredPlans
  <1>7. TailFits(<<"write", "finish">>) /\ TailFits(<<"write", "hangup">>)
    BY DEF TailFits, DeferredPlans
  <1>8. TailFits(<<"write", "read", "read", "undefer", "barrier", "write", "hangup">>)
    BY DEF TailFits, DeferredPlans
  <1>9. TailFits(<<"barrier", "write", "finish">>) /\ TailFits(<<"barrier", "write", "hangup">>)
    BY DEF TailFits, DeferredPlans, WritingPlans
  <1>10. TailFits(<<"read", "barrier", "write", "finish">>)
    BY DEF TailFits, DeferredPlans, WritingPlans
  <1>11. TailFits(<<"barrier", "write", "read", "read", "undefer", "barrier", "write",
                    "hangup">>)
    BY DEF TailFits, DeferredPlans, WritingPlans
  <1>12. TailFits(<<"read", "barrier", "write", "read", "read", "undefer", "barrier", "write",
                    "hangup">>)
    BY DEF TailFits, DeferredPlans, WritingPlans
  <1> QED
    BY <1>1, <1>2, <1>3, <1>4, <1>5, <1>6, <1>7, <1>8, <1>9, <1>10, <1>11, <1>12
    DEF DeferredPlans, WritingPlans

\* A phase that reads keeps the plan and the barrier; a phase that writes may defer
\* the next write, and then the phase is over.
LEMMA PhaseDefers ==
  ASSUME TypeOK, NEW e \in Ends, DeferralKept(e), todo[e] # <<>>,
         Head(todo[e]) \in {"read", "write"}, UNCHANGED <<transport, watch>>,
         todo' = todo \/ Leave(e),
         send'[e].defer = send[e].defer \/ (Head(todo[e]) = "write" /\ Leave(e))
  PROVE  DeferralKept(e)'
  <1>1. TailFits(todo[e])
    BY PlanTails DEF DeferralKept
  <1>2. CASE todo' = todo
    <2>1. send'[e].defer = send[e].defer
      <3>1. CASE Head(todo[e]) = "write" /\ Leave(e)
        <4>1. todo'[e] = Tail(todo[e])
          BY <3>1 DEF Leave, TypeOK, StreamTypes
        <4>2. todo[e] \in Seq(Phases)
          BY DEF TypeOK, StreamTypes
        <4>3. Len(Tail(todo[e])) = Len(todo[e]) - 1 /\ Len(todo[e]) \in Nat
          BY <4>2, HeadTailProperties
        <4>4. Tail(todo[e]) = todo[e]
          BY <1>2, <4>1
        <4>5. Len(todo[e]) = Len(todo[e]) - 1
          BY <4>3, <4>4
        <4> QED
          BY <4>3, <4>5
      <3> QED
        BY <3>1
    <2> QED
      BY <1>2, <2>1 DEF DeferralKept
  <1>3. CASE Leave(e)
    <2>1. todo'[e] = Tail(todo[e])
      BY <1>3 DEF Leave, TypeOK, StreamTypes
    <2>2. transport[e] # "CONNECT"
      BY DEF DeferralKept
    <2> QED
      BY <1>1, <2>1, <2>2 DEF DeferralKept, TailFits
  <1> QED
    BY <1>2, <1>3

\* A step of the other endpoint.
LEMMA DeferralFrame ==
  ASSUME NEW x \in Ends, DeferralKept(x), todo'[x] = todo[x], send'[x] = send[x],
         watch'[x] = watch[x], transport'[x] = transport[x]
  PROVE  DeferralKept(x)'
  BY DEF DeferralKept

-----------------------------------------------------------------------------
(* What the stages of onReadable do, in the terms of the invariants.        *)

\* The stage leaves the sending side, the model and the sizes alone.
Stays(e) ==
  /\ send'[e] = send[e] /\ mmodel'[e] = mmodel[e]
  /\ recv'[e].requestedBytes = recv[e].requestedBytes
  /\ recv'[e].requestedZero = recv[e].requestedZero

\* The token is in the log of the peer.
Logged(e, tok) == \E i \in 1 .. Len(out[Peer(e)]) : out[Peer(e)][i] = tok

\* The stage is not over, or it fails without an answer.
NoVerdict(e) ==
  /\ Stays(e)
  /\ recv'[e].payloadBytes = recv[e].payloadBytes
  /\ recv'[e].state = recv[e].state \/ recv'[e].state = "ERROR"

\* A stage that comes after the handshake.
AfterHandshake(e) ==
  /\ Stays(e)
  /\ recv[e].state \in {"PAYLOAD", "CHECKSUM", "FOOTER"}
  /\ recv'[e].state \in {"PAYLOAD", "CHECKSUM", "FOOTER", "SUCCESS", "ERROR"}

\* The password is right.
Authenticates(e) ==
  /\ Stays(e)
  /\ recv'[e].payloadBytes = recv[e].payloadBytes
  /\ recv[e].state = "AUTHENTICATE" /\ recv'[e].state = "HEADER"
  /\ Logged(e, Tok("auth", 0))

\* The client reads that the server accepted.
IsAccepted(e) ==
  /\ e = "client" /\ Stays(e)
  /\ recv'[e].payloadBytes = recv[e].payloadBytes
  /\ recv[e].state = "HEADER" /\ recv'[e].state = "PAYLOAD"
  /\ Logged(e, Tok("hdr", 0))

\* The header or the model is refused, and the server will say so.
Refuses(e) ==
  /\ mmodel'[e] = mmodel[e]
  /\ recv'[e].requestedBytes = recv[e].requestedBytes
  /\ recv'[e].requestedZero = recv[e].requestedZero
  /\ recv'[e].payloadBytes = recv[e].payloadBytes
  /\ recv[e].state \in {"HEADER", "MODEL"} /\ recv'[e].state = "ERROR"
  /\ send'[e].state = IF e = "client" /\ recv[e].state = "HEADER" THEN "SUCCESS"
                      ELSE "RESPONSE"
  /\ send'[e].requestedBytes = send[e].requestedBytes
  /\ send'[e].requestedZero = send[e].requestedZero
  /\ send'[e].payloadBytes = send[e].payloadBytes
  /\ send'[e].defer = send[e].defer

\* The server takes the sizes from the header.
TakesHeader(e) ==
  /\ e = "server"
  /\ recv'[e].payloadBytes = recv[e].payloadBytes
  /\ recv[e].state = "HEADER" /\ recv'[e].state = "MODEL"
  /\ send'[e].state = send[e].state
  /\ send'[e].payloadBytes = send[e].payloadBytes
  /\ send'[e].defer = send[e].defer
  /\ mmodel'[e].loaded = cmd.path
  /\ cmd.path => cmd.model
  /\ recv'[e].requestedBytes = send["client"].requestedBytes
  /\ recv'[e].requestedZero = send["client"].requestedZero
  /\ send'[e].requestedBytes = recv["client"].requestedBytes
  /\ send'[e].requestedZero = recv["client"].requestedZero
  /\ Logged(e, Tok("hdr", 0))

\* The server has its model and starts to answer.
Answers(e) ==
  /\ recv'[e].requestedBytes = recv[e].requestedBytes
  /\ recv'[e].requestedZero = recv[e].requestedZero
  /\ recv'[e].payloadBytes = recv[e].payloadBytes
  /\ recv[e].state = "MODEL" /\ recv'[e].state = "PAYLOAD"
  /\ send'[e].state = "RESPONSE"
  /\ send'[e].requestedBytes = send[e].requestedBytes
  /\ send'[e].requestedZero = send[e].requestedZero
  /\ send'[e].payloadBytes = send[e].payloadBytes
  /\ send'[e].defer = send[e].defer
  /\ mmodel[e].loaded \/ cmd.model

\* A step at one end leaves the streams of the other end alone.
OtherStays(e) ==
  \A x \in Ends \ {e} : /\ recv'[x] = recv[x] /\ send'[x] = send[x]
                        /\ error'[x] = error[x] /\ mmodel'[x] = mmodel[x]

ReadOutcome(e) ==
  /\ todo[e] # <<>> /\ Head(todo[e]) = "read"
  /\ UNCHANGED <<cmd, note, transport, watch, out, put, arr, reset>>
  /\ todo' = todo \/ Leave(e)
  /\ OtherStays(e)
  /\ recv'[e].expectedBytes = recv[e].expectedBytes
  /\ error[e] # "NONE" => error'[e] # "NONE"
  /\ \/ NoVerdict(e) \/ AfterHandshake(e) \/ Authenticates(e) \/ IsAccepted(e)
     \/ Refuses(e) \/ TakesHeader(e) \/ Answers(e)

\* A line or a password is where LineText looks for it.
LEMMA LineLogged ==
  ASSUME TypeOK, NEW e \in Ends, used[e] + 1 <= arr[e], NEW tok, LineText(e) = tok
  PROVE  Logged(e, tok)
  <1>1. Peer(e) \in Ends
    BY PeerFacts
  <1>2. /\ arr[e] <= put[Peer(e)] /\ put[Peer(e)] <= Len(out[Peer(e)])
        /\ used[e] \in Nat /\ arr[e] \in Nat /\ put[Peer(e)] \in Nat
        /\ Len(out[Peer(e)]) \in Nat
    BY <1>1 DEF TypeOK, ChannelTypes, CountersInOrder
  <1>3. used[e] + 1 \in 1 .. Len(out[Peer(e)])
    BY <1>2
  <1> QED
    BY <1>3 DEF Logged, LineText

\* _tgenstream_read returns at least one token with its data.
LEMMA StreamReadData ==
  ASSUME TypeOK, NEW e \in Ends, StreamRead(e, 1).kind = "data"
  PROVE  used[e] + 1 <= arr[e]
  <1>1. /\ used[e] \in Nat /\ got[e] \in Nat /\ arr[e] \in Nat
        /\ used[e] <= got[e] /\ got[e] <= arr[e]
    BY DEF TypeOK, ChannelTypes, CountersInOrder
  <1>2. CASE Buffered(e) > 0
    BY <1>1, <1>2 DEF Buffered
  <1>3. CASE ~(Buffered(e) > 0)
    <2>1. SockRead(e, 1).kind = "data"
      BY <1>3 DEF StreamRead
    <2>2. arr[e] > got[e]
      BY <2>1 DEF SockRead
    <2> QED
      BY <1>1, <2>2
  <1> QED
    BY <1>2, <1>3

\* Assigning only the receive state keeps what the model announced.
LEMMA SetStateExpected ==
  ASSUME TypeOK, NEW e \in Ends, NEW st,
         \/ recv' = [recv EXCEPT ![e].state = st]
         \/ recv' = [recv EXCEPT ![e].state = st, ![e].checksumRecv = TRUE]
  PROVE  recv'[e].expectedBytes = recv[e].expectedBytes
  BY DEF TypeOK, StreamTypes, RecvType

\* Assigning only the send state keeps the counts, the sizes and the barrier.
LEMMA SendFields ==
  ASSUME TypeOK, NEW e \in Ends, NEW st \in SendStates,
         send' = [send EXCEPT ![e].state = st]
  PROVE  /\ send'[e].state = st
         /\ send'[e].requestedBytes = send[e].requestedBytes
         /\ send'[e].requestedZero = send[e].requestedZero
         /\ send'[e].payloadBytes = send[e].payloadBytes
         /\ send'[e].defer = send[e].defer
         /\ \A x \in Ends \ {e} : send'[x] = send[x]
  <1>1. send \in [Ends -> SendType]
    BY DEF TypeOK, StreamTypes
  <1> QED
    BY <1>1 DEF SendType

\* An unsuccessful read gives no verdict.
LEMMA FailsNoVerdict ==
  ASSUME TypeOK, NEW e \in Ends, todo[e] # <<>>, UNCHANGED <<send, mmodel>>,
         NEW kind \in {"error", "eof", "again"}, ReadFails(e, kind)
  PROVE  /\ NoVerdict(e) /\ OtherStays(e) /\ Leave(e)
         /\ recv'[e].expectedBytes = recv[e].expectedBytes
         /\ error[e] # "NONE" => error'[e] # "NONE"
  <1>1. /\ recv' = [recv EXCEPT ![e].state = IF kind = "again" THEN @ ELSE "ERROR"]
        /\ \A x \in Ends \ {e} : error'[x] = error[x]
        /\ error'[e] = "NONE" => error[e] = "NONE"
    BY ReadFailsType DEF TypeOK
  <1>2. recv \in [Ends -> RecvType]
    BY DEF TypeOK, StreamTypes
  <1>3. PICK st \in {recv[e].state, "ERROR"} : recv' = [recv EXCEPT ![e].state = st]
    BY <1>1, <1>2
  <1>4. st \in RecvStates
    <2>1. recv[e].state \in RecvStates
      BY <1>2 DEF RecvType
    <2> QED
      BY <1>3, <2>1 DEF RecvStates
  <1>5. RecvMoves(e, st)
    BY <1>3, <1>4, SetState
  <1>6. recv'[e].expectedBytes = recv[e].expectedBytes
    BY <1>3, SetStateExpected
  <1>7. Leave(e)
    BY DEF ReadFails
  <1>8. NoVerdict(e) /\ OtherStays(e)
    BY <1>1, <1>3, <1>5 DEF NoVerdict, Stays, OtherStays, RecvMoves
  <1> QED
    BY <1>1, <1>6, <1>7, <1>8

\* Reading the password, in the terms of the invariants.
LEMMA readAuthenticateOutcome ==
  ASSUME TypeOK, NEW e \in Ends, readAuthenticate(e)
  PROVE  ReadOutcome(e)
  <1> DEFINE r == StreamRead(e, 1)
  <1> HIDE DEF r
  <1>1. /\ todo[e] # <<>> /\ Head(todo[e]) = "read" /\ recv[e].state = "AUTHENTICATE"
        /\ UNCHANGED <<cmd, send, mmodel, note, transport, watch, out, put, arr, reset>>
    BY DEF readAuthenticate, Reading
  <1>2. r.kind \in {"data", "error", "eof", "again"}
    BY StreamReadBounds DEF r
  <1>3. CASE r.kind # "data"
    <2>1. ReadFails(e, r.kind)
      BY <1>3 DEF readAuthenticate, r
    <2> QED
      BY <1>1, <1>2, <1>3, <2>1, FailsNoVerdict DEF ReadOutcome
  <1>4. CASE r.kind = "data" /\ LineText(e) = Tok("auth", 0)
    <2>1. recv' = [recv EXCEPT ![e].state = "HEADER"] /\ UNCHANGED <<error, todo>>
      BY <1>4 DEF readAuthenticate, r
    <2>2. RecvMoves(e, "HEADER") /\ recv'[e].expectedBytes = recv[e].expectedBytes
      BY <2>1, SetState, SetStateExpected DEF RecvStates
    <2>3. Logged(e, Tok("auth", 0))
      BY <1>4, LineLogged, StreamReadData DEF r
    <2>4. Authenticates(e)
      BY <1>1, <2>2, <2>3 DEF Authenticates, Stays, RecvMoves
    <2> QED
      BY <1>1, <2>1, <2>2, <2>4 DEF ReadOutcome, OtherStays, RecvMoves
  <1>5. CASE r.kind = "data" /\ LineText(e) # Tok("auth", 0)
    <2>1. /\ recv' = [recv EXCEPT ![e].state = "ERROR"]
          /\ error' = [error EXCEPT ![e] = "AUTHENTICATE"] /\ Leave(e)
      BY <1>5 DEF readAuthenticate, r
    <2>2. /\ RecvMoves(e, "ERROR") /\ ErrorMoves(e, "AUTHENTICATE")
          /\ recv'[e].expectedBytes = recv[e].expectedBytes
      BY <1>1, <2>1, SetState, SetError, SetStateExpected DEF RecvStates, Errors
    <2>3. NoVerdict(e)
      BY <1>1, <2>2 DEF NoVerdict, Stays, RecvMoves
    <2> QED
      BY <1>1, <2>1, <2>2, <2>3 DEF ReadOutcome, OtherStays, RecvMoves, ErrorMoves
  <1> QED
    BY <1>3, <1>4, <1>5

\* Reading the header line, in the terms of the invariants.
LEMMA readHeaderOutcome ==
  ASSUME TypeOK, NEW e \in Ends, readHeader(e)
  PROVE  ReadOutcome(e)
  <1> DEFINE r == GetLine(e)
  <1> HIDE DEF r
  <1>1. /\ todo[e] # <<>> /\ Head(todo[e]) = "read" /\ recv[e].state = "HEADER"
        /\ UNCHANGED <<cmd, note, transport, watch, out, put, arr, reset>>
    BY DEF readHeader, Reading
  <1>2. r.kind \in {"line", "error", "eof", "again"}
    BY GetLineBounds DEF r
  <1>3. r.kind = "line" => used[e] + 1 <= arr[e]
    BY TakeLineBounds DEF readHeader, r
  <1>4. CASE r.kind # "line"
    <2>1. ReadFails(e, r.kind) /\ UNCHANGED <<send, mmodel>>
      BY <1>4 DEF readHeader, r
    <2> QED
      BY <1>1, <1>2, <1>4, <2>1, FailsNoVerdict DEF ReadOutcome
  <1>5. CASE r.kind = "line" /\ ~HeaderAccepted(e)
    <2> DEFINE st == IF e = "client" THEN "SUCCESS" ELSE "RESPONSE"
    <2>1. /\ recv' = [recv EXCEPT ![e].state = "ERROR"]
          /\ error' = [error EXCEPT ![e] = "HEADER"]
          /\ send' = [send EXCEPT ![e].state = st]
          /\ Leave(e) /\ UNCHANGED mmodel
      BY <1>5 DEF readHeader, r
    <2>2. /\ RecvMoves(e, "ERROR") /\ ErrorMoves(e, "HEADER")
          /\ recv'[e].expectedBytes = recv[e].expectedBytes
      BY <1>1, <2>1, SetState, SetError, SetStateExpected DEF RecvStates, Errors
    <2>3. st \in SendStates
      BY DEF SendStates
    <2>4. /\ send'[e].state = st
          /\ send'[e].requestedBytes = send[e].requestedBytes
          /\ send'[e].requestedZero = send[e].requestedZero
          /\ send'[e].payloadBytes = send[e].payloadBytes
          /\ send'[e].defer = send[e].defer
          /\ \A x \in Ends \ {e} : send'[x] = send[x]
      <3> HIDE DEF st
      <3> QED
        BY <2>1, <2>3, SendFields
    <2>5. Refuses(e)
      BY <1>1, <2>1, <2>2, <2>4 DEF Refuses, RecvMoves
    <2> QED
      BY <1>1, <2>1, <2>2, <2>4, <2>5 DEF ReadOutcome, OtherStays, RecvMoves, ErrorMoves
  <1>6. CASE r.kind = "line" /\ HeaderAccepted(e)
    <2>1. Logged(e, Tok("hdr", 0)) /\ (e = "server" /\ cmd.path => cmd.model)
      BY <1>3, <1>6, LineLogged DEF HeaderAccepted
    <2>2. CASE e = "client"
      <3>1. /\ recv' = [recv EXCEPT ![e].state = "PAYLOAD"]
            /\ UNCHANGED <<error, send, mmodel, todo>>
        BY <1>6, <2>2 DEF readHeader, r
      <3>2. RecvMoves(e, "PAYLOAD") /\ recv'[e].expectedBytes = recv[e].expectedBytes
        BY <3>1, SetState, SetStateExpected DEF RecvStates
      <3>3. IsAccepted(e)
        BY <1>1, <2>1, <2>2, <3>1, <3>2 DEF IsAccepted, Stays, RecvMoves
      <3> QED
        BY <1>1, <3>1, <3>2, <3>3 DEF ReadOutcome, OtherStays, RecvMoves
    <2>3. CASE e # "client"
      <3>1. /\ recv' = [recv EXCEPT
                 ![e].state = "MODEL",
                 ![e].requestedBytes = send["client"].requestedBytes,
                 ![e].requestedZero = send["client"].requestedZero]
            /\ send' = [send EXCEPT
                 ![e].requestedBytes = recv["client"].requestedBytes,
                 ![e].requestedZero = recv["client"].requestedZero]
            /\ mmodel' = [mmodel EXCEPT ![e].loaded = cmd.path]
            /\ UNCHANGED <<error, todo>>
        BY <1>6, <2>3 DEF readHeader, r
      <3>2. /\ recv \in [Ends -> RecvType] /\ send \in [Ends -> SendType]
            /\ mmodel \in [Ends -> ModelType]
        BY DEF TypeOK, StreamTypes
      <3>3. /\ recv'[e].state = "MODEL" /\ recv'[e].payloadBytes = recv[e].payloadBytes
            /\ recv'[e].expectedBytes = recv[e].expectedBytes
            /\ recv'[e].requestedBytes = send["client"].requestedBytes
            /\ recv'[e].requestedZero = send["client"].requestedZero
            /\ \A x \in Ends \ {e} : recv'[x] = recv[x]
        BY <3>1, <3>2 DEF RecvType
      <3>4. /\ send'[e].state = send[e].state /\ send'[e].defer = send[e].defer
            /\ send'[e].requestedBytes = recv["client"].requestedBytes
            /\ send'[e].requestedZero = recv["client"].requestedZero
            /\ send'[e].payloadBytes = send[e].payloadBytes
            /\ \A x \in Ends \ {e} : send'[x] = send[x]
        BY <3>1, <3>2 DEF SendType
      <3>5. mmodel'[e].loaded = cmd.path /\ \A x \in Ends \ {e} : mmodel'[x] = mmodel[x]
        BY <3>1, <3>2 DEF ModelType
      <3>6. e = "server"
        BY <2>3 DEF Ends
      <3>7. TakesHeader(e)
        BY <1>1, <2>1, <3>3, <3>4, <3>5, <3>6 DEF TakesHeader
      <3> QED
        BY <1>1, <3>1, <3>3, <3>4, <3>5, <3>7 DEF ReadOutcome, OtherStays
    <2> QED
      BY <2>2, <2>3
  <1> QED
    BY <1>4, <1>5, <1>6

\* The start of the answer, in the terms of the invariants.
LEMMA StartResponseOutcome ==
  ASSUME TypeOK, NEW e \in Ends, StartResponse(e), todo[e] # <<>>, Head(todo[e]) = "read",
         recv[e].state = "MODEL", mmodel[e].loaded \/ cmd.model,
         \A x \in Ends \ {e} : mmodel'[x] = mmodel[x],
         UNCHANGED <<cmd, note, transport, watch, out, put, arr, reset>>
  PROVE  ReadOutcome(e)
  <1>1. /\ recv' = [recv EXCEPT ![e].state = "PAYLOAD"]
        /\ send' = [send EXCEPT ![e].state = "RESPONSE"]
        /\ UNCHANGED <<error, todo>>
    BY DEF StartResponse
  <1>2. RecvMoves(e, "PAYLOAD") /\ recv'[e].expectedBytes = recv[e].expectedBytes
    BY <1>1, SetState, SetStateExpected DEF RecvStates
  <1>3. /\ send'[e].state = "RESPONSE"
        /\ send'[e].requestedBytes = send[e].requestedBytes
        /\ send'[e].requestedZero = send[e].requestedZero
        /\ send'[e].payloadBytes = send[e].payloadBytes
        /\ send'[e].defer = send[e].defer
        /\ \A x \in Ends \ {e} : send'[x] = send[x]
    BY <1>1, SendFields DEF SendStates
  <1>4. Answers(e)
    BY <1>2, <1>3 DEF Answers, RecvMoves
  <1> QED
    BY <1>1, <1>2, <1>3, <1>4 DEF ReadOutcome, OtherStays, RecvMoves

\* Reading the model, in the terms of the invariants.
LEMMA readModelOutcome ==
  ASSUME TypeOK, EndsInOrder, NEW e \in Ends, readModel(e)
  PROVE  ReadOutcome(e)
  <1> DEFINE limit == Min2(ReadMax, ModelSize - recv[e].modelBytes)
             r == StreamRead(e, limit)
             have == recv[e].modelBytes + r.n
  <1>1. /\ todo[e] # <<>> /\ Head(todo[e]) = "read" /\ recv[e].state = "MODEL"
        /\ UNCHANGED <<cmd, note, transport, watch, out, put, arr, reset>>
    BY DEF readModel, Reading
  <1>2. /\ recv \in [Ends -> RecvType] /\ mmodel \in [Ends -> ModelType]
    BY DEF TypeOK, StreamTypes
  <1>3. recv[e].modelBytes \in Nat /\ recv[e].modelBytes < ModelSize
    BY <1>2 DEF EndsInOrder, EndInv, ReadsInBounds, RecvType
  <1>4. limit \in Nat
    BY <1>3, SizeAssumption DEF Min2
  <1> HIDE DEF limit
  <1>5. r.kind \in {"data", "error", "eof", "again"}
    BY <1>4, StreamReadBounds
  <1>6. IF r.kind # "data" THEN ReadFails(e, r.kind) /\ UNCHANGED <<send, mmodel>>
        ELSE IF have < ModelSize
        THEN /\ recv' = [recv EXCEPT ![e].modelBytes = have]
             /\ Leave(e)
             /\ UNCHANGED <<error, send, mmodel>>
        ELSE IF cmd.model
        THEN StartResponse(e) /\ mmodel' = [mmodel EXCEPT ![e].loaded = TRUE]
        ELSE /\ recv' = [recv EXCEPT ![e].state = "ERROR"]
             /\ send' = [send EXCEPT ![e].state = "RESPONSE"]
             /\ error' = [error EXCEPT ![e] = "MODEL"]
             /\ Leave(e)
             /\ UNCHANGED mmodel
    BY DEF readModel, limit
  <1> HIDE DEF r, have
  <1>7. CASE r.kind # "data"
    BY <1>1, <1>5, <1>6, <1>7, FailsNoVerdict DEF ReadOutcome
  <1>8. CASE r.kind = "data" /\ have < ModelSize
    <2>1. /\ recv' = [recv EXCEPT ![e].modelBytes = have] /\ Leave(e)
          /\ UNCHANGED <<error, send, mmodel>>
      BY <1>6, <1>8
    <2>2. /\ recv'[e].state = recv[e].state /\ recv'[e].payloadBytes = recv[e].payloadBytes
          /\ recv'[e].requestedBytes = recv[e].requestedBytes
          /\ recv'[e].requestedZero = recv[e].requestedZero
          /\ recv'[e].expectedBytes = recv[e].expectedBytes
          /\ \A x \in Ends \ {e} : recv'[x] = recv[x]
      BY <1>2, <2>1 DEF RecvType
    <2>3. NoVerdict(e)
      BY <2>1, <2>2 DEF NoVerdict, Stays
    <2> QED
      BY <1>1, <2>1, <2>2, <2>3 DEF ReadOutcome, OtherStays
  <1>9. CASE r.kind = "data" /\ ~(have < ModelSize) /\ cmd.model
    <2>1. StartResponse(e) /\ mmodel' = [mmodel EXCEPT ![e].loaded = TRUE]
      BY <1>6, <1>9
    <2>2. \A x \in Ends \ {e} : mmodel'[x] = mmodel[x]
      BY <1>2, <2>1
    <2> QED
      BY <1>1, <1>9, <2>1, <2>2, StartResponseOutcome
  <1>10. CASE r.kind = "data" /\ ~(have < ModelSize) /\ ~cmd.model
    <2>1. /\ recv' = [recv EXCEPT ![e].state = "ERROR"]
          /\ send' = [send EXCEPT ![e].state = "RESPONSE"]
          /\ error' = [error EXCEPT ![e] = "MODEL"]
          /\ Leave(e) /\ UNCHANGED mmodel
      BY <1>6, <1>10
    <2>2. /\ RecvMoves(e, "ERROR") /\ ErrorMoves(e, "MODEL")
          /\ recv'[e].expectedBytes = recv[e].expectedBytes
      BY <1>1, <2>1, SetState, SetError, SetStateExpected DEF RecvStates, Errors
    <2>3. /\ send'[e].state = "RESPONSE"
          /\ send'[e].requestedBytes = send[e].requestedBytes
          /\ send'[e].requestedZero = send[e].requestedZero
          /\ send'[e].payloadBytes = send[e].payloadBytes
          /\ send'[e].defer = send[e].defer
          /\ \A x \in Ends \ {e} : send'[x] = send[x]
      BY <2>1, SendFields DEF SendStates
    <2>4. Refuses(e)
      BY <1>1, <2>1, <2>2, <2>3 DEF Refuses, RecvMoves
    <2> QED
      BY <1>1, <2>1, <2>2, <2>3, <2>4 DEF ReadOutcome, OtherStays, RecvMoves, ErrorMoves
  <1> QED
    BY <1>7, <1>8, <1>9, <1>10

\* Reading payload, in the terms of the invariants.
LEMMA readPayloadOutcome ==
  ASSUME TypeOK, EndsInOrder, NEW e \in Ends, readPayload(e)
  PROVE  ReadOutcome(e)
  <1> DEFINE sized == recv[e].requestedBytes > 0
             skips == recv[e].requestedBytes = 0 /\ recv[e].requestedZero
             r == IF skips THEN [kind |-> "skip", n |-> 0]
                  ELSE StreamRead(e, PayloadLimit(e))
             have == recv[e].payloadBytes + r.n
             full == \/ r.kind = "skip"
                     \/ r.kind = "eof" /\ ~sized
                     \/ r.kind = "data" /\ sized /\ have >= recv[e].requestedBytes
  <1>1. /\ todo[e] # <<>> /\ Head(todo[e]) = "read" /\ recv[e].state = "PAYLOAD"
        /\ UNCHANGED <<cmd, send, mmodel, note, transport, watch, out, put, arr, reset>>
    BY DEF readPayload, Reading
  <1>2. recv \in [Ends -> RecvType]
    BY DEF TypeOK, StreamTypes
  <1>3. /\ recv[e].payloadBytes \in Nat /\ recv[e].requestedBytes \in Nat
        /\ sized => recv[e].payloadBytes <= recv[e].requestedBytes
    BY <1>2 DEF EndsInOrder, EndInv, ReadsInBounds, RecvType
  <1>4. PayloadLimit(e) \in Nat
    BY <1>3, SizeAssumption DEF PayloadLimit, Min2
  <1>5. r.kind \in {"skip", "data", "error", "eof", "again"}
    <2>1. CASE skips
      BY <2>1
    <2>2. CASE ~skips
      BY <1>4, <2>2, StreamReadBounds
    <2> QED
      BY <2>1, <2>2
  <1>6. IF full
        THEN /\ recv' = [recv EXCEPT ![e].state = "CHECKSUM", ![e].payloadBytes = have]
             /\ UNCHANGED <<error, todo>>
        ELSE IF r.kind = "data"
        THEN /\ recv' = [recv EXCEPT ![e].payloadBytes = have]
             /\ Leave(e)
             /\ UNCHANGED error
        ELSE ReadFails(e, r.kind)
    BY DEF readPayload
  <1> HIDE DEF r, have
  <1>7. r.kind = "skip" => full
    OBVIOUS
  <1> HIDE DEF full
  <1>8. CASE full \/ r.kind = "data"
    <2>1. /\ error' = error /\ (todo' = todo \/ Leave(e))
          /\ \/ recv' = [recv EXCEPT ![e].state = "CHECKSUM", ![e].payloadBytes = have]
             \/ recv' = [recv EXCEPT ![e].payloadBytes = have]
      BY <1>6, <1>8
    <2>2. /\ recv'[e].state \in {"PAYLOAD", "CHECKSUM"}
          /\ recv'[e].requestedBytes = recv[e].requestedBytes
          /\ recv'[e].requestedZero = recv[e].requestedZero
          /\ recv'[e].expectedBytes = recv[e].expectedBytes
          /\ \A x \in Ends \ {e} : recv'[x] = recv[x]
      BY <1>1, <1>2, <2>1 DEF RecvType
    <2>3. AfterHandshake(e)
      BY <1>1, <2>2 DEF AfterHandshake, Stays
    <2> QED
      BY <1>1, <2>1, <2>2, <2>3 DEF ReadOutcome, OtherStays
  <1>9. CASE ~full /\ r.kind # "data"
    <2>1. ReadFails(e, r.kind) /\ r.kind \in {"error", "eof", "again"}
      BY <1>5, <1>6, <1>7, <1>9
    <2> QED
      BY <1>1, <2>1, FailsNoVerdict DEF ReadOutcome
  <1> QED
    BY <1>8, <1>9

\* The stages after the payload, in the terms of the invariants.
LEMMA LateReadOutcome ==
  ASSUME TypeOK, NEW e \in Ends,
         \/ skipChecksum(e) \/ readChecksum(e) \/ skipFooter(e) \/ readFooter(e)
  PROVE  ReadOutcome(e)
  <1>1. /\ todo[e] # <<>> /\ Head(todo[e]) = "read"
        /\ recv[e].state \in {"CHECKSUM", "FOOTER"}
        /\ UNCHANGED <<cmd, send, mmodel, note, transport, watch, out, put, arr, reset>>
    BY DEF skipChecksum, readChecksum, skipFooter, readFooter, Reading
  <1>2. \/ GetLine(e).kind # "line" /\ ReadFails(e, GetLine(e).kind)
        \/ /\ \E st \in {"FOOTER", "SUCCESS", "ERROR"} :
                \/ recv' = [recv EXCEPT ![e].state = st]
                \/ recv' = [recv EXCEPT ![e].state = st, ![e].checksumRecv = TRUE]
           /\ \/ UNCHANGED <<error, todo>>
              \/ \E er \in Errors \ {"NONE"} :
                   error' = [error EXCEPT ![e] = er] /\ Leave(e)
    BY DEF skipChecksum, readChecksum, skipFooter, readFooter, Errors
  <1>3. CASE GetLine(e).kind # "line" /\ ReadFails(e, GetLine(e).kind)
    <2>1. GetLine(e).kind \in {"error", "eof", "again"}
      BY <1>3, GetLineBounds
    <2>2. PICK k \in {"error", "eof", "again"} : ReadFails(e, k)
      BY <1>3, <2>1
    <2> QED
      BY <1>1, <2>2, FailsNoVerdict DEF ReadOutcome
  <1>4. ASSUME NEW st \in {"FOOTER", "SUCCESS", "ERROR"},
               \/ recv' = [recv EXCEPT ![e].state = st]
               \/ recv' = [recv EXCEPT ![e].state = st, ![e].checksumRecv = TRUE],
               \/ UNCHANGED <<error, todo>>
               \/ \E er \in Errors \ {"NONE"} :
                    error' = [error EXCEPT ![e] = er] /\ Leave(e)
        PROVE  ReadOutcome(e)
    <2>1. RecvMoves(e, st) /\ recv'[e].expectedBytes = recv[e].expectedBytes
      BY <1>4, SetState, SetStateAndFlag, SetStateExpected DEF RecvStates
    <2>2. AfterHandshake(e)
      BY <1>1, <2>1 DEF AfterHandshake, Stays, RecvMoves
    <2>3. /\ todo' = todo \/ Leave(e)
          /\ error[e] # "NONE" => error'[e] # "NONE"
          /\ \A x \in Ends \ {e} : error'[x] = error[x]
      <3>1. error \in [Ends -> Errors]
        BY DEF TypeOK, StreamTypes
      <3> QED
        BY <1>4, <3>1
    <2> QED
      BY <1>1, <2>1, <2>2, <2>3 DEF ReadOutcome, OtherStays, RecvMoves
  <1> QED
    BY <1>2, <1>3, <1>4

\* Every stage of onReadable has one of these outcomes.
LEMMA onReadableOutcome ==
  ASSUME TypeOK, EndsInOrder, NEW e \in Ends, onReadable(e)
  PROVE  ReadOutcome(e)
  <1>1. CASE skipModel(e)
    <2>1. /\ todo[e] # <<>> /\ Head(todo[e]) = "read" /\ recv[e].state = "MODEL"
          /\ mmodel[e].loaded /\ StartResponse(e) /\ mmodel' = mmodel
          /\ UNCHANGED <<cmd, note, transport, watch, out, put, arr, reset>>
      BY <1>1 DEF skipModel, Reading
    <2> QED
      BY <2>1, StartResponseOutcome
  <1>2. CASE endReadable(e)
    <2>1. /\ todo[e] # <<>> /\ Head(todo[e]) = "read" /\ Leave(e)
          /\ UNCHANGED <<cmd, send, mmodel, note, transport, watch, out, put, arr, reset>>
          /\ UNCHANGED <<recv, error>>
      BY <1>2 DEF endReadable, Reading, stream
    <2> QED
      BY <2>1 DEF ReadOutcome, NoVerdict, Stays, OtherStays
  <1> QED
    BY <1>1, <1>2, readAuthenticateOutcome, readHeaderOutcome, readModelOutcome,
      readPayloadOutcome, LateReadOutcome DEF onReadable

-----------------------------------------------------------------------------
(* What the stages of onWritable do, in the terms of the invariants.        *)

\* The tokens in the log of e.
Said(e) == {out[e][i] : i \in 1 .. Len(out[e])}

\* The sizes of e stay what they are.
SizesStay(e) ==
  /\ recv'[e].requestedBytes = recv[e].requestedBytes
  /\ recv'[e].requestedZero = recv[e].requestedZero
  /\ recv'[e].payloadBytes = recv[e].payloadBytes
  /\ recv'[e].modelBytes = recv[e].modelBytes
  /\ send'[e].requestedBytes = send[e].requestedBytes
  /\ send'[e].requestedZero = send[e].requestedZero

\* A line is written: the stage is over only if all of it is.
LineOut(e, line, next) ==
  /\ recv'[e].expectedBytes = recv[e].expectedBytes /\ mmodel'[e] = mmodel[e]
  /\ send'[e].payloadBytes = send[e].payloadBytes /\ send'[e].defer = send[e].defer
  /\ Said(e)' \subseteq Said(e) \cup line
  /\ \/ send'[e].state = send[e].state
     \/ send'[e].state = "ERROR" /\ error'[e] # "NONE"
     \/ send'[e].state = next /\ Pending(e)' = 0

SaysCommand(e) ==
  /\ send[e].state = "COMMAND"
  /\ LineOut(e, {Tok("auth", Verdict(cmd.auth)), Tok("hdr", Verdict(cmd.header)), Tok("nl", 0),
                 Tok("model", 0)}, "PAYLOAD")
  /\ recv'[e].state \in {recv[e].state, "AUTHENTICATE"}

SaysResponse(e) ==
  /\ send[e].state = "RESPONSE"
  /\ recv'[e].state = recv[e].state
  /\ LineOut(e, {Tok("auth", 0), Tok("hdr", Verdict(error[e] = "NONE")), Tok("nl", 0)},
             IF error[e] = "NONE" THEN "PAYLOAD" ELSE "SUCCESS")

SaysChecksum(e) ==
  /\ send[e].state = "CHECKSUM" /\ send[e].requestedBytes > 0
  /\ recv'[e].state = recv[e].state
  /\ LineOut(e, {Tok("sum", send[e].payloadBytes), Tok("nl", 0)}, "FOOTER")

SaysFooter(e) ==
  /\ send[e].state = "FOOTER" /\ Sized(send[e]) /\ ReceivedAll(e)
  /\ recv'[e].state = recv[e].state
  /\ LineOut(e, {Tok("fin", 0), Tok("nl", 0)}, "FLUSH")

\* Nothing is written; the stage is over, or it holds.
Skips(e) ==
  /\ recv'[e] = recv[e] /\ mmodel'[e] = mmodel[e] /\ error'[e] = error[e]
  /\ send'[e].payloadBytes = send[e].payloadBytes /\ send'[e].defer = send[e].defer
  /\ out' = out /\ put' = put
  /\ \/ send'[e].state = send[e].state
     \/ /\ send[e].state = "PAYLOAD" /\ send'[e].state = "CHECKSUM"
        /\ DoneSending(e) /\ Pending(e) = 0
     \/ /\ send[e].state = "CHECKSUM" /\ send'[e].state = "FOOTER"
        /\ send[e].requestedBytes = 0
     \/ /\ send[e].state = "FOOTER" /\ send'[e].state = "FLUSH"
        /\ ~Sized(send[e])
     \/ send[e].state = "FLUSH" /\ send'[e].state = "SUCCESS"

\* What is left in the send buffer is written, or cannot be.
Flushes(e) ==
  /\ recv'[e] = recv[e] /\ mmodel'[e] = mmodel[e] /\ send'[e].defer = send[e].defer
  /\ out' = out
  /\ send[e].state = "PAYLOAD"
  /\ \/ send'[e].state = "ERROR"
     \/ /\ send'[e].state = "PAYLOAD"
        /\ send'[e].payloadBytes + Pending(e)' = send[e].payloadBytes + Pending(e)

\* Payload follows what was logged, and what write() accepts of it is counted.
PayloadAppended(e) ==
  /\ Len(out[e]) <= Len(out'[e])
  /\ \A i \in 1 .. Len(out[e]) : out'[e][i] = out[e][i]
  /\ \A i \in Len(out[e]) + 1 .. Len(out'[e]) : out'[e][i].t = "data"
  /\ send[e].requestedBytes > 0 =>
       send[e].payloadBytes + Len(out'[e]) <= send[e].requestedBytes + put[e]
  /\ send'[e].state = "PAYLOAD" =>
       put'[e] + send[e].payloadBytes = put[e] + send'[e].payloadBytes

\* The model is walked for what to send and what to expect.
WalksOn(e) ==
  /\ Leave(e)
  /\ PayloadAppended(e)
  /\ recv'[e].state = recv[e].state
  /\ Said(e)' \subseteq Said(e) \cup {Tok("data", 0)}
  /\ send[e].state = "PAYLOAD" /\ ~DoneSending(e)
  /\ \/ send'[e].state = "ERROR"
     \/ /\ send'[e].state = "PAYLOAD"
        /\ send[e].requestedBytes > 0 =>
             send'[e].payloadBytes + Pending(e)' <= send[e].requestedBytes
  /\ mmodel'[e].loaded = mmodel[e].loaded
  /\ send[e].requestedBytes = 0 =>
       recv'[e].expectedBytes + mmodel'[e].toRecv = recv[e].expectedBytes + mmodel[e].toRecv
  /\ ~Sized(recv[e]) /\ send[e].requestedBytes = 0 /\ mmodel'[e].ended =>
       mmodel'[e].toRecv = 0

WriteOutcome(e) ==
  /\ todo[e] # <<>> /\ Head(todo[e]) = "write"
  /\ UNCHANGED <<cmd, note, transport, watch, arr, got, used, reset>>
  /\ todo' = todo \/ Leave(e)
  /\ OtherStays(e)
  /\ \A x \in Ends \ {e} : out'[x] = out[x] /\ put'[x] = put[x]
  /\ SizesStay(e)
  /\ error[e] # "NONE" => error'[e] # "NONE"
  /\ \/ SaysCommand(e) \/ SaysResponse(e) \/ SaysChecksum(e) \/ SaysFooter(e)
     \/ Skips(e) \/ Flushes(e) \/ WalksOn(e)

\* What is appended to a log was there or is appended.
LEMMA SaidAppended ==
  ASSUME TypeOK, NEW e \in Ends, NEW line \in Seq(Tokens), NEW S,
         \A i \in 1 .. Len(line) : line[i] \in S,
         out'[e] = out[e] \o line \/ out'[e] = out[e]
  PROVE  Said(e)' \subseteq Said(e) \cup S
  <1>1. CASE out'[e] = out[e]
    BY <1>1 DEF Said
  <1>2. CASE out'[e] = out[e] \o line
    <2>1. out[e] \in Seq(Tokens) /\ Len(out[e]) \in Nat /\ Len(line) \in Nat
      BY DEF TypeOK, ChannelTypes
    <2>2. /\ Len(out'[e]) = Len(out[e]) + Len(line)
          /\ \A i \in 1 .. Len(out[e]) : out'[e][i] = out[e][i]
          /\ \A i \in Len(out[e]) + 1 .. Len(out[e]) + Len(line) :
               out'[e][i] = line[i - Len(out[e])]
      BY <1>2, <2>1
    <2>3. ASSUME NEW i \in 1 .. Len(out'[e])
          PROVE  out'[e][i] \in Said(e) \cup S
      <3>1. CASE i <= Len(out[e])
        <4>1. i \in 1 .. Len(out[e])
          BY <2>1, <2>2, <3>1
        <4> QED
          BY <2>2, <4>1 DEF Said
      <3>2. CASE i > Len(out[e])
        <4>1. i - Len(out[e]) \in 1 .. Len(line) /\ out'[e][i] = line[i - Len(out[e])]
          BY <2>1, <2>2, <3>2
        <4> QED
          BY <4>1
      <3> QED
        BY <2>1, <3>1, <3>2
    <2> QED
      BY <2>3 DEF Said
  <1> QED
    BY <1>1, <1>2

\* Writing a line, in the terms of the invariants.
LEMMA WriteLineOutcome ==
  ASSUME TypeOK, NEW e \in Ends, NEW line \in Seq(Tokens), NEW next \in SendStates,
         todo[e] # <<>>, WriteLine(e, line, next),
         recv'[e].expectedBytes = recv[e].expectedBytes, mmodel'[e] = mmodel[e],
         NEW S, \A i \in 1 .. Len(line) : line[i] \in S
  PROVE  /\ LineOut(e, S, next)
         /\ todo' = todo \/ Leave(e)
         /\ \A x \in Ends \ {e} : /\ out'[x] = out[x] /\ put'[x] = put[x]
                                  /\ send'[x] = send[x] /\ error'[x] = error[x]
         /\ send'[e].requestedBytes = send[e].requestedBytes
         /\ send'[e].requestedZero = send[e].requestedZero
         /\ error[e] # "NONE" => error'[e] # "NONE"
  <1> DEFINE o == Queue(e, line)
  <1>1. /\ out' = [out EXCEPT ![e] = o]
        /\ \A x \in Ends \ {e} : put'[x] = put[x]
        /\ \A x \in Ends \ {e} : error'[x] = error[x]
        /\ error'[e] = "NONE" => error[e] = "NONE"
    BY WriteLineType
  <1>2. o = out[e] \/ o = out[e] \o line
    BY DEF Queue
  <1>3. /\ todo' = todo \/ Leave(e)
        /\ \/ send' = send
           \/ send' = [send EXCEPT ![e].state = "ERROR"] /\ error' = [error EXCEPT ![e] = "WRITE"]
           \/ /\ send' = [send EXCEPT ![e].state = next]
              /\ put' = [put EXCEPT ![e] = @ + Flushed(e, o)]
              /\ Flushed(e, o) = Len(o) - put[e]
    BY DEF WriteLine, WriteError
  <1>4. o \in Seq(Tokens) /\ Len(o) \in Nat /\ put[e] \in Nat /\ put[e] <= Len(o)
    BY QueueBounds DEF TypeOK, ChannelTypes
  <1> HIDE DEF o
  <1>5. out'[e] = o /\ \A x \in Ends \ {e} : out'[x] = out[x]
    BY <1>1 DEF TypeOK, ChannelTypes
  <1>6. Said(e)' \subseteq Said(e) \cup S
    BY <1>2, <1>5, SaidAppended
  <1>7. /\ send'[e].payloadBytes = send[e].payloadBytes /\ send'[e].defer = send[e].defer
        /\ send'[e].requestedBytes = send[e].requestedBytes
        /\ send'[e].requestedZero = send[e].requestedZero
        /\ \A x \in Ends \ {e} : send'[x] = send[x]
    <2>1. CASE send' = send
      BY <2>1
    <2>2. CASE \E st \in {"ERROR", next} : send' = [send EXCEPT ![e].state = st]
      BY <2>2, SendFields DEF SendStates
    <2> QED
      BY <1>3, <2>1, <2>2
  <1>8. \/ send'[e].state = send[e].state
        \/ send'[e].state = "ERROR" /\ error'[e] # "NONE"
        \/ send'[e].state = next /\ Pending(e)' = 0
    <2>1. CASE send' = send
      BY <2>1
    <2>2. CASE send' = [send EXCEPT ![e].state = "ERROR"] /\ error' = [error EXCEPT ![e] = "WRITE"]
      <3>1. send'[e].state = "ERROR"
        BY <2>2, SendFields DEF SendStates
      <3>2. error'[e] = "WRITE"
        BY <2>2 DEF TypeOK, StreamTypes
      <3> QED
        BY <3>1, <3>2
    <2>3. CASE /\ send' = [send EXCEPT ![e].state = next]
               /\ put' = [put EXCEPT ![e] = @ + Flushed(e, o)]
               /\ Flushed(e, o) = Len(o) - put[e]
      <3>1. send'[e].state = next
        BY <2>3, SendFields
      <3>2. put'[e] = put[e] + (Len(o) - put[e])
        BY <2>3 DEF TypeOK, ChannelTypes
      <3>3. Pending(e)' = 0
        BY <1>4, <1>5, <3>2 DEF Pending
      <3> QED
        BY <3>1, <3>3
    <2> QED
      BY <1>3, <2>1, <2>2, <2>3
  <1> QED
    BY <1>1, <1>3, <1>5, <1>6, <1>7, <1>8 DEF LineOut

\* The answer, the checksum and the footer, in the terms of the invariants.
LEMMA LineStagesOutcome ==
  ASSUME TypeOK, NEW e \in Ends, writeResponse(e) \/ writeChecksum(e) \/ writeFooter(e)
  PROVE  WriteOutcome(e)
  <1>1. /\ todo[e] # <<>> /\ Head(todo[e]) = "write"
        /\ UNCHANGED <<cmd, note, transport, watch, arr, got, used, reset>>
        /\ UNCHANGED <<recv, mmodel>>
    BY DEF writeResponse, writeChecksum, writeFooter, Writing
  <1>2. ASSUME NEW line \in Seq(Tokens), NEW next \in SendStates, NEW S,
               \A i \in 1 .. Len(line) : line[i] \in S, WriteLine(e, line, next),
               LineOut(e, S, next) => SaysResponse(e) \/ SaysChecksum(e) \/ SaysFooter(e)
        PROVE  WriteOutcome(e)
    <2>1. /\ LineOut(e, S, next)
          /\ todo' = todo \/ Leave(e)
          /\ \A x \in Ends \ {e} : /\ out'[x] = out[x] /\ put'[x] = put[x]
                                   /\ send'[x] = send[x] /\ error'[x] = error[x]
          /\ send'[e].requestedBytes = send[e].requestedBytes
          /\ send'[e].requestedZero = send[e].requestedZero
          /\ error[e] # "NONE" => error'[e] # "NONE"
      BY <1>1, <1>2, WriteLineOutcome
    <2> QED
      BY <1>1, <1>2, <2>1 DEF WriteOutcome, OtherStays, SizesStay
  <1>3. CASE writeResponse(e)
    <2> DEFINE vd == Verdict(error[e] = "NONE")
               line == <<Tok("auth", 0), Tok("hdr", vd), Tok("nl", 0)>>
               S == {Tok("auth", 0), Tok("hdr", vd), Tok("nl", 0)}
               next == IF error[e] = "NONE" THEN "PAYLOAD" ELSE "SUCCESS"
    <2>1. send[e].state = "RESPONSE" /\ WriteLine(e, line, next)
      BY <1>3 DEF writeResponse, Writing
    <2>2. vd \in Nat
      BY LineTypes
    <2>3. next \in SendStates
      BY DEF SendStates
    <2>4. LineOut(e, S, next) => SaysResponse(e)
      BY <1>1, <2>1 DEF SaysResponse
    <2> HIDE DEF vd, next
    <2>5. line \in Seq(Tokens) /\ \A i \in 1 .. Len(line) : line[i] \in S
      BY <2>2, LineTypes
    <2> HIDE DEF line, S
    <2> QED
      BY <1>2, <2>1, <2>3, <2>4, <2>5
  <1>4. CASE writeChecksum(e)
    <2> DEFINE pb == send[e].payloadBytes
               line == <<Tok("sum", pb), Tok("nl", 0)>>
               S == {Tok("sum", pb), Tok("nl", 0)}
    <2>1. /\ send[e].state = "CHECKSUM" /\ send[e].requestedBytes > 0
          /\ WriteLine(e, line, "FOOTER")
      BY <1>4 DEF writeChecksum, Writing
    <2>2. pb \in Nat
      BY DEF TypeOK, StreamTypes, SendType
    <2>4. LineOut(e, S, "FOOTER") => SaysChecksum(e)
      BY <1>1, <2>1 DEF SaysChecksum
    <2> HIDE DEF pb
    <2>5. line \in Seq(Tokens) /\ \A i \in 1 .. Len(line) : line[i] \in S
      BY <2>2, LineTypes
    <2> HIDE DEF line, S
    <2> QED
      BY <1>2, <2>1, <2>4, <2>5 DEF SendStates
  <1>5. CASE writeFooter(e)
    <2> DEFINE line == <<Tok("fin", 0), Tok("nl", 0)>>
               S == {Tok("fin", 0), Tok("nl", 0)}
    <2>1. /\ send[e].state = "FOOTER" /\ Sized(send[e]) /\ ReceivedAll(e)
          /\ WriteLine(e, line, "FLUSH")
      BY <1>5 DEF writeFooter, Writing
    <2>4. LineOut(e, S, "FLUSH") => SaysFooter(e)
      BY <1>1, <2>1 DEF SaysFooter
    <2>5. line \in Seq(Tokens) /\ \A i \in 1 .. Len(line) : line[i] \in S
      BY LineTypes
    <2> HIDE DEF line, S
    <2> QED
      BY <1>2, <2>1, <2>4, <2>5 DEF SendStates
  <1> QED
    BY <1>3, <1>4, <1>5

\* The command consists of the password, the header line and the model.
LEMMA CommandSays ==
  ASSUME TypeOK
  PROVE  \A i \in 1 .. Len(Command) :
           Command[i] \in {Tok("auth", Verdict(cmd.auth)), Tok("hdr", Verdict(cmd.header)),
                           Tok("nl", 0), Tok("model", 0)}
  <1> DEFINE head == <<Tok("auth", Verdict(cmd.auth)), Tok("hdr", Verdict(cmd.header)),
                       Tok("nl", 0)>>
             tail == IF cmd.path THEN <<>> ELSE [i \in 1 .. ModelSize |-> Tok("model", 0)]
             S == {Tok("auth", Verdict(cmd.auth)), Tok("hdr", Verdict(cmd.header)),
                   Tok("nl", 0), Tok("model", 0)}
  <1>1. ModelSize \in Nat
    BY SizeAssumption
  <1>2. head \in Seq(Tokens) /\ tail \in Seq(Tokens)
    BY <1>1, LineTypes
  <1>3. \A i \in 1 .. Len(head) : head[i] \in S
    OBVIOUS
  <1>4. \A i \in 1 .. Len(tail) : tail[i] \in S
    <2>1. CASE cmd.path
      BY <2>1
    <2>2. CASE ~cmd.path
      <3>1. Len(tail) = ModelSize /\ \A i \in 1 .. ModelSize : tail[i] = Tok("model", 0)
        BY <1>1, <2>2
      <3> QED
        BY <3>1
    <2> QED
      BY <2>1, <2>2
  <1>5. Command = head \o tail
    BY DEF Command
  <1> HIDE DEF head, tail, S
  <1>6. /\ Len(head \o tail) = Len(head) + Len(tail)
        /\ \A i \in 1 .. Len(head) : (head \o tail)[i] = head[i]
        /\ \A i \in Len(head) + 1 .. Len(head) + Len(tail) :
             (head \o tail)[i] = tail[i - Len(head)]
        /\ Len(head) \in Nat /\ Len(tail) \in Nat
    BY <1>2
  <1>7. ASSUME NEW i \in 1 .. Len(head \o tail)
        PROVE  (head \o tail)[i] \in S
    <2>1. CASE i <= Len(head)
      BY <1>3, <1>6, <2>1
    <2>2. CASE i > Len(head)
      <3>1. i - Len(head) \in 1 .. Len(tail) /\ (head \o tail)[i] = tail[i - Len(head)]
        BY <1>6, <2>2
      <3> QED
        BY <1>4, <3>1
    <2> QED
      BY <1>6, <2>1, <2>2
  <1> QED
    BY <1>5, <1>7 DEF S

\* Writing the command, in the terms of the invariants.
LEMMA writeCommandOutcome ==
  ASSUME TypeOK, NEW e \in Ends, writeCommand(e)
  PROVE  WriteOutcome(e)
  <1> DEFINE S == {Tok("auth", Verdict(cmd.auth)), Tok("hdr", Verdict(cmd.header)),
                   Tok("nl", 0), Tok("model", 0)}
             st == IF send'[e].state = "PAYLOAD" THEN "AUTHENTICATE" ELSE recv[e].state
  <1>1. /\ todo[e] # <<>> /\ Head(todo[e]) = "write"
        /\ send[e].state = "COMMAND" /\ WriteLine(e, Command, "PAYLOAD")
        /\ UNCHANGED <<cmd, note, transport, watch, arr, got, used, reset>>
        /\ UNCHANGED mmodel
        /\ recv' = [recv EXCEPT ![e].state =
                      IF send'[e].state = "PAYLOAD" THEN "AUTHENTICATE" ELSE @]
    BY DEF writeCommand, Writing
  <1>2. recv \in [Ends -> RecvType]
    BY DEF TypeOK, StreamTypes
  <1>3. recv' = [recv EXCEPT ![e].state = st]
    BY <1>1, <1>2
  <1>4. st \in RecvStates /\ st \in {recv[e].state, "AUTHENTICATE"}
    BY <1>2 DEF RecvStates, RecvType
  <1> HIDE DEF st, S
  <1>5. RecvMoves(e, st) /\ recv'[e].expectedBytes = recv[e].expectedBytes
    BY <1>3, <1>4, SetState, SetStateExpected
  <1>6. Command \in Seq(Tokens) /\ \A i \in 1 .. Len(Command) : Command[i] \in S
    BY CommandType1, CommandSays DEF S
  <1>7. /\ LineOut(e, S, "PAYLOAD")
        /\ todo' = todo \/ Leave(e)
        /\ \A x \in Ends \ {e} : /\ out'[x] = out[x] /\ put'[x] = put[x]
                                 /\ send'[x] = send[x] /\ error'[x] = error[x]
        /\ send'[e].requestedBytes = send[e].requestedBytes
        /\ send'[e].requestedZero = send[e].requestedZero
        /\ error[e] # "NONE" => error'[e] # "NONE"
    BY <1>1, <1>5, <1>6, WriteLineOutcome DEF SendStates
  <1>8. SaysCommand(e)
    BY <1>1, <1>4, <1>5, <1>7 DEF SaysCommand, RecvMoves, S
  <1> QED
    BY <1>1, <1>5, <1>7, <1>8 DEF WriteOutcome, OtherStays, SizesStay, RecvMoves

\* The stages that write nothing, in the terms of the invariants.
LEMMA SkipOutcome ==
  ASSUME TypeOK, NEW e \in Ends,
         \/ endPayload(e) \/ skipSendChecksum(e) \/ skipSendFooter(e) \/ holdFooter(e)
         \/ flush(e) \/ endWritable(e)
  PROVE  WriteOutcome(e)
  <1>1. /\ todo[e] # <<>> /\ Head(todo[e]) = "write"
        /\ UNCHANGED <<cmd, note, transport, watch, arr, got, used, reset>>
        /\ UNCHANGED <<recv, mmodel, error, out, put>>
        /\ todo' = todo \/ Leave(e)
    BY DEF endPayload, skipSendChecksum, skipSendFooter, holdFooter, flush, endWritable, Writing
  <1>2. \/ send' = send
        \/ /\ send[e].state = "PAYLOAD" /\ send' = [send EXCEPT ![e].state = "CHECKSUM"]
           /\ DoneSending(e) /\ Pending(e) = 0
        \/ /\ send[e].state = "CHECKSUM" /\ send' = [send EXCEPT ![e].state = "FOOTER"]
           /\ send[e].requestedBytes = 0
        \/ /\ send[e].state = "FOOTER" /\ send' = [send EXCEPT ![e].state = "FLUSH"]
           /\ ~Sized(send[e])
        \/ send[e].state = "FLUSH" /\ send' = [send EXCEPT ![e].state = "SUCCESS"]
    BY DEF endPayload, skipSendChecksum, skipSendFooter, holdFooter, flush, endWritable, Writing
  <1>3. /\ send'[e].payloadBytes = send[e].payloadBytes /\ send'[e].defer = send[e].defer
        /\ send'[e].requestedBytes = send[e].requestedBytes
        /\ send'[e].requestedZero = send[e].requestedZero
        /\ \A x \in Ends \ {e} : send'[x] = send[x]
    <2>1. CASE send' = send
      BY <2>1
    <2>2. CASE \E st \in SendStates : send' = [send EXCEPT ![e].state = st]
      BY <2>2, SendFields
    <2> QED
      BY <1>2, <2>1, <2>2 DEF SendStates
  <1>4. \A st \in SendStates : send' = [send EXCEPT ![e].state = st] => send'[e].state = st
    BY SendFields
  <1>5. Skips(e)
    BY <1>1, <1>2, <1>3, <1>4 DEF Skips, SendStates
  <1> QED
    BY <1>1, <1>3, <1>5 DEF WriteOutcome, OtherStays, SizesStay

\* Flushing payload, in the terms of the invariants.
LEMMA flushPayloadOutcome ==
  ASSUME TypeOK, NEW e \in Ends, flushPayload(e)
  PROVE  WriteOutcome(e)
  <1> DEFINE n == Flushed(e, out[e])
  <1>1. /\ todo[e] # <<>> /\ Head(todo[e]) = "write" /\ send[e].state = "PAYLOAD"
        /\ UNCHANGED <<cmd, note, transport, watch, arr, got, used, reset>>
        /\ UNCHANGED <<recv, mmodel, out>>
    BY DEF flushPayload, Writing
  <1>2. send \in [Ends -> SendType]
    BY DEF TypeOK, StreamTypes
  <1>3. /\ out[e] \in Seq(Tokens) /\ put[e] <= Len(out[e]) /\ put \in [Ends -> Nat]
        /\ Len(out[e]) \in Nat /\ put[e] \in Nat
    BY DEF TypeOK, ChannelTypes, CountersInOrder
  <1>4. n \in Nat
    BY <1>3, FlushedBounds
  <1>5. CASE reset[e]
    <2>1. /\ send' = [send EXCEPT ![e].state = "ERROR"]
          /\ error' = [error EXCEPT ![e] = "WRITE"] /\ Leave(e) /\ UNCHANGED put
      BY <1>5 DEF flushPayload, WriteError
    <2>2. /\ send'[e].state = "ERROR" /\ send'[e].defer = send[e].defer
          /\ send'[e].requestedBytes = send[e].requestedBytes
          /\ send'[e].requestedZero = send[e].requestedZero
          /\ \A x \in Ends \ {e} : send'[x] = send[x]
      BY <2>1, SendFields DEF SendStates
    <2>3. ErrorMoves(e, "WRITE")
      BY <1>1, <2>1, SetError DEF Errors
    <2>4. Flushes(e)
      BY <1>1, <2>2 DEF Flushes
    <2> QED
      BY <1>1, <2>1, <2>2, <2>3, <2>4 DEF WriteOutcome, OtherStays, SizesStay, ErrorMoves
  <1>6. CASE ~reset[e]
    <2>1. /\ put' = [put EXCEPT ![e] = @ + n]
          /\ send' = [send EXCEPT ![e].payloadBytes = @ + n]
          /\ UNCHANGED error /\ (todo' = todo \/ Leave(e))
      BY <1>6 DEF flushPayload
    <2> HIDE DEF n
    <2>2. put'[e] = put[e] + n /\ \A x \in Ends \ {e} : put'[x] = put[x]
      BY <1>3, <2>1
    <2>3. /\ send'[e].state = "PAYLOAD" /\ send'[e].defer = send[e].defer
          /\ send'[e].payloadBytes = send[e].payloadBytes + n
          /\ send'[e].requestedBytes = send[e].requestedBytes
          /\ send'[e].requestedZero = send[e].requestedZero
          /\ \A x \in Ends \ {e} : send'[x] = send[x]
      BY <1>1, <1>2, <2>1 DEF SendType
    <2>4. send[e].payloadBytes \in Nat
      BY <1>2 DEF SendType
    <2>5. Pending(e)' = Len(out[e]) - (put[e] + n)
      BY <1>1, <2>2 DEF Pending
    <2>6. send'[e].payloadBytes + Pending(e)' = send[e].payloadBytes + Pending(e)
      BY <1>3, <1>4, <2>3, <2>4, <2>5 DEF Pending
    <2>7. Flushes(e)
      BY <1>1, <2>3, <2>6 DEF Flushes
    <2> QED
      BY <1>1, <2>1, <2>2, <2>3, <2>7 DEF WriteOutcome, OtherStays, SizesStay
  <1> QED
    BY <1>5, <1>6

\* A walk sends no more than is requested, and ends with all that is to be received.
LEMMA WalkFits ==
  ASSUME TypeOK, NEW e \in Ends, NEW w \in Walks(e)
  PROVE  /\ send[e].requestedBytes > 0 => send[e].payloadBytes + w.s <= send[e].requestedBytes
         /\ ~Sized(recv[e]) /\ w.ended => w.r = mmodel[e].toRecv
  <1>1. send[e] \in SendType /\ mmodel[e] \in ModelType
    BY DEF TypeOK, StreamTypes
  <1>2. /\ send[e].requestedBytes \in Nat /\ send[e].payloadBytes \in Nat
    BY <1>1 DEF SendType
  <1> DEFINE limit == IF send[e].requestedBytes > 0
                      THEN Min2(send[e].requestedBytes - send[e].payloadBytes, WriteMax)
                      ELSE Min2(mmodel[e].toSend, WriteMax)
             most == IF Sized(recv[e]) THEN 0 ELSE mmodel[e].toRecv
  <1>3. /\ w \in [s : 0 .. limit, r : 0 .. most, ended : BOOLEAN, defer : BOOLEAN]
        /\ w.ended => w.r = most
    BY DEF Walks
  <1>4. send[e].requestedBytes > 0 =>
          limit \in Int /\ limit <= send[e].requestedBytes - send[e].payloadBytes
    BY <1>2, SizeAssumption DEF Min2
  <1>5. ~Sized(recv[e]) /\ w.ended => w.r = mmodel[e].toRecv
    BY <1>3
  <1> HIDE DEF limit, most
  <1>6. w.s \in 0 .. limit
    BY <1>3
  <1>7. send[e].requestedBytes > 0 => send[e].payloadBytes + w.s <= send[e].requestedBytes
    BY <1>2, <1>4, <1>6
  <1> QED
    BY <1>5, <1>7

\* Walking the model, in the terms of the invariants.
LEMMA writePayloadOutcome ==
  ASSUME TypeOK, NEW e \in Ends, writePayload(e)
  PROVE  WriteOutcome(e)
  <1>1. PICK w \in Walks(e) :
          LET o == out[e] \o [i \in 1 .. w.s |-> Tok("data", 0)]
              n == Flushed(e, o)
              broken == reset[e] /\ w.s > 0
          IN
          /\ Writing(e, "PAYLOAD")
          /\ Pending(e) = 0
          /\ ~DoneSending(e)
          /\ out' = [out EXCEPT ![e] = o]
          /\ put' = [put EXCEPT ![e] = IF broken THEN @ ELSE @ + n]
          /\ send' = [send EXCEPT
               ![e].state = IF broken THEN "ERROR" ELSE @,
               ![e].payloadBytes = IF broken THEN @ ELSE @ + n,
               ![e].defer = IF w.defer THEN "pending" ELSE @]
          /\ error' = [error EXCEPT ![e] = IF broken THEN "WRITE" ELSE @]
          /\ recv' = [recv EXCEPT ![e].expectedBytes = @ + w.r]
          /\ mmodel' = [mmodel EXCEPT
               ![e].toSend = IF send[e].requestedBytes > 0 THEN @ ELSE @ - w.s,
               ![e].toRecv = IF send[e].requestedBytes > 0 THEN @ ELSE @ - w.r,
               ![e].ended = w.ended,
               ![e].pauses = IF w.defer THEN @ - 1 ELSE @]
          /\ Leave(e)
    BY DEF writePayload
  <1> DEFINE run == [i \in 1 .. w.s |-> Tok("data", 0)]
             o == out[e] \o run
             n == Flushed(e, o)
             broken == reset[e] /\ w.s > 0
             np == IF broken THEN put[e] ELSE put[e] + n
             st == IF broken THEN "ERROR" ELSE send[e].state
             pb == IF broken THEN send[e].payloadBytes ELSE send[e].payloadBytes + n
             df == IF w.defer THEN "pending" ELSE send[e].defer
             er == IF broken THEN "WRITE" ELSE error[e]
             eb == recv[e].expectedBytes + w.r
             ts == IF send[e].requestedBytes > 0 THEN mmodel[e].toSend
                   ELSE mmodel[e].toSend - w.s
             tr == IF send[e].requestedBytes > 0 THEN mmodel[e].toRecv
                   ELSE mmodel[e].toRecv - w.r
             ps == IF w.defer THEN mmodel[e].pauses - 1 ELSE mmodel[e].pauses
             ns == [send[e] EXCEPT !.state = st, !.payloadBytes = pb, !.defer = df]
             nr == [recv[e] EXCEPT !.expectedBytes = eb]
             nm == [mmodel[e] EXCEPT !.toSend = ts, !.toRecv = tr, !.ended = w.ended,
                                     !.pauses = ps]
  <1>2. /\ recv \in [Ends -> RecvType] /\ send \in [Ends -> SendType]
        /\ mmodel \in [Ends -> ModelType] /\ error \in [Ends -> Errors]
    BY DEF TypeOK, StreamTypes
  <1>3. /\ todo[e] # <<>> /\ Head(todo[e]) = "write" /\ send[e].state = "PAYLOAD" /\ Leave(e)
        /\ Pending(e) = 0 /\ ~DoneSending(e)
        /\ UNCHANGED <<cmd, note, transport, watch, arr, got, used, reset>>
    BY <1>1 DEF Writing
  <1>4. /\ out' = [out EXCEPT ![e] = o]
        /\ put' = [put EXCEPT ![e] = np]
        /\ error' = [error EXCEPT ![e] = er]
    BY <1>1 DEF TypeOK, StreamTypes, ChannelTypes
  <1>5. send' = [send EXCEPT ![e] = ns]
    BY <1>1, <1>2
  <1>6. recv' = [recv EXCEPT ![e] = nr]
    BY <1>1, <1>2
  <1>7. mmodel' = [mmodel EXCEPT ![e] = nm]
    BY <1>1, <1>2
  <1>8. /\ w.s \in Nat /\ w.r \in Nat /\ w.ended \in BOOLEAN /\ w.defer \in BOOLEAN
        /\ mmodel[e].toRecv - w.r \in Nat
    BY WalkBounds
  <1>9. /\ run \in Seq(Tokens) /\ Len(run) = w.s
        /\ \A i \in 1 .. Len(run) : run[i] \in {Tok("data", 0)}
    <2>1. run \in Seq(Tokens)
      BY <1>8, PayloadRun
    <2>2. Len(run) = w.s
      BY <1>8
    <2> QED
      BY <2>1, <2>2
  <1> HIDE DEF run
  <1>10. /\ out[e] \in Seq(Tokens) /\ put \in [Ends -> Nat] /\ put[e] \in Nat
         /\ put[e] = Len(out[e])
    <2>1. /\ out[e] \in Seq(Tokens) /\ put \in [Ends -> Nat] /\ put[e] \in Nat
          /\ Len(out[e]) \in Nat
      BY DEF TypeOK, ChannelTypes
    <2> QED
      BY <1>3, <2>1 DEF Pending
  <1>11. o \in Seq(Tokens) /\ Len(o) = put[e] + w.s
    <2>1. o \in Seq(Tokens) /\ Len(o) = Len(out[e]) + Len(run)
      BY <1>9, <1>10, ConcatProperties
    <2> HIDE DEF o
    <2> QED
      BY <1>9, <1>10, <2>1
  <1>12. out'[e] = o /\ \A x \in Ends \ {e} : out'[x] = out[x]
    BY <1>4 DEF TypeOK, ChannelTypes
  <1>13. Said(e)' \subseteq Said(e) \cup {Tok("data", 0)}
    BY <1>9, <1>12, SaidAppended
  <1> HIDE DEF o
  <1>14. n \in Nat /\ put[e] + n <= Len(o)
    <2>1. Len(o) >= put[e]
      BY <1>8, <1>10, <1>11
    <2> QED
      BY <1>11, <2>1, FlushedBounds
  <1> HIDE DEF n
  <1>15. put'[e] = np /\ \A x \in Ends \ {e} : put'[x] = put[x]
    BY <1>4, <1>10
  <1>16. send[e].payloadBytes \in Nat /\ send[e].requestedBytes \in Nat
    BY <1>2 DEF SendType
  <1>17. /\ st = "ERROR" \/ st = "PAYLOAD"
         /\ st = "PAYLOAD" => pb + (Len(o) - np) = send[e].payloadBytes + w.s
    <2>1. CASE broken
      BY <2>1
    <2>2. CASE ~broken
      <3>1. st = "PAYLOAD" /\ pb = send[e].payloadBytes + n /\ np = put[e] + n
        BY <1>3, <2>2
      <3> HIDE DEF st, pb, np
      <3>2. Len(o) - np = w.s - n
        <4>1. \A a, b, c \in Nat : (a + b) - (a + c) = b - c
          OBVIOUS
        <4>2. put[e] \in Nat /\ w.s \in Nat /\ n \in Nat
          BY <1>8, <1>10, <1>14
        <4>3. (put[e] + w.s) - (put[e] + n) = w.s - n
          BY <4>1, <4>2
        <4> QED
          BY <1>11, <3>1, <4>3
      <3>3. pb + (w.s - n) = send[e].payloadBytes + w.s
        BY <1>8, <1>14, <1>16, <3>1
      <3> QED
        BY <3>1, <3>2, <3>3
    <2> HIDE DEF broken
    <2> QED
      BY <2>1, <2>2
  <1>18. /\ recv[e].expectedBytes \in Nat /\ mmodel[e].toRecv \in Nat
    BY <1>2 DEF RecvType, ModelType
  <1>19. send[e].requestedBytes = 0 => eb + tr = recv[e].expectedBytes + mmodel[e].toRecv
    BY <1>8, <1>18
  <1>20. ~Sized(recv[e]) /\ send[e].requestedBytes = 0 /\ w.ended => tr = 0
    BY <1>18, WalkFits
  <1>21. send[e].requestedBytes > 0 => send[e].payloadBytes + w.s <= send[e].requestedBytes
    BY WalkFits
  <1>22. error[e] # "NONE" => er # "NONE"
    OBVIOUS
  <1> HIDE DEF np, pb, df, st, eb, ts, tr, ps, er
  <1>23. /\ ns.state = st /\ ns.payloadBytes = pb
         /\ ns.requestedBytes = send[e].requestedBytes
         /\ ns.requestedZero = send[e].requestedZero
    BY <1>2 DEF SendType
  <1>24. /\ nr.state = recv[e].state /\ nr.payloadBytes = recv[e].payloadBytes
         /\ nr.requestedBytes = recv[e].requestedBytes
         /\ nr.requestedZero = recv[e].requestedZero
         /\ nr.modelBytes = recv[e].modelBytes
         /\ nr.expectedBytes = eb
    BY <1>2 DEF RecvType
  <1>25. nm.loaded = mmodel[e].loaded /\ nm.toRecv = tr /\ nm.ended = w.ended
    BY <1>2 DEF ModelType
  <1> HIDE DEF ns, nr, nm
  <1>26. /\ send'[e] = ns /\ recv'[e] = nr /\ mmodel'[e] = nm /\ error'[e] = er
         /\ OtherStays(e)
    BY <1>2, <1>4, <1>5, <1>6, <1>7 DEF OtherStays
  <1>27. Pending(e)' = Len(o) - np
    BY <1>12, <1>15 DEF Pending
  <1>28. \/ send'[e].state = "ERROR"
         \/ /\ send'[e].state = "PAYLOAD"
            /\ send[e].requestedBytes > 0 =>
                 send'[e].payloadBytes + Pending(e)' <= send[e].requestedBytes
    BY <1>17, <1>21, <1>23, <1>26, <1>27
  <1>31. PayloadAppended(e)
    <2>1. Len(out[e]) \in Nat /\ Len(run) \in Nat
      BY <1>8, <1>9, <1>10
    <2>2. /\ Len(out'[e]) = put[e] + w.s
          /\ \A i \in 1 .. Len(out[e]) : out'[e][i] = out[e][i]
          /\ \A i \in Len(out[e]) + 1 .. Len(out[e]) + Len(run) :
               out'[e][i] = run[i - Len(out[e])]
      BY <1>9, <1>10, <1>11, <1>12, <2>1 DEF o
    <2>3. ASSUME NEW i \in Len(out[e]) + 1 .. Len(out'[e])
          PROVE  out'[e][i].t = "data"
      <3>1. i \in Len(out[e]) + 1 .. Len(out[e]) + Len(run) /\ i - Len(out[e]) \in 1 .. Len(run)
        BY <1>9, <1>10, <2>1, <2>2
      <3>2. out'[e][i] = Tok("data", 0)
        BY <1>9, <2>2, <3>1
      <3> QED
        BY <3>2 DEF Tok
    <2>4. Len(out[e]) <= Len(out'[e])
      BY <1>8, <1>10, <2>1, <2>2
    <2>5. send[e].requestedBytes > 0 =>
            send[e].payloadBytes + Len(out'[e]) <= send[e].requestedBytes + put[e]
      <3>1. \A a, b, c, d \in Nat : a + c <= b => a + (d + c) <= b + d
        OBVIOUS
      <3>2. /\ send[e].payloadBytes \in Nat /\ send[e].requestedBytes \in Nat
            /\ w.s \in Nat /\ put[e] \in Nat
        BY <1>8, <1>10, <1>16
      <3> QED
        BY <1>21, <2>2, <3>1, <3>2
    <2>6. st = "PAYLOAD" => np + send[e].payloadBytes = put[e] + pb
      <3>1. st = "PAYLOAD" => pb = send[e].payloadBytes + n /\ np = put[e] + n
        BY DEF st, np, pb
      <3>2. \A a, b, c \in Nat : (b + c) + a = b + (a + c)
        OBVIOUS
      <3>3. send[e].payloadBytes \in Nat /\ put[e] \in Nat /\ n \in Nat
        BY <1>10, <1>14, <1>16
      <3>4. (put[e] + n) + send[e].payloadBytes = put[e] + (send[e].payloadBytes + n)
        BY <3>2, <3>3
      <3> QED
        BY <3>1, <3>4
    <2>7. send'[e].state = "PAYLOAD" =>
            put'[e] + send[e].payloadBytes = put[e] + send'[e].payloadBytes
      BY <1>15, <1>23, <1>26, <2>6
    <2> QED
      BY <2>2, <2>3, <2>4, <2>5, <2>7 DEF PayloadAppended
  <1>29. WalksOn(e)
    BY <1>3, <1>13, <1>19, <1>20, <1>24, <1>25, <1>26, <1>28, <1>31 DEF WalksOn
  <1>30. SizesStay(e)
    BY <1>23, <1>24, <1>26 DEF SizesStay
  <1> QED
    BY <1>3, <1>12, <1>15, <1>22, <1>26, <1>29, <1>30 DEF WriteOutcome

\* Every stage of onWritable has one of these outcomes.
LEMMA onWritableOutcome ==
  ASSUME TypeOK, NEW e \in Ends, onWritable(e)
  PROVE  WriteOutcome(e)
  BY writeCommandOutcome, LineStagesOutcome, flushPayloadOutcome, writePayloadOutcome,
    SkipOutcome DEF onWritable

-----------------------------------------------------------------------------
(* What the other steps do to the streams.                                  *)

\* A step at e that reads and writes nothing: it may fail what is not done, and it may
\* take what the model announced for all there is.
EventOutcome(e) ==
  /\ UNCHANGED <<cmd, out, put>>
  /\ OtherStays(e)
  /\ mmodel'[e] = mmodel[e]
  /\ SizesStay(e)
  /\ recv'[e].expectedBytes = recv[e].expectedBytes
  /\ send'[e].payloadBytes = send[e].payloadBytes
  /\ error[e] # "NONE" => error'[e] # "NONE"
  /\ \/ recv'[e].state \in {recv[e].state, "ERROR"}
     \/ MetExpected(e) /\ recv'[e].state = "SUCCESS"
  /\ \/ send'[e].state = send[e].state
     \/ send'[e].state = "ERROR" /\ send[e].state # "NONE"

\* A step that leaves all streams and logs alone.
LEMMA SameOutcome ==
  ASSUME NEW e \in Ends, UNCHANGED <<cmd, recv, error, mmodel, out, put>>,
         send' = send \/ \E d : send' = [send EXCEPT ![e].defer = d], TypeOK
  PROVE  EventOutcome(e)
  <1>1. /\ send'[e].state = send[e].state
        /\ send'[e].payloadBytes = send[e].payloadBytes
        /\ send'[e].requestedBytes = send[e].requestedBytes
        /\ send'[e].requestedZero = send[e].requestedZero
        /\ \A x \in Ends \ {e} : send'[x] = send[x]
    BY DEF TypeOK, StreamTypes, SendType
  <1> QED
    BY <1>1 DEF EventOutcome, OtherStays, SizesStay

\* finish and hangup take a stream for complete only if MetExpected says so.
LEMMA CompletionOutcome ==
  ASSUME TypeOK, NEW e \in Ends, finish(e) \/ hangup(e)
  PROVE  EventOutcome(e)
  <1>1. /\ UNCHANGED <<cmd, mmodel, out, put>>
        /\ recv \in [Ends -> RecvType] /\ send \in [Ends -> SendType]
        /\ error \in [Ends -> Errors]
    BY DEF finish, hangup, io, TypeOK, StreamTypes
  <1>2. \E st : /\ recv' = [recv EXCEPT ![e].state = st]
                /\ st \in {recv[e].state, "ERROR"} \/ (MetExpected(e) /\ st = "SUCCESS")
    <2>1. CASE finish(e)
      <3> DEFINE st == IF MetExpected(e) THEN "SUCCESS" ELSE recv[e].state
      <3>1. recv' = [recv EXCEPT ![e].state = st]
        BY <1>1, <2>1 DEF finish
      <3> QED
        BY <3>1
    <2>2. CASE hangup(e)
      <3> DEFINE st == IF ~StreamDone(e) /\ WantsRead(e) THEN "ERROR"
                       ELSE IF MetExpected(e) THEN "SUCCESS" ELSE recv[e].state
      <3>1. recv' = [recv EXCEPT ![e].state = st]
        BY <1>1, <2>2 DEF hangup
      <3> QED
        BY <3>1
    <2> QED
      BY <2>1, <2>2
  <1>3. PICK st : /\ recv' = [recv EXCEPT ![e].state = st]
                  /\ st \in {recv[e].state, "ERROR"} \/ (MetExpected(e) /\ st = "SUCCESS")
    BY <1>2
  <1>4. st \in RecvStates
    BY <1>1, <1>3 DEF RecvStates, RecvType
  <1>5. RecvMoves(e, st) /\ recv'[e].expectedBytes = recv[e].expectedBytes
    BY <1>3, <1>4, SetState, SetStateExpected
  <1>6. \E ss : /\ send' = [send EXCEPT ![e].state = ss]
                /\ ss = send[e].state \/ (ss = "ERROR" /\ send[e].state # "NONE")
    <2>1. CASE finish(e)
      <3>1. send' = [send EXCEPT ![e].state = send[e].state]
        BY <1>1, <2>1 DEF finish, SendType
      <3> QED
        BY <3>1
    <2>2. CASE hangup(e)
      <3> DEFINE ss == IF ~StreamDone(e) /\ WantsWrite(e) /\ send[e].defer = "none"
                       THEN "ERROR" ELSE send[e].state
      <3>1. send' = [send EXCEPT ![e].state = ss]
        BY <1>1, <2>2 DEF hangup
      <3> QED
        BY <3>1 DEF WantsWrite
    <2> QED
      BY <2>1, <2>2
  <1>7. PICK ss : /\ send' = [send EXCEPT ![e].state = ss]
                  /\ ss = send[e].state \/ (ss = "ERROR" /\ send[e].state # "NONE")
    BY <1>6
  <1>8. ss \in SendStates
    BY <1>1, <1>7 DEF SendStates, SendType
  <1>9. /\ send'[e].state = ss
        /\ send'[e].requestedBytes = send[e].requestedBytes
        /\ send'[e].requestedZero = send[e].requestedZero
        /\ send'[e].payloadBytes = send[e].payloadBytes
        /\ \A x \in Ends \ {e} : send'[x] = send[x]
    <2>1. send' = [send EXCEPT ![e].state = ss]
      BY <1>7
    <2> QED
      BY <2>1, <1>8, SendFields
  <1>10. /\ error[e] # "NONE" => error'[e] # "NONE"
         /\ \A x \in Ends \ {e} : error'[x] = error[x]
    BY <1>1 DEF finish, hangup
  <1> QED
    BY <1>1, <1>3, <1>5, <1>7, <1>9, <1>10 DEF EventOutcome, OtherStays, SizesStay, RecvMoves

\* A stream that is given up has an error.
LEMMA GivenUpOutcome ==
  ASSUME TypeOK, NEW e \in Ends, connectFails(e) \/ onCheckTimeout(e)
  PROVE  EventOutcome(e)
  <1>1. /\ UNCHANGED <<cmd, recv, send, mmodel, out, put>> /\ error \in [Ends -> Errors]
    BY DEF connectFails, onCheckTimeout, io, TypeOK, StreamTypes
  <1>2. error'[e] # "NONE" /\ \A x \in Ends \ {e} : error'[x] = error[x]
    BY <1>1 DEF connectFails, onCheckTimeout
  <1> QED
    BY <1>1, <1>2 DEF EventOutcome, OtherStays, SizesStay

\* Every step has one of the three kinds of outcome at one of the ends.
LEMMA NextOutcome ==
  ASSUME TypeOK, EndsInOrder, [Next]_vars
  PROVE  \E e \in Ends : ReadOutcome(e) \/ WriteOutcome(e) \/ EventOutcome(e)
  <1>1. CASE UNCHANGED vars
    <2>1. "client" \in Ends
      BY DEF Ends
    <2> QED
      BY <1>1, <2>1, SameOutcome DEF vars
  <1>2. ASSUME NEW e \in Ends,
               \/ onEvent(e) \/ connect(e) \/ onDeferTimerExpired(e) \/ clearBarrier(e)
               \/ barrierPasses(e) \/ deliver(e) \/ Reset(e)
        PROVE  EventOutcome(e)
    BY <1>2, SameOutcome DEF onEvent, connect, onDeferTimerExpired, clearBarrier,
      barrierPasses, deliver, Reset, stream, io
  <1>3. ASSUME NEW e \in Ends, step(e)
        PROVE  ReadOutcome(e) \/ WriteOutcome(e) \/ EventOutcome(e)
    BY <1>2, <1>3, onReadableOutcome, onWritableOutcome, CompletionOutcome, GivenUpOutcome
      DEF step
  <1>4. CASE ended
    BY <1>1, <1>4 DEF ended
  <1>5. CASE \E e \in Ends : step(e) \/ barrierPasses(e) \/ onCheckTimeout(e)
                             \/ deliver(e) \/ peerResets(e) \/ networkResets(e)
    BY <1>2, <1>3, <1>5, GivenUpOutcome DEF peerResets, networkResets
  <1> QED
    BY <1>1, <1>4, <1>5 DEF Next

-----------------------------------------------------------------------------
(* The verdicts, the bounds of writing and the acceptance of the command.   *)

\* The parts of the invariant that are about what is written and accepted.
Agreed ==
  /\ \A e \in Ends : WritesInBounds(e)
  /\ VerdictsLogged /\ ServerAccepts /\ ClientAccepted

\* The verdicts in terms of the tokens that were logged.
VerdictsSaid ==
  /\ Tok("auth", 0) \in Said("client") => cmd.auth
  /\ Tok("hdr", 0) \in Said("client") => cmd.header
  /\ Tok("hdr", 0) \in Said("server") => Accepted

\* Both forms of the verdicts say the same.
LEMMA VerdictForms == VerdictsLogged <=> VerdictsSaid
  BY DEF VerdictsLogged, VerdictsSaid, Said

\* The same of the next state.
LEMMA VerdictFormsNext == VerdictsLogged' <=> VerdictsSaid'
  BY VerdictForms, PTL

\* Tokens differ in their kinds or in their values.
LEMMA TokensDiffer ==
  \A t, v, u, w : Tok(t, v) = Tok(u, w) <=> t = u /\ v = w
  BY DEF Tok

\* The two ends by name.
LEMMA EndNames ==
  /\ "client" \in Ends /\ "server" \in Ends
  /\ \A e \in Ends : e = "client" \/ e = "server"
  /\ Peer("client") = "server" /\ Peer("server") = "client"
  BY DEF Ends, Peer

\* What the log of the peer says about the command.
LEMMA LoggedMeans ==
  ASSUME VerdictsLogged
  PROVE  /\ Logged("server", Tok("auth", 0)) => cmd.auth
         /\ Logged("server", Tok("hdr", 0)) => cmd.header
         /\ Logged("client", Tok("hdr", 0)) => Accepted
  BY EndNames DEF VerdictsLogged, Logged

\* A step at the other end leaves the writing of this end alone.
LEMMA WritesFrame ==
  ASSUME NEW x \in Ends, WritesInBounds(x), recv'[x] = recv[x], send'[x] = send[x],
         error'[x] = error[x], out'[x] = out[x], put'[x] = put[x]
  PROVE  WritesInBounds(x)'
  BY DEF WritesInBounds, Pending, Sized

\* A step at the client leaves the server's acceptance alone.
LEMMA ServerFrame ==
  ASSUME ServerAccepts, OtherStays("client"), cmd' = cmd
  PROVE  ServerAccepts'
  BY EndNames DEF ServerAccepts, OtherStays, Accepted

\* A step at the server leaves the client's acceptance alone.
LEMMA ClientFrame ==
  ASSUME ClientAccepted, OtherStays("server"), cmd' = cmd
  PROVE  ClientAccepted'
  BY EndNames DEF ClientAccepted, OtherStays, Accepted, AcceptedOrEmpty, Sized

\* What the types say of the fields at one end.
LEMMA EndTypes ==
  ASSUME TypeOK, NEW e \in Ends
  PROVE  /\ recv[e] \in RecvType /\ send[e] \in SendType /\ mmodel[e] \in ModelType
         /\ recv[e].requestedBytes \in Nat /\ recv[e].payloadBytes \in Nat
         /\ recv[e].expectedBytes \in Nat /\ recv[e].requestedZero \in BOOLEAN
         /\ send[e].requestedBytes \in Nat /\ send[e].payloadBytes \in Nat
         /\ send[e].requestedZero \in BOOLEAN
         /\ mmodel[e].toRecv \in Nat
         /\ Pending(e) \in Nat
  <1>1. recv[e] \in RecvType /\ send[e] \in SendType /\ mmodel[e] \in ModelType
    BY DEF TypeOK, StreamTypes
  <1>2. Len(out[e]) \in Nat /\ put[e] \in Nat /\ put[e] <= Len(out[e])
    BY DEF TypeOK, ChannelTypes, CountersInOrder
  <1>3. Pending(e) \in Nat
    BY <1>2 DEF Pending
  <1> QED
    BY <1>1, <1>3 DEF RecvType, SendType, ModelType

\* The same of the next state.
LEMMA EndTypesNext ==
  ASSUME TypeOK', NEW e \in Ends
  PROVE  /\ send'[e].payloadBytes \in Nat /\ send'[e].requestedBytes \in Nat
         /\ Pending(e)' \in Nat
  <1>1. send'[e] \in SendType
    BY DEF TypeOK, StreamTypes
  <1>2. Len(out'[e]) \in Nat /\ put'[e] \in Nat /\ put'[e] <= Len(out'[e])
    BY DEF TypeOK, ChannelTypes, CountersInOrder
  <1>3. Pending(e)' \in Nat
    BY <1>2 DEF Pending
  <1> QED
    BY <1>1, <1>3 DEF SendType

\* Reading keeps the bounds of writing: a server answers from NONE.
LEMMA ReadKeepsWrites ==
  ASSUME TypeOK, EndsInOrder', Agreed, NEW e \in Ends, ReadOutcome(e)
  PROVE  WritesInBounds(e)'
  <1>1. WritesInBounds(e)
    BY DEF Agreed
  <1>2. Pending(e)' = Pending(e)
    BY DEF ReadOutcome, Pending
  <1>3. recv'[e].state = "ERROR" => error'[e] # "NONE"
    BY DEF EndsInOrder, EndInv, StatesAgree
  <1>4. error'[e] = "NONE" => error[e] = "NONE"
    BY DEF ReadOutcome
  <1>5. CASE NoVerdict(e) \/ AfterHandshake(e) \/ Authenticates(e) \/ IsAccepted(e)
    BY <1>1, <1>2, <1>4, <1>5 DEF NoVerdict, AfterHandshake, Authenticates, IsAccepted,
      Stays, WritesInBounds, Sized
  <1>6. CASE recv[e].state = "MODEL" /\ (Refuses(e) \/ Answers(e))
    <2>1. e = "server"
      BY <1>6, EndNames DEF Agreed, ClientAccepted
    <2>2. send[e].state = "NONE" /\ send[e].payloadBytes = 0
      BY <1>1, <1>6, <2>1 DEF WritesInBounds
    <2> QED
      BY <1>6, <2>1, <2>2 DEF Refuses, Answers, WritesInBounds
  <1>7. CASE recv[e].state # "MODEL" /\ Refuses(e)
    <2>1. CASE e = "client"
      BY <1>1, <1>2, <1>3, <1>7, <2>1 DEF Refuses, WritesInBounds
    <2>2. CASE e # "client"
      <3>1. e = "server" /\ send[e].state = "NONE" /\ send[e].payloadBytes = 0
        BY <1>1, <1>7, <2>2, EndNames DEF WritesInBounds, Refuses
      <3> QED
        BY <1>7, <2>2, <3>1 DEF Refuses, WritesInBounds
    <2> QED
      BY <2>1, <2>2
  <1>8. CASE TakesHeader(e)
    <2>1. send[e].state = "NONE" /\ send[e].payloadBytes = 0
      BY <1>1, <1>8 DEF WritesInBounds, TakesHeader
    <2> QED
      BY <1>8, <2>1 DEF TakesHeader, WritesInBounds
  <1> QED
    BY <1>5, <1>6, <1>7, <1>8 DEF ReadOutcome, Answers

\* Reading at the server keeps its acceptance.
LEMMA ReadKeepsServer ==
  ASSUME EndsInOrder', Agreed, ReadOutcome("server")
  PROVE  ServerAccepts'
  <1> DEFINE e == "server"
  <1>1. /\ cmd' = cmd /\ (error'[e] = "NONE" => error[e] = "NONE")
        /\ ServerAccepts
    BY DEF ReadOutcome, Agreed
  <1>2. recv'[e].state = "ERROR" => error'[e] # "NONE"
    BY EndNames DEF EndsInOrder, EndInv, StatesAgree
  <1>3. /\ Logged(e, Tok("auth", 0)) => cmd.auth
        /\ Logged(e, Tok("hdr", 0)) => cmd.header
    BY LoggedMeans DEF Agreed
  <1>4. Accepted' <=> Accepted
    BY <1>1 DEF Accepted
  <1>5. CASE NoVerdict(e) \/ AfterHandshake(e)
    BY <1>1, <1>4, <1>5 DEF NoVerdict, AfterHandshake, Stays, ServerAccepts
  <1>6. CASE Authenticates(e)
    BY <1>1, <1>3, <1>4, <1>6 DEF Authenticates, Stays, ServerAccepts
  <1>7. CASE Refuses(e)
    BY <1>1, <1>2, <1>4, <1>7 DEF Refuses, ServerAccepts
  <1>8. CASE TakesHeader(e)
    BY <1>1, <1>3, <1>4, <1>8 DEF TakesHeader, ServerAccepts
  <1>9. CASE Answers(e)
    <2>1. Accepted
      BY <1>1, <1>9 DEF Answers, ServerAccepts, Accepted
    <2> QED
      BY <1>1, <1>4, <1>9, <2>1 DEF Answers, ServerAccepts, Accepted
  <1> QED
    BY <1>5, <1>6, <1>7, <1>8, <1>9 DEF ReadOutcome, IsAccepted

\* Reading at the client keeps its acceptance.
LEMMA ReadKeepsClient ==
  ASSUME TypeOK, EndsInOrder', Agreed, ReadOutcome("client")
  PROVE  ClientAccepted'
  <1> DEFINE e == "client"
  <1>1. /\ cmd' = cmd /\ (error'[e] = "NONE" => error[e] = "NONE")
        /\ recv'[e].expectedBytes = recv[e].expectedBytes
        /\ ClientAccepted
    BY DEF ReadOutcome, Agreed
  <1>2. recv'[e].state = "ERROR" => error'[e] # "NONE"
    BY EndNames DEF EndsInOrder, EndInv, StatesAgree
  <1>3. Logged(e, Tok("hdr", 0)) => Accepted
    BY LoggedMeans DEF Agreed
  <1>4. Accepted' <=> Accepted
    BY <1>1 DEF Accepted
  <1>5. recv[e].state # "MODEL"
    BY <1>1 DEF ClientAccepted
  <1>6. CASE NoVerdict(e) \/ Authenticates(e)
    BY <1>1, <1>4, <1>6 DEF NoVerdict, Authenticates, Stays, ClientAccepted, AcceptedOrEmpty,
      Sized
  <1>7. CASE AfterHandshake(e) \/ IsAccepted(e)
    <2>1. Accepted
      BY <1>1, <1>3, <1>7 DEF AfterHandshake, IsAccepted, ClientAccepted
    <2> QED
      BY <1>1, <1>4, <1>7, <2>1 DEF AfterHandshake, IsAccepted, Stays, ClientAccepted,
        AcceptedOrEmpty, Sized
  <1>8. CASE Refuses(e)
    BY <1>1, <1>2, <1>4, <1>5, <1>8 DEF Refuses, ClientAccepted, AcceptedOrEmpty, Sized
  <1> QED
    BY <1>5, <1>6, <1>7, <1>8 DEF ReadOutcome, TakesHeader, Answers

\* Every stage of onReadable keeps what was agreed.
LEMMA ReadKeepsAgreed ==
  ASSUME TypeOK, EndsInOrder', Agreed, NEW e \in Ends, ReadOutcome(e)
  PROVE  Agreed'
  <1>1. UNCHANGED <<cmd, out, put>> /\ OtherStays(e)
    BY DEF ReadOutcome
  <1>2. ASSUME NEW x \in Ends
        PROVE  WritesInBounds(x)'
    <2>1. CASE x = e
      BY <2>1, ReadKeepsWrites
    <2>2. CASE x # e
      BY <1>1, <2>2, WritesFrame DEF OtherStays, Agreed
    <2> QED
      BY <2>1, <2>2
  <1>3. VerdictsLogged'
    BY <1>1 DEF Agreed, VerdictsLogged, Accepted
  <1>4. ServerAccepts'
    BY <1>1, ServerFrame, ReadKeepsServer, EndNames DEF Agreed
  <1>5. ClientAccepted'
    BY <1>1, ClientFrame, ReadKeepsClient, EndNames DEF Agreed
  <1> QED
    BY <1>2, <1>3, <1>4, <1>5 DEF Agreed

\* Writing keeps the bounds of writing.
LEMMA WriteKeepsWrites ==
  ASSUME TypeOK, TypeOK', EndsInOrder', Agreed, NEW e \in Ends, WriteOutcome(e)
  PROVE  WritesInBounds(e)'
  <1>1. WritesInBounds(e)
    BY DEF Agreed
  <1>2. send'[e].state = "ERROR" => error'[e] # "NONE"
    BY DEF EndsInOrder, EndInv, StatesAgree
  <1>3. /\ error'[e] = "NONE" => error[e] = "NONE"
        /\ send'[e].requestedBytes = send[e].requestedBytes
        /\ send'[e].requestedZero = send[e].requestedZero
    BY DEF WriteOutcome, SizesStay
  <1>4. /\ send[e].payloadBytes \in Nat /\ send[e].requestedBytes \in Nat /\ Pending(e) \in Nat
    BY EndTypes
  <1>5. /\ send'[e].payloadBytes \in Nat /\ Pending(e)' \in Nat
    BY EndTypesNext
  <1>6. e = "server" => send[e].state # "COMMAND"
    BY DEF Agreed, ServerAccepts
  <1>7. ASSUME recv'[e].state = recv[e].state,
               send'[e].state = "NONE" => send[e].state = "NONE",
               send[e].state # "NONE" \/ send'[e].state = "NONE"
        PROVE  e = "server" /\ recv'[e].state \in {"AUTHENTICATE", "HEADER", "MODEL"} =>
                 send'[e].state = "NONE"
    BY <1>1, <1>7 DEF WritesInBounds
  <1>8. CASE SaysCommand(e)
    <2>1. e # "server" /\ send[e].payloadBytes = 0
      BY <1>1, <1>6, <1>8 DEF SaysCommand, WritesInBounds
    <2>2. /\ send'[e].payloadBytes = 0
          /\ send'[e].state = "PAYLOAD" => Pending(e)' = 0
          /\ send'[e].state \in {"COMMAND", "PAYLOAD", "ERROR"}
      BY <1>8, <2>1 DEF SaysCommand, LineOut
    <2>3. send'[e].state = "PAYLOAD" /\ send'[e].requestedBytes > 0 =>
            send'[e].payloadBytes + Pending(e)' <= send'[e].requestedBytes
      BY <1>3, <1>4, <2>2
    <2> QED
      BY <1>3, <2>1, <2>2, <2>3 DEF WritesInBounds
  <1>9. CASE SaysResponse(e)
    <2>1. send[e].payloadBytes = 0
      BY <1>1, <1>9 DEF SaysResponse, WritesInBounds
    <2>2. /\ send'[e].payloadBytes = 0 /\ recv'[e].state = recv[e].state
          /\ send'[e].state = "PAYLOAD" => Pending(e)' = 0
          /\ send'[e].state \in {"RESPONSE", "PAYLOAD", "SUCCESS", "ERROR"}
          /\ send'[e].state = "SUCCESS" => error[e] # "NONE"
          /\ send[e].state # "NONE"
      BY <1>9, <2>1 DEF SaysResponse, LineOut
    <2>3. send'[e].state = "PAYLOAD" /\ send'[e].requestedBytes > 0 =>
            send'[e].payloadBytes + Pending(e)' <= send'[e].requestedBytes
      BY <1>3, <1>4, <2>2
    <2> QED
      BY <1>3, <1>7, <2>2, <2>3 DEF WritesInBounds
  <1>10. CASE SaysChecksum(e)
    <2>1. /\ send'[e].state \in {"CHECKSUM", "FOOTER", "ERROR"} /\ send[e].requestedBytes > 0
          /\ send[e].state = "CHECKSUM" /\ recv'[e].state = recv[e].state
      BY <1>10 DEF SaysChecksum, LineOut
    <2>2. send'[e].requestedBytes # 0 /\ send'[e].requestedBytes > 0
      BY <1>3, <1>4, <2>1
    <2> QED
      BY <1>7, <2>1, <2>2 DEF WritesInBounds, Sized
  <1>11. CASE SaysFooter(e)
    <2>1. /\ send'[e].state \in {"FOOTER", "FLUSH", "ERROR"} /\ Sized(send[e])
          /\ send'[e].state = "FLUSH" => Pending(e)' = 0
          /\ send[e].state = "FOOTER" /\ recv'[e].state = recv[e].state
      BY <1>11 DEF SaysFooter, LineOut
    <2>2. Sized(send'[e])
      BY <1>3, <2>1 DEF Sized
    <2> QED
      BY <1>7, <2>1, <2>2 DEF WritesInBounds
  <1>12. CASE Skips(e)
    <2>1. /\ Pending(e)' = Pending(e) /\ recv'[e].state = recv[e].state
          /\ error'[e] = error[e] /\ send'[e].payloadBytes = send[e].payloadBytes
      BY <1>12 DEF Skips, Pending
    <2>2. CASE send'[e].state = send[e].state
      BY <1>1, <1>3, <2>1, <2>2 DEF WritesInBounds, Sized
    <2>3. CASE send'[e].state # send[e].state
      BY <1>1, <1>3, <1>7, <1>12, <2>1, <2>3 DEF Skips, WritesInBounds, Sized
    <2> QED
      BY <2>2, <2>3
  <1>13. CASE Flushes(e)
    <2>1. send[e].state = "PAYLOAD" /\ recv'[e].state = recv[e].state
      BY <1>13 DEF Flushes
    <2>2. CASE send'[e].state = "ERROR"
      BY <1>2, <1>7, <2>1, <2>2 DEF WritesInBounds
    <2>3. CASE send'[e].state = "PAYLOAD"
               /\ send'[e].payloadBytes + Pending(e)' = send[e].payloadBytes + Pending(e)
      <3>1. send'[e].requestedBytes > 0 =>
              send'[e].payloadBytes + Pending(e)' <= send'[e].requestedBytes
        BY <1>1, <1>3, <2>1, <2>3 DEF WritesInBounds
      <3> QED
        BY <1>7, <2>1, <2>3, <3>1 DEF WritesInBounds
    <2> QED
      BY <1>13, <2>2, <2>3 DEF Flushes
  <1>14. CASE WalksOn(e)
    <2>1. send[e].state = "PAYLOAD" /\ recv'[e].state = recv[e].state
      BY <1>14 DEF WalksOn
    <2>2. CASE send'[e].state = "ERROR"
      BY <1>2, <1>7, <2>1, <2>2 DEF WritesInBounds
    <2>3. CASE /\ send'[e].state = "PAYLOAD"
               /\ send[e].requestedBytes > 0 =>
                    send'[e].payloadBytes + Pending(e)' <= send[e].requestedBytes
      BY <1>3, <1>7, <2>1, <2>3 DEF WritesInBounds
    <2> QED
      BY <1>14, <2>2, <2>3 DEF WalksOn
  <1> QED
    BY <1>8, <1>9, <1>10, <1>11, <1>12, <1>13, <1>14 DEF WriteOutcome

\* Writing keeps the verdicts: a server's good answer means that it accepted.
LEMMA WriteKeepsVerdicts ==
  ASSUME Agreed, NEW e \in Ends, WriteOutcome(e)
  PROVE  VerdictsLogged'
  <1> SUFFICES VerdictsSaid'
    BY VerdictFormsNext
  <1>1. VerdictsSaid /\ ServerAccepts /\ ClientAccepted
    BY VerdictForms DEF Agreed
  <1>2. cmd' = cmd /\ \A x \in Ends \ {e} : Said(x)' = Said(x)
    BY DEF WriteOutcome, Said
  <1>3. Accepted' <=> Accepted
    BY <1>2 DEF Accepted
  <1> DEFINE verdicts == {Tok("auth", 0), Tok("hdr", 0)}
  <1>4. ASSUME \A tok \in verdicts : tok \in Said(e)' => tok \in Said(e)
        PROVE  VerdictsSaid'
    BY <1>1, <1>2, <1>3, <1>4, EndNames DEF VerdictsSaid
  <1>5. CASE SaysCommand(e)
    <2>1. e = "client"
      BY <1>1, <1>5, EndNames DEF SaysCommand, ServerAccepts
    <2>2. Said(e)' \subseteq Said(e) \cup {Tok("auth", Verdict(cmd.auth)),
                                           Tok("hdr", Verdict(cmd.header)), Tok("nl", 0),
                                           Tok("model", 0)}
      BY <1>5 DEF SaysCommand, LineOut
    <2>3. Tok("auth", 0) \in Said(e)' => Tok("auth", 0) \in Said(e) \/ cmd.auth
      BY <2>2, TokensDiffer DEF Verdict
    <2>4. Tok("hdr", 0) \in Said(e)' => Tok("hdr", 0) \in Said(e) \/ cmd.header
      BY <2>2, TokensDiffer DEF Verdict
    <2> QED
      BY <1>1, <1>2, <1>3, <2>1, <2>3, <2>4, EndNames DEF VerdictsSaid
  <1>6. CASE SaysResponse(e)
    <2>1. e = "server"
      BY <1>1, <1>6, EndNames DEF SaysResponse, ClientAccepted
    <2>2. Said(e)' \subseteq Said(e) \cup {Tok("auth", 0),
                                           Tok("hdr", Verdict(error[e] = "NONE")), Tok("nl", 0)}
      BY <1>6 DEF SaysResponse, LineOut
    <2>3. Tok("hdr", 0) \in Said(e)' => Tok("hdr", 0) \in Said(e) \/ error[e] = "NONE"
      BY <2>2, TokensDiffer DEF Verdict
    <2>4. error[e] = "NONE" => Accepted
      BY <1>1, <1>6, <2>1 DEF SaysResponse, ServerAccepts
    <2> QED
      BY <1>1, <1>2, <1>3, <2>1, <2>3, <2>4, EndNames DEF VerdictsSaid
  <1>7. CASE SaysChecksum(e) \/ SaysFooter(e) \/ WalksOn(e)
    <2>1. \E S : /\ Said(e)' \subseteq Said(e) \cup S
                 /\ \/ \E v : S = {Tok("sum", v), Tok("nl", 0)}
                    \/ S = {Tok("fin", 0), Tok("nl", 0)}
                    \/ S = {Tok("data", 0)}
      BY <1>7 DEF SaysChecksum, SaysFooter, WalksOn, LineOut
    <2>2. \A tok \in verdicts : tok \in Said(e)' => tok \in Said(e)
      BY <2>1, TokensDiffer
    <2> QED
      BY <1>4, <2>2
  <1>8. CASE Skips(e) \/ Flushes(e)
    BY <1>4, <1>8 DEF Skips, Flushes, Said
  <1> QED
    BY <1>5, <1>6, <1>7, <1>8 DEF WriteOutcome

\* Writing at the server keeps its acceptance.
LEMMA WriteKeepsServer ==
  ASSUME Agreed, WriteOutcome("server")
  PROVE  ServerAccepts'
  <1> DEFINE e == "server"
  <1>1. /\ cmd' = cmd /\ (error'[e] = "NONE" => error[e] = "NONE")
        /\ ServerAccepts
    BY DEF WriteOutcome, Agreed
  <1>2. Accepted' <=> Accepted
    BY <1>1 DEF Accepted
  <1>3. send[e].state # "COMMAND"
    BY <1>1 DEF ServerAccepts
  <1>4. recv'[e].state = recv[e].state /\ mmodel'[e].loaded = mmodel[e].loaded
    BY <1>3 DEF WriteOutcome, SaysCommand, SaysResponse, SaysChecksum, SaysFooter, Skips,
      Flushes, WalksOn, LineOut
  <1>5. /\ send'[e].state # "COMMAND"
        /\ send'[e].state # "NONE" => send[e].state # "NONE"
    BY <1>3 DEF WriteOutcome, SaysCommand, SaysResponse, SaysChecksum, SaysFooter, Skips,
      Flushes, WalksOn, LineOut
  <1> QED
    BY <1>1, <1>2, <1>4, <1>5 DEF ServerAccepts

\* Writing at the client keeps its acceptance: it ends its own sending only with a
\* footer, or with all that the model announced.
LEMMA WriteKeepsClient ==
  ASSUME TypeOK, EndsInOrder', Agreed, WriteOutcome("client")
  PROVE  ClientAccepted'
  <1> DEFINE e == "client"
  <1>1. /\ cmd' = cmd /\ (error'[e] = "NONE" => error[e] = "NONE")
        /\ recv'[e].requestedBytes = recv[e].requestedBytes
        /\ recv'[e].requestedZero = recv[e].requestedZero
        /\ recv'[e].payloadBytes = recv[e].payloadBytes
        /\ send'[e].requestedBytes = send[e].requestedBytes
        /\ send'[e].requestedZero = send[e].requestedZero
        /\ ClientAccepted
    BY DEF WriteOutcome, SizesStay, Agreed
  <1>2. send'[e].state = "ERROR" => error'[e] # "NONE"
    BY EndNames DEF EndsInOrder, EndInv, StatesAgree
  <1>3. /\ Accepted' <=> Accepted
        /\ Sized(recv'[e]) <=> Sized(recv[e])
        /\ Sized(send'[e]) <=> Sized(send[e])
    BY <1>1 DEF Accepted, Sized
  <1>4. AcceptedOrEmpty' <=> AcceptedOrEmpty
    BY <1>3 DEF AcceptedOrEmpty
  <1>5. CASE SaysCommand(e)
    BY <1>1, <1>2, <1>3, <1>4, <1>5 DEF SaysCommand, LineOut, ClientAccepted
  <1>6. ~SaysResponse(e)
    BY <1>1 DEF SaysResponse, ClientAccepted
  <1>7. CASE SaysChecksum(e)
    BY <1>1, <1>2, <1>3, <1>4, <1>7 DEF SaysChecksum, LineOut, ClientAccepted
  <1>8. CASE SaysFooter(e)
    <2>1. AcceptedOrEmpty
      BY <1>1, <1>8 DEF SaysFooter, ReceivedAll, ClientAccepted, AcceptedOrEmpty
    <2> QED
      BY <1>1, <1>2, <1>3, <1>4, <1>8, <2>1 DEF SaysFooter, LineOut, ClientAccepted
  <1>9. CASE Skips(e)
    <2>1. /\ recv'[e] = recv[e] /\ mmodel'[e] = mmodel[e] /\ error'[e] = error[e]
      BY <1>9 DEF Skips
    <2>2. CASE send'[e].state = send[e].state
      BY <1>1, <1>3, <1>4, <2>1, <2>2 DEF ClientAccepted
    <2>3. CASE send[e].state = "PAYLOAD" /\ send'[e].state = "CHECKSUM" /\ DoneSending(e)
      <3>1. send[e].requestedBytes \in Nat
        BY EndTypes, EndNames
      <3>2. ~Sized(recv[e]) /\ send[e].requestedBytes = 0 => mmodel[e].ended
        BY <1>1, <2>3, <3>1 DEF DoneSending, ClientAccepted
      <3> QED
        BY <1>1, <1>3, <1>4, <2>1, <2>3, <3>2 DEF ClientAccepted
    <2>4. CASE send[e].state = "CHECKSUM" /\ send'[e].state = "FOOTER"
      BY <1>1, <1>3, <1>4, <2>1, <2>4 DEF ClientAccepted
    <2>5. CASE send[e].state = "FOOTER" /\ send'[e].state = "FLUSH" /\ ~Sized(send[e])
      BY <1>1, <1>3, <1>4, <2>1, <2>5 DEF ClientAccepted
    <2>6. CASE send[e].state = "FLUSH" /\ send'[e].state = "SUCCESS"
      BY <1>1, <1>3, <1>4, <2>1, <2>6 DEF ClientAccepted
    <2> QED
      BY <1>9, <2>2, <2>3, <2>4, <2>5, <2>6 DEF Skips
  <1>10. CASE Flushes(e)
    BY <1>1, <1>2, <1>3, <1>4, <1>10 DEF Flushes, ClientAccepted
  <1>11. CASE WalksOn(e)
    <2>1. /\ recv'[e].state = recv[e].state /\ send[e].state = "PAYLOAD"
          /\ send'[e].state \in {"PAYLOAD", "ERROR"}
      BY <1>11 DEF WalksOn
    <2>2. ~Sized(recv[e]) /\ send[e].requestedBytes = 0 =>
            /\ recv'[e].expectedBytes + mmodel'[e].toRecv = ToOrigin
            /\ mmodel'[e].ended => mmodel'[e].toRecv = 0
      BY <1>1, <1>11 DEF WalksOn, ClientAccepted
    <2> QED
      BY <1>1, <1>2, <1>3, <1>4, <2>1, <2>2 DEF ClientAccepted
  <1> QED
    BY <1>5, <1>6, <1>7, <1>8, <1>9, <1>10, <1>11 DEF WriteOutcome

\* Every stage of onWritable keeps what was agreed.
LEMMA WriteKeepsAgreed ==
  ASSUME TypeOK, TypeOK', EndsInOrder', Agreed, NEW e \in Ends, WriteOutcome(e)
  PROVE  Agreed'
  <1>1. cmd' = cmd /\ OtherStays(e) /\ \A x \in Ends \ {e} : out'[x] = out[x] /\ put'[x] = put[x]
    BY DEF WriteOutcome
  <1>2. ASSUME NEW x \in Ends
        PROVE  WritesInBounds(x)'
    <2>1. CASE x = e
      BY <2>1, WriteKeepsWrites
    <2>2. CASE x # e
      BY <1>1, <2>2, WritesFrame DEF OtherStays, Agreed
    <2> QED
      BY <2>1, <2>2
  <1>3. VerdictsLogged'
    BY WriteKeepsVerdicts
  <1>4. ServerAccepts'
    BY <1>1, ServerFrame, WriteKeepsServer, EndNames DEF Agreed
  <1>5. ClientAccepted'
    BY <1>1, ClientFrame, WriteKeepsClient, EndNames DEF Agreed
  <1> QED
    BY <1>2, <1>3, <1>4, <1>5 DEF Agreed

\* Taking what the model announced for all there is: the client then has an answer of
\* the server, or a model that announces nothing.
LEMMA MetExpectedAccepted ==
  ASSUME TypeOK, EndsInOrder, ClientAccepted, MetExpected("client")
  PROVE  AcceptedOrEmpty
  <1> DEFINE e == "client"
  <1>1. /\ SendDone(e) /\ ~RecvDone(e) /\ ~Sized(recv[e])
        /\ recv[e].payloadBytes >= recv[e].expectedBytes
    BY DEF MetExpected
  <1>2. error[e] = "NONE" /\ recv[e].state # "ERROR"
    BY <1>1 DEF RecvDone
  <1>3. send[e].state = "SUCCESS"
    BY <1>1, <1>2, EndNames DEF SendDone, EndsInOrder, EndInv, StatesAgree
  <1>4. /\ recv[e].payloadBytes \in Nat /\ recv[e].expectedBytes \in Nat
        /\ mmodel[e].toRecv \in Nat /\ send[e].requestedBytes \in Nat /\ ToOrigin \in Nat
    BY EndTypes, EndNames, SizeAssumption
  <1>5. CASE send[e].requestedBytes > 0
    BY <1>2, <1>3, <1>5 DEF ClientAccepted, Sized
  <1>6. CASE send[e].requestedBytes = 0
    <2>1. recv[e].expectedBytes + mmodel[e].toRecv = ToOrigin /\ mmodel[e].toRecv = 0
      BY <1>1, <1>2, <1>3, <1>6 DEF ClientAccepted
    <2>2. ToOrigin > 0 => recv[e].payloadBytes > 0
      BY <1>1, <1>4, <2>1
    <2>3. recv[e].payloadBytes > 0 => Accepted
      BY DEF ClientAccepted
    <2> QED
      BY <1>1, <1>4, <2>2, <2>3 DEF AcceptedOrEmpty
  <1> QED
    BY <1>4, <1>5, <1>6

\* Events, timers and the network keep what was agreed.
LEMMA EventKeepsAgreed ==
  ASSUME TypeOK, EndsInOrder, EndsInOrder', Agreed, NEW e \in Ends, EventOutcome(e)
  PROVE  Agreed'
  <1>1. /\ cmd' = cmd /\ out' = out /\ put' = put /\ OtherStays(e)
        /\ mmodel'[e] = mmodel[e]
        /\ recv'[e].requestedBytes = recv[e].requestedBytes
        /\ recv'[e].requestedZero = recv[e].requestedZero
        /\ recv'[e].payloadBytes = recv[e].payloadBytes
        /\ recv'[e].expectedBytes = recv[e].expectedBytes
        /\ send'[e].requestedBytes = send[e].requestedBytes
        /\ send'[e].requestedZero = send[e].requestedZero
        /\ send'[e].payloadBytes = send[e].payloadBytes
        /\ error'[e] = "NONE" => error[e] = "NONE"
        /\ \/ send'[e].state = send[e].state
           \/ send'[e].state = "ERROR" /\ send[e].state # "NONE"
        /\ \/ recv'[e].state \in {recv[e].state, "ERROR"}
           \/ MetExpected(e) /\ recv'[e].state = "SUCCESS"
    BY DEF EventOutcome, SizesStay
  <1>2. /\ send'[e].state = "ERROR" => error'[e] # "NONE"
    BY DEF EndsInOrder, EndInv, StatesAgree
  <1>3. /\ Accepted' <=> Accepted
        /\ Sized(recv'[e]) <=> Sized(recv[e])
        /\ Sized(send'[e]) <=> Sized(send[e])
        /\ Pending(e)' = Pending(e)
    BY <1>1 DEF Accepted, Sized, Pending
  <1>4. ASSUME NEW x \in Ends
        PROVE  WritesInBounds(x)'
    <2>1. WritesInBounds(x)
      BY DEF Agreed
    <2>2. CASE x = e /\ send'[e].state = send[e].state
      BY <1>1, <1>3, <2>1, <2>2 DEF WritesInBounds
    <2>3. CASE x = e /\ send'[e].state = "ERROR" /\ send[e].state # "NONE"
      BY <1>1, <1>2, <1>3, <2>1, <2>3 DEF WritesInBounds
    <2>4. CASE x # e
      BY <1>1, <2>1, <2>4, WritesFrame DEF OtherStays
    <2> QED
      BY <1>1, <2>2, <2>3, <2>4
  <1>5. VerdictsLogged'
    BY <1>1, <1>3 DEF Agreed, VerdictsLogged
  <1>6. ServerAccepts'
    <2>1. CASE e = "client"
      BY <1>1, <2>1, ServerFrame DEF Agreed
    <2>2. CASE e = "server"
      BY <1>1, <1>2, <1>3, <2>2 DEF Agreed, ServerAccepts
    <2> QED
      BY <2>1, <2>2, EndNames
  <1>7. ClientAccepted'
    <2>1. CASE e = "server"
      BY <1>1, <2>1, ClientFrame DEF Agreed
    <2>2. CASE e = "client"
      <3>1. ClientAccepted
        BY DEF Agreed
      <3>2. AcceptedOrEmpty' <=> AcceptedOrEmpty
        BY <1>3, <2>2 DEF AcceptedOrEmpty
      <3>3. recv'[e].state = "SUCCESS" => AcceptedOrEmpty
        BY <1>1, <2>2, <3>1, MetExpectedAccepted DEF ClientAccepted
      <3> QED
        BY <1>1, <1>2, <1>3, <2>2, <3>1, <3>2, <3>3 DEF ClientAccepted
    <2> QED
      BY <2>1, <2>2, EndNames
  <1> QED
    BY <1>4, <1>5, <1>6, <1>7 DEF Agreed

-----------------------------------------------------------------------------
(* A deferred write is not attempted before its time.                       *)

\* A step at one end leaves the events of the other end alone.
EventsStay(e) ==
  \A x \in Ends \ {e} : /\ todo'[x] = todo[x] /\ send'[x] = send[x]
                        /\ watch'[x] = watch[x] /\ transport'[x] = transport[x]

\* Leaving a phase at one end.
LEMMA LeaveStays ==
  ASSUME TypeOK, NEW e \in Ends, Leave(e)
  PROVE  todo'[e] = Tail(todo[e]) /\ \A x \in Ends \ {e} : todo'[x] = todo[x]
  BY DEF Leave, TypeOK, StreamTypes

\* The stages of onReadable keep what is deferred.
LEMMA ReadKeepsDeferral ==
  ASSUME TypeOK, NEW e \in Ends, DeferralKept(e), ReadOutcome(e)
  PROVE  DeferralKept(e)' /\ EventsStay(e)
  <1>1. /\ todo[e] # <<>> /\ Head(todo[e]) = "read" /\ UNCHANGED <<transport, watch>>
        /\ todo' = todo \/ Leave(e)
        /\ OtherStays(e)
    BY DEF ReadOutcome
  <1>2. send'[e].defer = send[e].defer
    BY DEF ReadOutcome, NoVerdict, AfterHandshake, Authenticates, IsAccepted, Refuses,
      TakesHeader, Answers, Stays
  <1>3. DeferralKept(e)'
    BY <1>1, <1>2, PhaseDefers
  <1>4. \A x \in Ends \ {e} : todo'[x] = todo[x]
    BY <1>1, LeaveStays
  <1> QED
    BY <1>1, <1>3, <1>4 DEF EventsStay, OtherStays

\* The stages of onWritable keep what is deferred, and defer only as they end the phase.
LEMMA WriteKeepsDeferral ==
  ASSUME TypeOK, NEW e \in Ends, DeferralKept(e), WriteOutcome(e)
  PROVE  DeferralKept(e)' /\ EventsStay(e)
  <1>1. /\ todo[e] # <<>> /\ Head(todo[e]) = "write" /\ UNCHANGED <<transport, watch>>
        /\ todo' = todo \/ Leave(e)
        /\ OtherStays(e)
    BY DEF WriteOutcome
  <1>2. send'[e].defer = send[e].defer \/ (Head(todo[e]) = "write" /\ Leave(e))
    BY <1>1 DEF WriteOutcome, SaysCommand, SaysResponse, SaysChecksum, SaysFooter, LineOut, Skips,
      Flushes, WalksOn
  <1>3. DeferralKept(e)'
    BY <1>1, <1>2, PhaseDefers
  <1>4. \A x \in Ends \ {e} : todo'[x] = todo[x]
    BY <1>1, LeaveStays
  <1> QED
    BY <1>1, <1>3, <1>4 DEF EventsStay, OtherStays

\* The plan r is p followed by q.
Joined(p, q, r) ==
  /\ p \in Seq(Phases) /\ q \in Seq(Phases) /\ r \in Seq(Phases)
  /\ Len(r) = Len(p) + Len(q)
  /\ \A i \in 1 .. Len(r) : r[i] = IF i <= Len(p) THEN p[i] ELSE q[i - Len(p)]

\* A plan that is joined from two is their concatenation.
LEMMA Joins ==
  ASSUME NEW p, NEW q, NEW r, Joined(p, q, r)
  PROVE  p \o q = r
  <1>1. /\ p \in Seq(Phases) /\ q \in Seq(Phases) /\ r \in Seq(Phases)
        /\ p \o q \in Seq(Phases) /\ Len(p \o q) = Len(r)
    BY ConcatProperties DEF Joined
  <1>2. \A i \in 1 .. Len(p) + Len(q) :
          (p \o q)[i] = IF i <= Len(p) THEN p[i] ELSE q[i - Len(p)]
    BY <1>1, ConcatProperties
  <1>3. \A i \in 1 .. Len(p \o q) : (p \o q)[i] = r[i]
    BY <1>1, <1>2 DEF Joined
  <1> QED
    BY <1>1, <1>3, SeqEqual

\* The phases that an event starts, in order.
LEMMA PlansJoin ==
  /\ <<>> \o <<>> = <<>> /\ <<"read">> \o <<>> = <<"read">>
  /\ <<>> \o <<"barrier", "write">> = <<"barrier", "write">>
  /\ <<>> \o <<"finish">> = <<"finish">>
  /\ <<>> \o <<"read", "read", "undefer", "barrier", "write", "hangup">>
       = <<"read", "read", "undefer", "barrier", "write", "hangup">>
  /\ <<"read">> \o <<"finish">> = <<"read", "finish">>
  /\ <<"read">> \o <<"barrier", "write">> = <<"read", "barrier", "write">>
  /\ <<"barrier", "write">> \o <<"finish">> = <<"barrier", "write", "finish">>
  /\ <<"read", "barrier", "write">> \o <<"finish">> = <<"read", "barrier", "write", "finish">>
  /\ <<"read">> \o <<"read", "read", "undefer", "barrier", "write", "hangup">>
       = <<"read", "read", "read", "undefer", "barrier", "write", "hangup">>
  /\ <<"barrier", "write">> \o <<"read", "read", "undefer", "barrier", "write", "hangup">>
       = <<"barrier", "write", "read", "read", "undefer", "barrier", "write", "hangup">>
  /\ <<"read", "barrier", "write">>
       \o <<"read", "read", "undefer", "barrier", "write", "hangup">>
       = <<"read", "barrier", "write", "read", "read", "undefer", "barrier", "write", "hangup">>
  <1>1. Joined(<<"read">>, <<"finish">>, <<"read", "finish">>)
    BY DEF Joined, Phases
  <1>2. Joined(<<"read">>, <<"barrier", "write">>, <<"read", "barrier", "write">>)
    BY DEF Joined, Phases
  <1>3. Joined(<<"barrier", "write">>, <<"finish">>, <<"barrier", "write", "finish">>)
    BY DEF Joined, Phases
  <1>4. Joined(<<"read", "barrier", "write">>, <<"finish">>,
               <<"read", "barrier", "write", "finish">>)
    BY DEF Joined, Phases
  <1>5. Joined(<<"read">>, <<"read", "read", "undefer", "barrier", "write", "hangup">>,
               <<"read", "read", "read", "undefer", "barrier", "write", "hangup">>)
    BY DEF Joined, Phases
  <1>6. Joined(<<"barrier", "write">>,
               <<"read", "read", "undefer", "barrier", "write", "hangup">>,
               <<"barrier", "write", "read", "read", "undefer", "barrier", "write", "hangup">>)
    BY DEF Joined, Phases
  <1>7. Joined(<<"read", "barrier", "write">>,
               <<"read", "read", "undefer", "barrier", "write", "hangup">>,
               <<"read", "barrier", "write", "read", "read", "undefer", "barrier", "write",
                 "hangup">>)
    BY DEF Joined, Phases
  <1>8. <<>> \o <<>> = <<>> /\ <<"read">> \o <<>> = <<"read">>
    OBVIOUS
  <1>9. /\ Joined(<<>>, <<"barrier", "write">>, <<"barrier", "write">>)
        /\ Joined(<<>>, <<"finish">>, <<"finish">>)
        /\ Joined(<<>>, <<"read", "read", "undefer", "barrier", "write", "hangup">>,
                  <<"read", "read", "undefer", "barrier", "write", "hangup">>)
    BY DEF Joined, Phases
  <1>10. /\ <<"read">> \o <<"finish">> = <<"read", "finish">>
         /\ <<"read">> \o <<"barrier", "write">> = <<"read", "barrier", "write">>
         /\ <<"barrier", "write">> \o <<"finish">> = <<"barrier", "write", "finish">>
         /\ <<"read", "barrier", "write">> \o <<"finish">>
              = <<"read", "barrier", "write", "finish">>
    BY <1>1, <1>2, <1>3, <1>4, Joins, Zenon
  <1>11. /\ <<"read">> \o <<"read", "read", "undefer", "barrier", "write", "hangup">>
              = <<"read", "read", "read", "undefer", "barrier", "write", "hangup">>
         /\ <<"barrier", "write">> \o <<"read", "read", "undefer", "barrier", "write", "hangup">>
              = <<"barrier", "write", "read", "read", "undefer", "barrier", "write", "hangup">>
         /\ <<"read", "barrier", "write">>
              \o <<"read", "read", "undefer", "barrier", "write", "hangup">>
              = <<"read", "barrier", "write", "read", "read", "undefer", "barrier", "write",
                  "hangup">>
    BY <1>5, <1>6, <1>7, Joins, Zenon
  <1>12. /\ <<>> \o <<"barrier", "write">> = <<"barrier", "write">>
         /\ <<>> \o <<"finish">> = <<"finish">>
         /\ <<>> \o <<"read", "read", "undefer", "barrier", "write", "hangup">>
              = <<"read", "read", "undefer", "barrier", "write", "hangup">>
    BY <1>9, Joins, Zenon
  <1> QED
    BY <1>8, <1>10, <1>11, <1>12, Zenon

\* The phases that an event starts: while a write is deferred it starts none that
\* comes to it.
LEMMA onEventDefers ==
  ASSUME TypeOK, NEW e \in Ends, DeferralKept(e), onEvent(e)
  PROVE  DeferralKept(e)' /\ EventsStay(e)
  <1> DEFINE in == "IN" \in watch[e] /\ Readable(e)
             ou == "OUT" \in watch[e] /\ Writable(e)
             rest == IF reset[e]
                     THEN <<"read", "read", "undefer", "barrier", "write", "hangup">>
                     ELSE <<"finish">>
             front == When(in, <<"read">>) \o When(ou, <<"barrier", "write">>)
             plan == front \o rest
  <1>1. /\ todo' = [todo EXCEPT ![e] = plan] /\ UNCHANGED <<send, transport, watch>>
        /\ todo[e] = <<>> /\ transport[e] = "SUCCESSOPEN"
        /\ reset[e] \in BOOLEAN
    BY DEF onEvent, Idle, stream, TypeOK, StreamTypes
  <1>2. todo'[e] = plan /\ \A x \in Ends \ {e} : todo'[x] = todo[x]
    BY <1>1 DEF TypeOK, StreamTypes
  <1>3. send[e].defer = "pending" => ~ou
    BY <1>1 DEF DeferralKept
  <1> HIDE DEF in, ou, front, rest, plan
  <1>4. ~ou => plan \in DeferredPlans
    <2>1. CASE in /\ ~ou /\ reset[e]
      <3>1. /\ front = <<"read">>
            /\ rest = <<"read", "read", "undefer", "barrier", "write", "hangup">>
        BY <2>1, PlansJoin, Zenon DEF When, front, rest
      <3>2. plan = <<"read", "read", "read", "undefer", "barrier", "write", "hangup">>
        BY <3>1, PlansJoin, Zenon DEF plan
      <3> QED
        BY <3>2 DEF DeferredPlans
    <2>2. CASE in /\ ~ou /\ ~reset[e]
      <3>1. /\ front = <<"read">>
            /\ rest = <<"finish">>
        BY <2>2, PlansJoin, Zenon DEF When, front, rest
      <3>2. plan = <<"read", "finish">>
        BY <3>1, PlansJoin, Zenon DEF plan
      <3> QED
        BY <3>2 DEF DeferredPlans
    <2>3. CASE ~in /\ ~ou /\ reset[e]
      <3>1. /\ front = <<>>
            /\ rest = <<"read", "read", "undefer", "barrier", "write", "hangup">>
        BY <2>3, PlansJoin, Zenon DEF When, front, rest
      <3>2. plan = <<"read", "read", "undefer", "barrier", "write", "hangup">>
        BY <3>1, PlansJoin, Zenon DEF plan
      <3> QED
        BY <3>2 DEF DeferredPlans
    <2>4. CASE ~in /\ ~ou /\ ~reset[e]
      <3>1. /\ front = <<>>
            /\ rest = <<"finish">>
        BY <2>4, PlansJoin, Zenon DEF When, front, rest
      <3>2. plan = <<"finish">>
        BY <3>1, PlansJoin, Zenon DEF plan
      <3> QED
        BY <3>2 DEF DeferredPlans
    <2> QED
      BY <1>1, <2>1, <2>2, <2>3, <2>4
  <1>5. ou => plan \in WritingPlans
    <2>1. CASE in /\ ou /\ reset[e]
      <3>1. /\ front = <<"read", "barrier", "write">>
            /\ rest = <<"read", "read", "undefer", "barrier", "write", "hangup">>
        BY <2>1, PlansJoin, Zenon DEF When, front, rest
      <3>2. plan = <<"read", "barrier", "write", "read", "read", "undefer", "barrier", "write",
                     "hangup">>
        BY <3>1, PlansJoin, Zenon DEF plan
      <3> QED
        BY <3>2 DEF WritingPlans
    <2>2. CASE in /\ ou /\ ~reset[e]
      <3>1. /\ front = <<"read", "barrier", "write">>
            /\ rest = <<"finish">>
        BY <2>2, PlansJoin, Zenon DEF When, front, rest
      <3>2. plan = <<"read", "barrier", "write", "finish">>
        BY <3>1, PlansJoin, Zenon DEF plan
      <3> QED
        BY <3>2 DEF WritingPlans
    <2>3. CASE ~in /\ ou /\ reset[e]
      <3>1. /\ front = <<"barrier", "write">>
            /\ rest = <<"read", "read", "undefer", "barrier", "write", "hangup">>
        BY <2>3, PlansJoin, Zenon DEF When, front, rest
      <3>2. plan = <<"barrier", "write", "read", "read", "undefer", "barrier", "write",
                     "hangup">>
        BY <3>1, PlansJoin, Zenon DEF plan
      <3> QED
        BY <3>2 DEF WritingPlans
    <2>4. CASE ~in /\ ou /\ ~reset[e]
      <3>1. /\ front = <<"barrier", "write">>
            /\ rest = <<"finish">>
        BY <2>4, PlansJoin, Zenon DEF When, front, rest
      <3>2. plan = <<"barrier", "write", "finish">>
        BY <3>1, PlansJoin, Zenon DEF plan
      <3> QED
        BY <3>2 DEF WritingPlans
    <2> QED
      BY <1>1, <2>1, <2>2, <2>3, <2>4
  <1>7. /\ todo'[e] \in DeferredPlans \cup WritingPlans
        /\ send'[e].defer = "pending" => todo'[e] \in DeferredPlans
    BY <1>1, <1>2, <1>3, <1>4, <1>5
  <1>8. send'[e].defer = "pending" => "OUT" \notin watch'[e]
    BY <1>1 DEF DeferralKept
  <1>9. transport'[e] # "CONNECT"
    BY <1>1
  <1>10. DeferralKept(e)'
    BY <1>7, <1>8, <1>9 DEF DeferralKept
  <1> QED
    BY <1>1, <1>2, <1>10 DEF EventsStay

\* onWritable clears the barrier that has passed, onEpollERRHUP one that has not.
LEMMA clearBarrierDefers ==
  ASSUME TypeOK, NEW e \in Ends, DeferralKept(e), clearBarrier(e)
  PROVE  DeferralKept(e)' /\ EventsStay(e)
  <1>1. /\ todo[e] # <<>> /\ Head(todo[e]) \in {"barrier", "undefer"}
        /\ send' = [send EXCEPT ![e].defer = "none"] /\ Leave(e)
        /\ UNCHANGED <<transport, watch>>
    BY DEF clearBarrier, InPhase
  <1>2. TailFits(todo[e])
    BY <1>1, PlanTails DEF DeferralKept
  <1>3. send'[e].defer = "none" /\ \A x \in Ends \ {e} : send'[x] = send[x]
    BY <1>1 DEF TypeOK, StreamTypes, SendType
  <1>4. todo'[e] = Tail(todo[e]) /\ \A x \in Ends \ {e} : todo'[x] = todo[x]
    BY <1>1, LeaveStays
  <1>5. transport'[e] # "CONNECT"
    BY <1>1 DEF DeferralKept
  <1>6. todo'[e] \in DeferredPlans \cup WritingPlans
    BY <1>2, <1>4 DEF TailFits
  <1>7. DeferralKept(e)'
    BY <1>3, <1>5, <1>6 DEF DeferralKept
  <1> QED
    BY <1>1, <1>3, <1>4, <1>7 DEF EventsStay

\* A descriptor that is deregistered has nothing left to do or to watch.
LEMMA DeregisterDefers ==
  ASSUME TypeOK, NEW e \in Ends, Deregister(e), \A x \in Ends \ {e} : send'[x] = send[x]
  PROVE  DeferralKept(e)' /\ EventsStay(e)
  <1>1. todo'[e] = <<>> /\ watch'[e] = {} /\ transport'[e] = "CLOSED"
    BY DEF Deregister, TypeOK, StreamTypes
  <1>2. <<>> \in DeferredPlans
    BY DEF DeferredPlans
  <1>3. DeferralKept(e)'
    BY <1>1, <1>2 DEF DeferralKept
  <1> QED
    BY <1>3 DEF EventsStay, Deregister, TypeOK, StreamTypes

\* The end of an event: a deferred write is not watched for.
LEMMA finishDefers ==
  ASSUME TypeOK, NEW e \in Ends, DeferralKept(e), finish(e)
  PROVE  DeferralKept(e)' /\ EventsStay(e)
  <1>1. send' = send
    BY DEF finish
  <1>2. CASE StreamDone(e)
    <2>1. Deregister(e)
      BY <1>2 DEF finish
    <2> QED
      BY <1>1, <2>1, DeregisterDefers
  <1>3. CASE ~StreamDone(e)
    <2>1. /\ watch' = [watch EXCEPT ![e] = Watched(e)] /\ Leave(e) /\ UNCHANGED transport
          /\ todo[e] # <<>> /\ Head(todo[e]) = "finish"
      BY <1>3 DEF finish, InPhase
    <2>2. TailFits(todo[e])
      BY <2>1, PlanTails DEF DeferralKept
    <2>3. todo'[e] = <<>> /\ \A x \in Ends \ {e} : todo'[x] = todo[x]
      BY <2>1, <2>2, LeaveStays DEF TailFits
    <2>4. watch'[e] = Watched(e) /\ \A x \in Ends \ {e} : watch'[x] = watch[x]
      BY <2>1 DEF TypeOK, StreamTypes
    <2>5. send[e].defer = "pending" => "OUT" \notin Watched(e)
      BY DEF Watched
    <2>6. <<>> \in DeferredPlans
      BY DEF DeferredPlans
    <2>7. transport'[e] # "CONNECT"
      BY <2>1 DEF DeferralKept
    <2>8. DeferralKept(e)'
      BY <1>1, <2>3, <2>4, <2>5, <2>6, <2>7 DEF DeferralKept
    <2> QED
      BY <1>1, <2>1, <2>3, <2>4, <2>8 DEF EventsStay
  <1> QED
    BY <1>2, <1>3

\* The steps that end a stream.
LEMMA EndDefers ==
  ASSUME TypeOK, NEW e \in Ends, hangup(e) \/ connectFails(e) \/ onCheckTimeout(e)
  PROVE  DeferralKept(e)' /\ EventsStay(e)
  <1>1. Deregister(e)
    BY DEF hangup, connectFails, onCheckTimeout
  <1>2. \A x \in Ends \ {e} : send'[x] = send[x]
    BY DEF hangup, connectFails, onCheckTimeout, TypeOK, StreamTypes
  <1> QED
    BY <1>1, <1>2, DeregisterDefers

\* The clock and the timer: only a barrier that has passed is watched for again.
LEMMA TimerDefers ==
  ASSUME TypeOK, NEW e \in Ends, DeferralKept(e),
         connect(e) \/ barrierPasses(e) \/ onDeferTimerExpired(e)
  PROVE  DeferralKept(e)' /\ EventsStay(e)
  <1>1. CASE connect(e)
    <2>1. /\ transport'[e] = "SUCCESSOPEN" /\ send' = send /\ todo' = todo
          /\ transport[e] = "CONNECT"
          /\ \A x \in Ends \ {e} : watch'[x] = watch[x] /\ transport'[x] = transport[x]
      BY <1>1 DEF connect, stream, TypeOK, StreamTypes
    <2>2. DeferralKept(e)'
      BY <2>1 DEF DeferralKept
    <2> QED
      BY <2>1, <2>2 DEF EventsStay
  <1>2. CASE barrierPasses(e)
    <2>1. /\ send[e].defer = "pending" /\ send' = [send EXCEPT ![e].defer = "passed"]
          /\ UNCHANGED <<transport, watch, todo>>
      BY <1>2 DEF barrierPasses
    <2>2. send'[e].defer = "passed" /\ \A x \in Ends \ {e} : send'[x] = send[x]
      BY <2>1 DEF TypeOK, StreamTypes, SendType
    <2>3. DeferralKept(e)'
      BY <2>1, <2>2 DEF DeferralKept
    <2> QED
      BY <2>1, <2>2, <2>3 DEF EventsStay
  <1>3. CASE onDeferTimerExpired(e)
    <2>1. /\ send[e].defer = "passed" /\ UNCHANGED <<send, transport, todo>>
          /\ \A x \in Ends \ {e} : watch'[x] = watch[x]
      BY <1>3 DEF onDeferTimerExpired, stream, TypeOK, StreamTypes
    <2>2. DeferralKept(e)'
      BY <2>1 DEF DeferralKept
    <2> QED
      BY <2>1, <2>2 DEF EventsStay
  <1> QED
    BY <1>1, <1>2, <1>3

\* Every step keeps what is deferred, at both ends.
LEMMA NextKeepsDeferral ==
  ASSUME TypeOK, EndsInOrder, \A e \in Ends : DeferralKept(e), [Next]_vars
  PROVE  \A e \in Ends : DeferralKept(e)'
  <1>1. ASSUME NEW e \in Ends, DeferralKept(e)', EventsStay(e)
        PROVE  \A x \in Ends : DeferralKept(x)'
    <2> SUFFICES ASSUME NEW x \in Ends
                 PROVE  DeferralKept(x)'
      OBVIOUS
    <2>1. CASE x = e
      BY <1>1, <2>1
    <2>2. CASE x # e
      BY <1>1, <2>2, DeferralFrame DEF EventsStay
    <2> QED
      BY <2>1, <2>2
  <1>2. ASSUME UNCHANGED <<send, transport, watch, todo>>
        PROVE  \A x \in Ends : DeferralKept(x)'
    BY <1>2, DeferralFrame
  <1>3. ASSUME NEW e \in Ends, step(e)
        PROVE  DeferralKept(e)' /\ EventsStay(e)
    <2>1. CASE onReadable(e)
      BY <2>1, onReadableOutcome, ReadKeepsDeferral
    <2>2. CASE onWritable(e)
      BY <2>2, onWritableOutcome, WriteKeepsDeferral
    <2> QED
      BY <1>3, <2>1, <2>2, onEventDefers, clearBarrierDefers, finishDefers, EndDefers, TimerDefers
      DEF step
  <1>4. CASE \E e \in Ends : step(e) \/ barrierPasses(e) \/ onCheckTimeout(e)
    BY <1>1, <1>3, <1>4, EndDefers, TimerDefers
  <1>5. CASE \E e \in Ends : deliver(e) \/ peerResets(e) \/ networkResets(e)
    BY <1>2, <1>5 DEF deliver, peerResets, networkResets, Reset, stream
  <1>6. CASE UNCHANGED vars
    BY <1>2, <1>6 DEF vars
  <1> QED
    BY <1>4, <1>5, <1>6 DEF Next, ended

\* What the streams start from.
LEMMA InitAgreed ==
  ASSUME Init
  PROVE  Agreed /\ \A e \in Ends : DeferralKept(e)
  <1>1. PICK o \in Options : /\ recv = [e \in Ends |-> NewRecv(o, e)]
                             /\ send = [e \in Ends |-> NewSend(o, e)]
    BY DEF Init
  <1>2. o.sendsize \in Nat \cup {Unset} /\ o.recvsize \in Nat \cup {Unset}
    BY OptionsAssumption DEF OptionType
  <1>3. /\ mmodel = [e \in Ends |-> NewModel(e)] /\ out = [e \in Ends |-> <<>>]
        /\ put = [e \in Ends |-> 0] /\ todo = [e \in Ends |-> <<>>]
        /\ error = [e \in Ends |-> "NONE"] /\ cmd \in CommandType
    BY CommandsAssumption DEF Init
  <1>4. "client" \in Ends /\ "server" \in Ends
    BY DEF Ends
  <1>5. ASSUME NEW e \in Ends
        PROVE  DeferralKept(e)
    <2>1. todo[e] = <<>> /\ send[e].defer = "none"
      BY <1>1, <1>3 DEF NewSend
    <2> QED
      BY <2>1 DEF DeferralKept, DeferredPlans
  <1>6. ASSUME NEW e \in Ends
        PROVE  WritesInBounds(e)
    <2>1. send[e].payloadBytes = 0 /\ send[e].state = IF e = "client" THEN "COMMAND" ELSE "NONE"
      BY <1>1 DEF NewSend
    <2> QED
      BY <2>1 DEF WritesInBounds
  <1>7. VerdictsLogged
    BY <1>3, <1>4 DEF VerdictsLogged
  <1>8. ServerAccepts
    BY <1>1, <1>3, <1>4 DEF ServerAccepts, NewRecv, NewSend, NewModel
  <1>9. ClientAccepted
    <2>1. /\ recv["client"].state = "NONE" /\ send["client"].state = "COMMAND"
          /\ recv["client"].payloadBytes = 0 /\ recv["client"].expectedBytes = 0
          /\ o.recvsize = 0 => recv["client"].requestedZero
          /\ recv["client"].requestedBytes = IF o.recvsize # Unset THEN o.recvsize ELSE 0
          /\ o.recvsize = Unset => ~send["client"].requestedZero
      BY <1>1, <1>4 DEF NewRecv, NewSend
    <2>2. mmodel["client"].toRecv = ToOrigin /\ mmodel["client"].ended = FALSE
      BY <1>3, <1>4 DEF NewModel
    <2>3. ~Sized(recv["client"]) => ~send["client"].requestedZero
      <3>1. CASE o.recvsize = Unset \/ o.recvsize = 0
        BY <2>1, <3>1 DEF Sized
      <3>2. CASE o.recvsize # Unset /\ o.recvsize # 0
        BY <1>2, <2>1, <3>2 DEF Sized
      <3> QED
        BY <3>1, <3>2
    <2>4. recv["client"].expectedBytes + mmodel["client"].toRecv = ToOrigin
      BY <2>1, <2>2, SizeAssumption
    <2>5. /\ ~(recv["client"].payloadBytes > 0)
          /\ recv["client"].state \notin {"MODEL", "PAYLOAD", "CHECKSUM", "FOOTER", "SUCCESS"}
          /\ send["client"].state \notin {"RESPONSE", "CHECKSUM", "FOOTER", "FLUSH", "SUCCESS"}
          /\ ~mmodel["client"].ended
      BY <2>1, <2>2
    <2> QED
      BY <2>3, <2>4, <2>5, Zenon DEF ClientAccepted
  <1> QED
    BY <1>5, <1>6, <1>7, <1>8, <1>9 DEF Agreed

-----------------------------------------------------------------------------
(* The kinds of the tokens, by their places in a log.                       *)

\* The handshake has at least the password and a header, and the model is its rest.
LEMMA PreambleFacts ==
  ASSUME NEW e \in Ends
  PROVE  /\ Preamble(e) \in Nat /\ Preamble(e) >= 3
         /\ e = "server" => Preamble(e) = 3
         /\ e = "client" /\ cmd.path => Preamble(e) = 3
         /\ e = "client" /\ ~cmd.path => Preamble(e) = 3 + ModelSize
  BY SizeAssumption DEF Preamble

\* The kinds of the tokens of the handshake.
LEMMA HandshakeKinds ==
  ASSUME NEW e \in Ends
  PROVE  /\ Kind(e, 1) = "auth" /\ Kind(e, 2) = "hdr" /\ Kind(e, 3) = "nl"
         /\ \A i \in 4 .. Preamble(e) : Kind(e, i) = "model"
         /\ \A i \in 1 .. Preamble(e) : Kind(e, i) # "data"
  <1>1. Kind(e, 1) = "auth" /\ Kind(e, 2) = "hdr" /\ Kind(e, 3) = "nl"
    BY DEF Kind
  <1>2. Preamble(e) \in Nat
    BY PreambleFacts
  <1>3. \A i \in 4 .. Preamble(e) : Kind(e, i) = "model"
    BY <1>2 DEF Kind
  <1>4. \A i \in 1 .. Preamble(e) : i = 1 \/ i = 2 \/ i = 3 \/ i \in 4 .. Preamble(e)
    BY <1>2
  <1> QED
    BY <1>1, <1>3, <1>4

\* The kinds of what follows the handshake.
LEMMA PayloadKinds ==
  ASSUME TypeOK, NEW e \in Ends
  PROVE  \A i \in Nat : /\ i > Preamble(e)
                        /\ ~Sized(send[e]) \/ i <= Preamble(e) + send[e].requestedBytes
                        => Kind(e, i) = "data"
  <1>1. Preamble(e) \in Nat /\ Preamble(e) >= 3 /\ send[e].requestedBytes \in Nat
    BY PreambleFacts, EndTypes
  <1> QED
    BY <1>1 DEF Kind

\* The kinds of what follows the payload of a stream with a size.
LEMMA TrailerKinds ==
  ASSUME TypeOK, NEW e \in Ends, Sized(send[e]),
         NEW base, base = Preamble(e) + send[e].requestedBytes
  PROVE  /\ send[e].requestedBytes > 0 =>
              /\ Kind(e, base + 1) = "sum" /\ Kind(e, base + 2) = "nl"
              /\ Kind(e, base + 3) = "fin" /\ Kind(e, base + 4) = "nl"
              /\ \A i \in Nat : i > base + 4 => Kind(e, i) = "none"
         /\ send[e].requestedBytes = 0 =>
              /\ Kind(e, base + 1) = "fin" /\ Kind(e, base + 2) = "nl"
              /\ \A i \in Nat : i > base + 2 => Kind(e, i) = "none"
  <1>1. /\ Preamble(e) \in Nat /\ Preamble(e) >= 3 /\ send[e].requestedBytes \in Nat
        /\ base \in Nat
    BY PreambleFacts, EndTypes
  <1>2. ASSUME NEW k \in Nat \ {0}
        PROVE  Kind(e, base + k) =
                 IF k <= Len(Trailer(e)) THEN Trailer(e)[k] ELSE "none"
    <2>1. PICK i : i = base + k
      OBVIOUS
    <2>2. ~(i <= 3) /\ ~(i <= Preamble(e)) /\ ~(k <= 0)
      BY <1>1, <2>1
    <2>3. i - Preamble(e) - send[e].requestedBytes = k
      BY <1>1, <2>1
    <2>4. Kind(e, i) = IF k <= Len(Trailer(e)) THEN Trailer(e)[k] ELSE "none"
      BY <2>2, <2>3, Zenon DEF Kind
    <2> QED
      BY <2>1, <2>4
  <1>3. \A i \in Nat : i > base => i - base \in Nat \ {0} /\ i = base + (i - base)
    BY <1>1
  <1>4. CASE send[e].requestedBytes > 0
    <2>1. Trailer(e) = <<"sum", "nl", "fin", "nl">>
      BY <1>4 DEF Trailer
    <2>2. \A k \in Nat \ {0} : k > 4 => Kind(e, base + k) = "none"
      BY <1>2, <2>1
    <2>3. /\ Kind(e, base + 1) = "sum" /\ Kind(e, base + 2) = "nl"
          /\ Kind(e, base + 3) = "fin" /\ Kind(e, base + 4) = "nl"
      BY <1>2, <2>1
    <2>4. \A i \in Nat : i > base + 4 => Kind(e, i) = "none"
      <3> SUFFICES ASSUME NEW i \in Nat, i > base + 4
                   PROVE  Kind(e, i) = "none"
        OBVIOUS
      <3>1. i - base \in Nat \ {0} /\ i - base > 4 /\ i = base + (i - base)
        BY <1>1
      <3> QED
        BY <2>2, <3>1
    <2> QED
      BY <1>1, <1>4, <2>3, <2>4
  <1>5. CASE send[e].requestedBytes = 0
    <2>1. Trailer(e) = <<"fin", "nl">>
      BY <1>5 DEF Trailer
    <2>2. \A k \in Nat \ {0} : k > 2 => Kind(e, base + k) = "none"
      BY <1>2, <2>1
    <2>3. Kind(e, base + 1) = "fin" /\ Kind(e, base + 2) = "nl"
      BY <1>2, <2>1
    <2>4. \A i \in Nat : i > base + 2 => Kind(e, i) = "none"
      <3> SUFFICES ASSUME NEW i \in Nat, i > base + 2
                   PROVE  Kind(e, i) = "none"
        OBVIOUS
      <3>1. i - base \in Nat \ {0} /\ i - base > 2 /\ i = base + (i - base)
        BY <1>1
      <3> QED
        BY <2>2, <3>1
    <2> QED
      BY <1>1, <1>5, <2>3, <2>4
  <1> QED
    BY <1>1, <1>4, <1>5

\* The kinds follow from the sizes of the sender alone.
LEMMA KindStays ==
  ASSUME NEW e \in Ends, cmd' = cmd,
         send'[e].requestedBytes = send[e].requestedBytes,
         send'[e].requestedZero = send[e].requestedZero
  PROVE  Preamble(e)' = Preamble(e) /\ \A i : Kind(e, i)' = Kind(e, i)
  BY DEF Preamble, Kind, Trailer, Sized

-----------------------------------------------------------------------------
(* Writing: the log of an endpoint stays in order.                          *)

\* Every token that e has logged is of the kind that belongs there.
Shaped(e) == \A i \in 1 .. Len(out[e]) : out[e][i].t = Kind(e, i)

\* The counters and the log of one end.
LEMMA LogTypes ==
  ASSUME TypeOK, NEW e \in Ends
  PROVE  /\ out[e] \in Seq(Tokens) /\ Len(out[e]) \in Nat
         /\ put[e] \in Nat /\ arr[e] \in Nat /\ got[e] \in Nat /\ used[e] \in Nat
         /\ used[e] <= got[e] /\ got[e] <= arr[e] /\ arr[e] <= put[Peer(e)]
         /\ put[e] <= Len(out[e]) /\ Pending(e) = Len(out[e]) - put[e] /\ Pending(e) \in Nat
  <1>1. /\ out[e] \in Seq(Tokens) /\ Len(out[e]) \in Nat
        /\ put[e] \in Nat /\ arr[e] \in Nat /\ got[e] \in Nat /\ used[e] \in Nat
        /\ used[e] <= got[e] /\ got[e] <= arr[e] /\ arr[e] <= put[Peer(e)]
        /\ put[e] <= Len(out[e])
    BY DEF TypeOK, ChannelTypes, CountersInOrder
  <1> QED
    BY <1>1 DEF Pending

\* The same of the next state.
LEMMA LogTypesNext ==
  ASSUME TypeOK', NEW e \in Ends
  PROVE  /\ out'[e] \in Seq(Tokens) /\ Len(out'[e]) \in Nat
         /\ put'[e] \in Nat /\ arr'[e] \in Nat /\ got'[e] \in Nat /\ used'[e] \in Nat
         /\ used'[e] <= got'[e] /\ got'[e] <= arr'[e] /\ arr'[e] <= put'[Peer(e)]
         /\ put'[e] <= Len(out'[e]) /\ Pending(e)' = Len(out'[e]) - put'[e]
         /\ Pending(e)' \in Nat
  <1>1. /\ out'[e] \in Seq(Tokens) /\ Len(out'[e]) \in Nat
        /\ put'[e] \in Nat /\ arr'[e] \in Nat /\ got'[e] \in Nat /\ used'[e] \in Nat
        /\ used'[e] <= got'[e] /\ got'[e] <= arr'[e] /\ arr'[e] <= put'[Peer(e)]
        /\ put'[e] <= Len(out'[e])
    BY DEF TypeOK, ChannelTypes, CountersInOrder
  <1> QED
    BY <1>1 DEF Pending

\* A log with a line appended to it.
LEMMA Appended ==
  ASSUME NEW s \in Seq(Tokens), NEW t \in Seq(Tokens)
  PROVE  /\ Len(s \o t) = Len(s) + Len(t)
         /\ \A i \in 1 .. Len(s) : (s \o t)[i] = s[i]
         /\ \A i \in Len(s) + 1 .. Len(s) + Len(t) : (s \o t)[i] = t[i - Len(s)]
  OBVIOUS

\* A stage of writing goes on with its line, fails, or has written all of it.
LineStage(e, next) ==
  \/ send'[e].state = send[e].state /\ Pending(e)' > 0
  \/ send'[e].state = "ERROR"
  \/ send'[e].state = next /\ Pending(e)' = 0

\* A line of the kinds that come next keeps the log in order, and is buffered once.
LEMMA LineLogs ==
  ASSUME TypeOK, TypeOK', NEW e \in Ends, NEW line \in Seq(Tokens), NEW next \in SendStates,
         todo[e] # <<>>, WriteLine(e, line, next), Shaped(e),
         NEW base \in Nat, WritesFrom(e, base, Len(line)), Len(line) > 0,
         \A k \in 1 .. Len(line) : line[k].t = Kind(e, base + k)
  PROVE  /\ \A i \in 1 .. Len(out'[e]) : out'[e][i].t = Kind(e, i)
         /\ Len(out'[e]) = base + Len(line)
         /\ Len(out[e]) <= Len(out'[e])
         /\ \A i \in 1 .. Len(out[e]) : out'[e][i] = out[e][i]
         /\ LineStage(e, next)
         /\ send'[e].payloadBytes = send[e].payloadBytes
         /\ send'[e].requestedBytes = send[e].requestedBytes
         /\ send'[e].requestedZero = send[e].requestedZero
  <1> DEFINE o == Queue(e, line)
  <1>1. out' = [out EXCEPT ![e] = o]
    BY WriteLineType
  <1>2. /\ out[e] \in Seq(Tokens) /\ Len(out[e]) \in Nat /\ put[e] \in Nat
        /\ put[e] <= Len(out[e]) /\ Pending(e) = Len(out[e]) - put[e] /\ Pending(e) \in Nat
        /\ Len(line) \in Nat
    BY LogTypes
  <1>3. out'[e] = o
    BY <1>1 DEF TypeOK, ChannelTypes
  <1>4. /\ Pending(e) = 0 => o = out[e] \o line
        /\ Pending(e) > 0 => o = out[e]
    BY <1>2 DEF Queue
  <1>5. /\ Len(o) = base + Len(line) /\ Len(out[e]) <= Len(o)
        /\ \A i \in 1 .. Len(out[e]) : o[i] = out[e][i]
        /\ \A i \in 1 .. Len(o) : o[i].t = Kind(e, i)
    <2>1. CASE Pending(e) = 0
      <3>1. o = out[e] \o line /\ Len(out[e]) = base
        BY <1>2, <1>4, <2>1 DEF WritesFrom
      <3>2. /\ Len(out[e] \o line) = base + Len(line)
            /\ \A i \in 1 .. base : (out[e] \o line)[i] = out[e][i]
            /\ \A i \in base + 1 .. base + Len(line) : (out[e] \o line)[i] = line[i - base]
        <4>1. Len(out[e]) = base
          BY <3>1
        <4> QED
          BY <1>2, <4>1, Appended
      <3> HIDE DEF o
      <3>3. ASSUME NEW i \in 1 .. Len(o)
            PROVE  o[i].t = Kind(e, i)
        <4>1. CASE i <= base
          <5>1. i \in 1 .. base
            BY <1>2, <3>1, <3>2, <4>1
          <5> QED
            BY <3>1, <3>2, <5>1 DEF Shaped
        <4>2. CASE i > base
          <5>1. i - base \in 1 .. Len(line) /\ base + (i - base) = i
            BY <1>2, <3>1, <3>2, <4>2
          <5>2. o[i] = line[i - base]
            BY <1>2, <3>1, <3>2, <4>2
          <5>3. line[i - base].t = Kind(e, base + (i - base))
            BY <5>1
          <5> QED
            BY <5>1, <5>2, <5>3
        <4> QED
          BY <1>2, <3>1, <3>2, <4>1, <4>2
      <3>4. Len(o) = base + Len(line) /\ Len(out[e]) <= Len(o)
        BY <1>2, <3>1, <3>2
      <3>5. \A i \in 1 .. Len(out[e]) : o[i] = out[e][i]
        BY <3>1, <3>2
      <3> QED
        BY <3>3, <3>4, <3>5
    <2>2. CASE Pending(e) > 0
      <3>1. o = out[e]
        BY <1>4, <2>2
      <3>2. Len(out[e]) = base + Len(line)
        BY <2>2 DEF WritesFrom
      <3> HIDE DEF o
      <3> QED
        BY <1>2, <3>1, <3>2 DEF Shaped
    <2>3. Pending(e) = 0 \/ Pending(e) > 0
      BY <1>2
    <2> HIDE DEF o
    <2> QED
      BY <2>1, <2>2, <2>3
  <1>6. o \in Seq(Tokens) /\ Len(o) \in Nat /\ put[e] <= Len(o)
    BY QueueBounds
  <1>7. Flushed(e, o) \in Nat /\ put[e] + Flushed(e, o) <= Len(o)
    BY <1>6, FlushedBounds
  <1>8. \/ send' = [send EXCEPT ![e].state = "ERROR"]
        \/ /\ put' = [put EXCEPT ![e] = @ + Flushed(e, o)]
           /\ Flushed(e, o) = Len(o) - put[e]
           /\ send' = [send EXCEPT ![e].state = next]
        \/ /\ put' = [put EXCEPT ![e] = @ + Flushed(e, o)]
           /\ Flushed(e, o) # Len(o) - put[e]
           /\ send' = send
    BY DEF WriteLine, WriteError
  <1> HIDE DEF o
  <1>9. put' = [put EXCEPT ![e] = @ + Flushed(e, o)] => put'[e] = put[e] + Flushed(e, o)
    BY DEF TypeOK, ChannelTypes
  <1>10. Pending(e)' = Len(o) - put'[e]
    BY <1>3 DEF Pending
  <1>11. LineStage(e, next)
    <2>1. CASE send' = [send EXCEPT ![e].state = "ERROR"]
      <3>1. send'[e].state = "ERROR"
        BY <2>1, SendFields DEF SendStates
      <3> QED
        BY <3>1 DEF LineStage
    <2>2. CASE /\ put'[e] = put[e] + Flushed(e, o)
               /\ Flushed(e, o) = Len(o) - put[e]
               /\ send' = [send EXCEPT ![e].state = next]
      <3>1. Pending(e)' = 0
        BY <1>2, <1>6, <1>10, <2>2
      <3> QED
        BY <2>2, <3>1, SendFields DEF LineStage
    <2>3. CASE /\ put'[e] = put[e] + Flushed(e, o)
               /\ Flushed(e, o) # Len(o) - put[e]
               /\ send' = send
      <3>1. Pending(e)' > 0
        BY <1>2, <1>6, <1>7, <1>10, <2>3
      <3> QED
        BY <2>3, <3>1 DEF LineStage
    <2> QED
      BY <1>8, <1>9, <2>1, <2>2, <2>3
  <1>12. /\ send'[e].payloadBytes = send[e].payloadBytes
         /\ send'[e].requestedBytes = send[e].requestedBytes
         /\ send'[e].requestedZero = send[e].requestedZero
    <2>1. CASE send' = send
      BY <2>1
    <2>2. CASE \E st \in {"ERROR", next} : send' = [send EXCEPT ![e].state = st]
      BY <2>2, SendFields DEF SendStates
    <2> QED
      BY <1>8, <2>1, <2>2
  <1> QED
    BY <1>3, <1>5, <1>11, <1>12

\* The stage that e is in has logged base tokens and writes n, in the next state.
WroteFrom(e, base, n) ==
  \/ Len(out'[e]) = base /\ Pending(e)' = 0
  \/ Len(out'[e]) = base + n /\ Pending(e)' > 0

\* What the checksum line adds to a log.
SumLen(e) == IF send[e].requestedBytes > 0 THEN 2 ELSE 0

\* What has to be shown of a step that writes.
LEMMA LogNext ==
  ASSUME NEW e \in Ends, cmd' = cmd,
         send'[e].requestedBytes = send[e].requestedBytes,
         send'[e].requestedZero = send[e].requestedZero,
         \A i \in 1 .. Len(out'[e]) : out'[e][i].t = Kind(e, i),
         send'[e].state = "NONE" => out'[e] = <<>>,
         send'[e].state \in {"COMMAND", "RESPONSE"} => WroteFrom(e, 0, Preamble(e)),
         send'[e].state = "PAYLOAD" => put'[e] = Preamble(e) + send'[e].payloadBytes,
         send'[e].state = "CHECKSUM" =>
           WroteFrom(e, Preamble(e) + send'[e].payloadBytes, SumLen(e)),
         send'[e].state = "FOOTER" =>
           WroteFrom(e, Preamble(e) + send'[e].payloadBytes + SumLen(e), 2),
         send'[e].state \in {"PAYLOAD", "CHECKSUM", "FOOTER"}
           /\ send[e].requestedBytes = 0 /\ send[e].requestedZero =>
           send'[e].payloadBytes = 0 /\ (send'[e].state = "PAYLOAD" => Pending(e)' = 0),
         send'[e].state \in {"CHECKSUM", "FOOTER"} /\ send[e].requestedBytes > 0 =>
           send'[e].payloadBytes = send[e].requestedBytes
  PROVE  LogInOrder(e)'
  <1>1. Preamble(e)' = Preamble(e) /\ \A i : Kind(e, i)' = Kind(e, i)
    BY KindStays
  <1>2. (\A i \in 1 .. Len(out[e]) : out[e][i].t = Kind(e, i))'
    BY <1>1
  <1> QED
    BY <1>1, <1>2 DEF LogInOrder, WritesFrom, WroteFrom, SumLen

\* What LogInOrder says, in the same terms.
LEMMA LogNow ==
  ASSUME NEW e \in Ends, LogInOrder(e)
  PROVE  /\ Shaped(e)
         /\ send[e].state = "NONE" => out[e] = <<>>
         /\ send[e].state \in {"COMMAND", "RESPONSE"} => WritesFrom(e, 0, Preamble(e))
         /\ send[e].state = "PAYLOAD" => put[e] = Preamble(e) + send[e].payloadBytes
         /\ send[e].state = "CHECKSUM" =>
              WritesFrom(e, Preamble(e) + send[e].payloadBytes, SumLen(e))
         /\ send[e].state = "FOOTER" =>
              WritesFrom(e, Preamble(e) + send[e].payloadBytes + SumLen(e), 2)
         /\ send[e].state \in {"PAYLOAD", "CHECKSUM", "FOOTER"}
              /\ send[e].requestedBytes = 0 /\ send[e].requestedZero =>
              send[e].payloadBytes = 0 /\ (send[e].state = "PAYLOAD" => Pending(e) = 0)
         /\ send[e].state \in {"CHECKSUM", "FOOTER"} /\ send[e].requestedBytes > 0 =>
              send[e].payloadBytes = send[e].requestedBytes
  BY DEF LogInOrder, Shaped, SumLen

\* The log of e only grows.
LogGrows(e) ==
  /\ Len(out[e]) <= Len(out'[e])
  /\ \A i \in 1 .. Len(out[e]) : out'[e][i] = out[e][i]

\* The tokens of the command are of the kinds that come first.
LEMMA CommandKinds ==
  /\ Len(Command) = Preamble("client") /\ Len(Command) > 0
  /\ \A k \in 1 .. Len(Command) : Command[k].t = Kind("client", k)
  <1> DEFINE head == <<Tok("auth", Verdict(cmd.auth)), Tok("hdr", Verdict(cmd.header)),
                       Tok("nl", 0)>>
             tail == IF cmd.path THEN <<>> ELSE [i \in 1 .. ModelSize |-> Tok("model", 0)]
  <1>1. ModelSize \in Nat
    BY SizeAssumption
  <1>2. /\ head \in Seq(Tokens) /\ Len(head) = 3
        /\ head[1].t = "auth" /\ head[2].t = "hdr" /\ head[3].t = "nl"
    BY LineTypes DEF Tok
  <1>3. /\ tail \in Seq(Tokens) /\ Len(tail) = (IF cmd.path THEN 0 ELSE ModelSize)
        /\ \A i \in 1 .. Len(tail) : tail[i].t = "model"
    <2>1. CASE cmd.path
      BY <2>1
    <2>2. CASE ~cmd.path
      BY <1>1, <2>2, LineTypes DEF Tok
    <2> QED
      BY <2>1, <2>2
  <1>4. Command = head \o tail
    BY DEF Command
  <1> HIDE DEF head, tail
  <1>5. /\ Len(head \o tail) = Len(head) + Len(tail)
        /\ \A i \in 1 .. Len(head) : (head \o tail)[i] = head[i]
        /\ \A i \in Len(head) + 1 .. Len(head) + Len(tail) :
             (head \o tail)[i] = tail[i - Len(head)]
    BY <1>2, <1>3, Appended
  <1>6. Len(tail) \in Nat
    BY <1>3
  <1>7. Preamble("client") = 3 + Len(tail)
    BY <1>3 DEF Preamble
  <1>8. /\ Kind("client", 1) = "auth" /\ Kind("client", 2) = "hdr" /\ Kind("client", 3) = "nl"
        /\ \A i \in 4 .. 3 + Len(tail) : Kind("client", i) = "model"
    BY <1>7, HandshakeKinds, EndNames
  <1>9. ASSUME NEW k \in 1 .. 3 + Len(tail)
        PROVE  (head \o tail)[k].t = Kind("client", k)
    <2>1. CASE k \in 1 .. 3
      <3>1. (head \o tail)[k] = head[k] /\ (k = 1 \/ k = 2 \/ k = 3)
        BY <1>2, <1>5, <2>1
      <3> QED
        BY <1>2, <1>8, <3>1
    <2>2. CASE k \in 4 .. 3 + Len(tail)
      <3>1. (head \o tail)[k] = tail[k - 3] /\ k - 3 \in 1 .. Len(tail)
        BY <1>2, <1>5, <1>6, <2>2
      <3> QED
        BY <1>3, <1>8, <2>2, <3>1
    <2>3. k \in 1 .. 3 \/ k \in 4 .. 3 + Len(tail)
      BY <1>6
    <2> QED
      BY <2>1, <2>2, <2>3
  <1>10. Len(head \o tail) = 3 + Len(tail)
    BY <1>2, <1>5
  <1> QED
    BY <1>4, <1>6, <1>7, <1>9, <1>10

\* The command is the client's and comes first.
LEMMA writeCommandLogs ==
  ASSUME TypeOK, TypeOK', Agreed, NEW e \in Ends, LogInOrder(e), writeCommand(e)
  PROVE  LogInOrder(e)' /\ LogGrows(e)
  <1>1. /\ todo[e] # <<>> /\ send[e].state = "COMMAND" /\ cmd' = cmd
        /\ WriteLine(e, Command, "PAYLOAD")
    BY DEF writeCommand, Writing
  <1>2. e = "client"
    BY <1>1, EndNames DEF Agreed, ServerAccepts
  <1>3. /\ Command \in Seq(Tokens) /\ "PAYLOAD" \in SendStates
        /\ Len(Command) = Preamble(e) /\ Len(Command) > 0
        /\ \A k \in 1 .. Len(Command) : Command[k].t = Kind(e, k)
    BY <1>2, CommandType1, CommandKinds DEF SendStates
  <1>4. Shaped(e) /\ WritesFrom(e, 0, Len(Command))
    BY <1>1, <1>3, LogNow
  <1>5. \A k \in 1 .. Len(Command) : Command[k].t = Kind(e, 0 + k)
    BY <1>3
  <1>6. /\ \A i \in 1 .. Len(out'[e]) : out'[e][i].t = Kind(e, i)
        /\ Len(out'[e]) = 0 + Len(Command)
        /\ LogGrows(e)
        /\ LineStage(e, "PAYLOAD")
        /\ send'[e].payloadBytes = send[e].payloadBytes
        /\ send'[e].requestedBytes = send[e].requestedBytes
        /\ send'[e].requestedZero = send[e].requestedZero
    BY <1>1, <1>3, <1>4, <1>5, LineLogs DEF LogGrows
  <1>7. send[e].payloadBytes = 0
    BY <1>1 DEF Agreed, WritesInBounds
  <1>8. Preamble(e) \in Nat
    BY PreambleFacts
  <1>9. Len(out'[e]) \in Nat /\ put'[e] \in Nat /\ Pending(e)' = Len(out'[e]) - put'[e]
    BY LogTypesNext
  <1>10. \/ send'[e].state = "COMMAND" /\ WroteFrom(e, 0, Preamble(e))
         \/ send'[e].state = "ERROR"
         \/ /\ send'[e].state = "PAYLOAD" /\ Pending(e)' = 0
            /\ put'[e] = Preamble(e) + send'[e].payloadBytes
    BY <1>1, <1>3, <1>6, <1>7, <1>8, <1>9 DEF LineStage, WroteFrom
  <1>11. LogInOrder(e)'
    BY <1>1, <1>6, <1>7, <1>10, LogNext
  <1> QED
    BY <1>6, <1>11

\* The response is the server's and comes first.
LEMMA writeResponseLogs ==
  ASSUME TypeOK, TypeOK', Agreed, NEW e \in Ends, LogInOrder(e), writeResponse(e)
  PROVE  LogInOrder(e)' /\ LogGrows(e)
  <1> DEFINE line == <<Tok("auth", 0), Tok("hdr", Verdict(error[e] = "NONE")), Tok("nl", 0)>>
             next == IF error[e] = "NONE" THEN "PAYLOAD" ELSE "SUCCESS"
  <1>1. /\ todo[e] # <<>> /\ send[e].state = "RESPONSE" /\ cmd' = cmd
        /\ WriteLine(e, line, next)
    BY DEF writeResponse, Writing
  <1>2. e = "server"
    BY <1>1, EndNames DEF Agreed, ClientAccepted
  <1>3. Preamble(e) = 3
    BY <1>2, PreambleFacts
  <1>4. line \in Seq(Tokens) /\ Len(line) = 3 /\ Len(line) > 0 /\ next \in SendStates
    BY LineTypes DEF SendStates
  <1>5. line[1].t = "auth" /\ line[2].t = "hdr" /\ line[3].t = "nl"
    BY LineTypes
  <1> HIDE DEF line
  <1>6. \A k \in 1 .. Len(line) : line[k].t = Kind(e, 0 + k)
    <2>1. \A k \in 1 .. 3 : k = 1 \/ k = 2 \/ k = 3
      OBVIOUS
    <2>2. Kind(e, 0 + 1) = "auth" /\ Kind(e, 0 + 2) = "hdr" /\ Kind(e, 0 + 3) = "nl"
      BY HandshakeKinds
    <2> QED
      BY <1>4, <1>5, <2>1, <2>2
  <1>7. Shaped(e) /\ WritesFrom(e, 0, Len(line))
    BY <1>1, <1>3, <1>4, LogNow
  <1>8. /\ \A i \in 1 .. Len(out'[e]) : out'[e][i].t = Kind(e, i)
        /\ Len(out'[e]) = 0 + Len(line)
        /\ LogGrows(e)
        /\ LineStage(e, next)
        /\ send'[e].payloadBytes = send[e].payloadBytes
        /\ send'[e].requestedBytes = send[e].requestedBytes
        /\ send'[e].requestedZero = send[e].requestedZero
    <2> HIDE DEF next
    <2> QED
      BY <1>1, <1>4, <1>6, <1>7, LineLogs DEF LogGrows
  <1>9. send[e].payloadBytes = 0
    BY <1>1 DEF Agreed, WritesInBounds
  <1>10. Len(out'[e]) \in Nat /\ put'[e] \in Nat /\ Pending(e)' = Len(out'[e]) - put'[e]
    BY LogTypesNext
  <1>11. \/ send'[e].state = "RESPONSE" /\ WroteFrom(e, 0, Preamble(e))
         \/ send'[e].state \in {"ERROR", "SUCCESS"}
         \/ /\ send'[e].state = "PAYLOAD" /\ Pending(e)' = 0
            /\ put'[e] = Preamble(e) + send'[e].payloadBytes
    BY <1>1, <1>3, <1>4, <1>8, <1>9, <1>10 DEF LineStage, WroteFrom
  <1>12. LogInOrder(e)'
    BY <1>1, <1>8, <1>9, <1>11, LogNext
  <1> QED
    BY <1>8, <1>12

\* The checksum follows the payload that was requested.
LEMMA writeChecksumLogs ==
  ASSUME TypeOK, TypeOK', NEW e \in Ends, LogInOrder(e), writeChecksum(e)
  PROVE  LogInOrder(e)' /\ LogGrows(e)
  <1> DEFINE line == <<Tok("sum", send[e].payloadBytes), Tok("nl", 0)>>
  <1>1. /\ todo[e] # <<>> /\ send[e].state = "CHECKSUM" /\ cmd' = cmd
        /\ WriteLine(e, line, "FOOTER") /\ send[e].requestedBytes > 0
    BY DEF writeChecksum, Writing
  <1>2. send[e].payloadBytes \in Nat /\ send[e].requestedBytes \in Nat /\ Preamble(e) \in Nat
    BY EndTypes, PreambleFacts
  <1>3. /\ line \in Seq(Tokens) /\ Len(line) = 2 /\ Len(line) > 0 /\ "FOOTER" \in SendStates
        /\ line[1].t = "sum" /\ line[2].t = "nl"
    BY <1>2, LineTypes DEF SendStates
  <1> HIDE DEF line
  <1>4. send[e].payloadBytes = send[e].requestedBytes
    BY <1>1, LogNow
  <1>5. PICK base \in Nat : base = Preamble(e) + send[e].payloadBytes
    BY <1>2
  <1>6. SumLen(e) = 2
    BY <1>1 DEF SumLen
  <1>7. Shaped(e) /\ WritesFrom(e, base, Len(line))
    BY <1>1, <1>3, <1>5, <1>6, LogNow
  <1>8. \A k \in 1 .. Len(line) : line[k].t = Kind(e, base + k)
    <2>1. Kind(e, base + 1) = "sum" /\ Kind(e, base + 2) = "nl"
      BY <1>1, <1>4, <1>5, TrailerKinds DEF Sized
    <2>2. \A k \in 1 .. 2 : k = 1 \/ k = 2
      OBVIOUS
    <2> QED
      BY <1>3, <2>1, <2>2
  <1>9. /\ \A i \in 1 .. Len(out'[e]) : out'[e][i].t = Kind(e, i)
        /\ Len(out'[e]) = base + Len(line)
        /\ LogGrows(e)
        /\ LineStage(e, "FOOTER")
        /\ send'[e].payloadBytes = send[e].payloadBytes
        /\ send'[e].requestedBytes = send[e].requestedBytes
        /\ send'[e].requestedZero = send[e].requestedZero
    BY <1>1, <1>3, <1>7, <1>8, LineLogs DEF LogGrows
  <1>10. \/ /\ send'[e].state = "CHECKSUM"
            /\ WroteFrom(e, Preamble(e) + send'[e].payloadBytes, SumLen(e))
         \/ send'[e].state = "ERROR"
         \/ /\ send'[e].state = "FOOTER"
            /\ WroteFrom(e, Preamble(e) + send'[e].payloadBytes + SumLen(e), 2)
    BY <1>1, <1>3, <1>5, <1>6, <1>9 DEF LineStage, WroteFrom
  <1>11. LogInOrder(e)'
    BY <1>1, <1>4, <1>9, <1>10, LogNext
  <1> QED
    BY <1>9, <1>11

\* The footer comes last.
LEMMA writeFooterLogs ==
  ASSUME TypeOK, TypeOK', NEW e \in Ends, LogInOrder(e), writeFooter(e)
  PROVE  LogInOrder(e)' /\ LogGrows(e)
  <1> DEFINE line == <<Tok("fin", 0), Tok("nl", 0)>>
  <1>1. /\ todo[e] # <<>> /\ send[e].state = "FOOTER" /\ cmd' = cmd
        /\ WriteLine(e, line, "FLUSH") /\ Sized(send[e])
    BY DEF writeFooter, Writing
  <1>2. send[e].payloadBytes \in Nat /\ send[e].requestedBytes \in Nat /\ Preamble(e) \in Nat
    BY EndTypes, PreambleFacts
  <1>3. /\ line \in Seq(Tokens) /\ Len(line) = 2 /\ Len(line) > 0 /\ "FLUSH" \in SendStates
        /\ line[1].t = "fin" /\ line[2].t = "nl"
    BY LineTypes DEF SendStates
  <1> HIDE DEF line
  <1>4. send[e].payloadBytes = send[e].requestedBytes
    BY <1>1, <1>2, LogNow DEF Sized
  <1>5. PICK base \in Nat : base = Preamble(e) + send[e].payloadBytes + SumLen(e)
    BY <1>2 DEF SumLen
  <1>6. Shaped(e) /\ WritesFrom(e, base, Len(line))
    BY <1>1, <1>3, <1>5, LogNow
  <1>7. \A k \in 1 .. Len(line) : line[k].t = Kind(e, base + k)
    <2>1. Kind(e, base + 1) = "fin" /\ Kind(e, base + 2) = "nl"
      <3>1. PICK b \in Nat : b = Preamble(e) + send[e].requestedBytes
        BY <1>2
      <3>2. CASE send[e].requestedBytes > 0
        <4>1. base + 1 = b + 3 /\ base + 2 = b + 4
          BY <1>2, <1>4, <1>5, <3>1, <3>2 DEF SumLen
        <4>2. Kind(e, b + 3) = "fin" /\ Kind(e, b + 4) = "nl"
          BY <1>1, <3>1, <3>2, TrailerKinds
        <4> QED
          BY <4>1, <4>2
      <3>3. CASE send[e].requestedBytes = 0
        <4>1. base = b
          BY <1>2, <1>4, <1>5, <3>1, <3>3 DEF SumLen
        <4> QED
          BY <1>1, <3>1, <3>3, <4>1, TrailerKinds
      <3> QED
        BY <1>2, <3>2, <3>3
    <2>2. \A k \in 1 .. 2 : k = 1 \/ k = 2
      OBVIOUS
    <2> QED
      BY <1>3, <2>1, <2>2
  <1>8. /\ \A i \in 1 .. Len(out'[e]) : out'[e][i].t = Kind(e, i)
        /\ Len(out'[e]) = base + Len(line)
        /\ LogGrows(e)
        /\ LineStage(e, "FLUSH")
        /\ send'[e].payloadBytes = send[e].payloadBytes
        /\ send'[e].requestedBytes = send[e].requestedBytes
        /\ send'[e].requestedZero = send[e].requestedZero
    BY <1>1, <1>3, <1>6, <1>7, LineLogs DEF LogGrows
  <1>9. \/ /\ send'[e].state = "FOOTER"
           /\ WroteFrom(e, Preamble(e) + send'[e].payloadBytes + SumLen(e), 2)
        \/ send'[e].state \in {"ERROR", "FLUSH"}
    BY <1>1, <1>3, <1>5, <1>8 DEF LineStage, WroteFrom
  <1>10. LogInOrder(e)'
    BY <1>1, <1>4, <1>8, <1>9, LogNext
  <1> QED
    BY <1>8, <1>10

\* A stage that writes nothing new starts where the one before has ended.
LEMMA SkipLogs ==
  ASSUME TypeOK, Agreed, NEW e \in Ends, LogInOrder(e), WriteOutcome(e), Skips(e)
  PROVE  LogInOrder(e)' /\ LogGrows(e)
  <1>1. /\ cmd' = cmd /\ out' = out /\ put' = put
        /\ send'[e].payloadBytes = send[e].payloadBytes
        /\ send'[e].requestedBytes = send[e].requestedBytes
        /\ send'[e].requestedZero = send[e].requestedZero
    BY DEF WriteOutcome, Skips, SizesStay
  <1>2. /\ send[e].payloadBytes \in Nat /\ send[e].requestedBytes \in Nat
        /\ Preamble(e) \in Nat
    BY EndTypes, PreambleFacts
  <1>3. Len(out[e]) \in Nat /\ put[e] \in Nat /\ Pending(e) = Len(out[e]) - put[e]
    BY LogTypes
  <1>4. Pending(e)' = Pending(e) /\ Len(out'[e]) = Len(out[e]) /\ out'[e] = out[e]
    BY <1>1 DEF Pending
  <1>5. \A i \in 1 .. Len(out'[e]) : out'[e][i].t = Kind(e, i)
    BY <1>4, LogNow DEF Shaped
  <1>6. LogGrows(e)
    BY <1>3, <1>4 DEF LogGrows
  <1>7. WritesInBounds(e)
    BY DEF Agreed
  <1>8. CASE send'[e].state = send[e].state
    <2>1. /\ send'[e].state \in {"COMMAND", "RESPONSE"} => WroteFrom(e, 0, Preamble(e))
          /\ send'[e].state = "CHECKSUM" =>
               WroteFrom(e, Preamble(e) + send'[e].payloadBytes, SumLen(e))
          /\ send'[e].state = "FOOTER" =>
               WroteFrom(e, Preamble(e) + send'[e].payloadBytes + SumLen(e), 2)
      BY <1>1, <1>4, <1>8, LogNow DEF WritesFrom, WroteFrom
    <2>2. /\ send'[e].state = "NONE" => out'[e] = <<>>
          /\ send'[e].state = "PAYLOAD" => put'[e] = Preamble(e) + send'[e].payloadBytes
      BY <1>1, <1>8, LogNow
    <2>3. /\ send'[e].state \in {"PAYLOAD", "CHECKSUM", "FOOTER"}
               /\ send[e].requestedBytes = 0 /\ send[e].requestedZero =>
               send'[e].payloadBytes = 0 /\ (send'[e].state = "PAYLOAD" => Pending(e)' = 0)
          /\ send'[e].state \in {"CHECKSUM", "FOOTER"} /\ send[e].requestedBytes > 0 =>
               send'[e].payloadBytes = send[e].requestedBytes
      BY <1>1, <1>4, <1>8, LogNow
    <2> QED
      BY <1>1, <1>5, <1>6, <2>1, <2>2, <2>3, LogNext
  <1>9. CASE /\ send[e].state = "PAYLOAD" /\ send'[e].state = "CHECKSUM"
             /\ DoneSending(e) /\ Pending(e) = 0
    <2>1. put[e] = Preamble(e) + send[e].payloadBytes
      BY <1>9, LogNow
    <2>2. Len(out[e]) = Preamble(e) + send[e].payloadBytes
      BY <1>3, <1>9, <2>1
    <2>3. WroteFrom(e, Preamble(e) + send'[e].payloadBytes, SumLen(e))
      BY <1>1, <1>4, <1>9, <2>2 DEF WroteFrom
    <2>4. send[e].requestedBytes > 0 => send[e].payloadBytes = send[e].requestedBytes
      BY <1>2, <1>7, <1>9 DEF WritesInBounds, DoneSending
    <2>5. send[e].requestedBytes = 0 /\ send[e].requestedZero => send[e].payloadBytes = 0
      BY <1>9, LogNow
    <2> QED
      BY <1>1, <1>5, <1>6, <1>9, <2>3, <2>4, <2>5, LogNext
  <1>10. CASE /\ send[e].state = "CHECKSUM" /\ send'[e].state = "FOOTER"
              /\ send[e].requestedBytes = 0
    <2>1. Pending(e) = 0 /\ SumLen(e) = 0
      BY <1>7, <1>10 DEF WritesInBounds, SumLen
    <2>2. Len(out[e]) = Preamble(e) + send[e].payloadBytes
      BY <1>2, <1>10, <2>1, LogNow DEF WritesFrom
    <2>3. WroteFrom(e, Preamble(e) + send'[e].payloadBytes + SumLen(e), 2)
      BY <1>1, <1>2, <1>4, <2>1, <2>2 DEF WroteFrom
    <2>4. send[e].requestedZero => send[e].payloadBytes = 0
      BY <1>10, LogNow
    <2> QED
      BY <1>1, <1>2, <1>5, <1>6, <1>10, <2>3, <2>4, LogNext
  <1>11. CASE send'[e].state \in {"FLUSH", "SUCCESS"}
    BY <1>1, <1>5, <1>6, <1>11, LogNext
  <1> QED
    BY <1>6, <1>8, <1>9, <1>10, <1>11 DEF Skips

\* What is left of the payload is written.
LEMMA FlushLogs ==
  ASSUME TypeOK, TypeOK', NEW e \in Ends, LogInOrder(e), WriteOutcome(e), Flushes(e)
  PROVE  LogInOrder(e)' /\ LogGrows(e)
  <1>1. /\ cmd' = cmd /\ out' = out /\ send[e].state = "PAYLOAD"
        /\ send'[e].requestedBytes = send[e].requestedBytes
        /\ send'[e].requestedZero = send[e].requestedZero
    BY DEF WriteOutcome, Flushes, SizesStay
  <1>2. /\ send[e].payloadBytes \in Nat /\ Preamble(e) \in Nat
        /\ send'[e].payloadBytes \in Nat /\ Pending(e)' \in Nat
    BY EndTypes, EndTypesNext, PreambleFacts
  <1>3. Len(out[e]) \in Nat /\ put[e] \in Nat /\ Pending(e) = Len(out[e]) - put[e]
    BY LogTypes
  <1>4. put'[e] \in Nat /\ Pending(e)' = Len(out[e]) - put'[e]
    BY <1>1, LogTypesNext
  <1>5. \A i \in 1 .. Len(out'[e]) : out'[e][i].t = Kind(e, i)
    BY <1>1, LogNow DEF Shaped
  <1>6. LogGrows(e)
    BY <1>1, <1>3 DEF LogGrows
  <1>7. put[e] = Preamble(e) + send[e].payloadBytes
    BY <1>1, LogNow
  <1>8. CASE send'[e].state = "ERROR"
    BY <1>1, <1>5, <1>6, <1>8, LogNext
  <1>9. CASE /\ send'[e].state = "PAYLOAD"
             /\ send'[e].payloadBytes + Pending(e)' = send[e].payloadBytes + Pending(e)
    <2>1. put'[e] = Preamble(e) + send'[e].payloadBytes
      <3>1. PICK n \in Nat, p \in Nat, q \in Nat : n = Len(out[e]) /\ p = put[e] /\ q = put'[e]
        BY <1>3, <1>4
      <3>2. PICK a \in Nat, b \in Nat, P \in Nat :
              a = send[e].payloadBytes /\ b = send'[e].payloadBytes /\ P = Preamble(e)
        BY <1>2
      <3>3. p = P + a /\ b + (n - q) = a + (n - p)
        BY <1>3, <1>4, <1>7, <1>9, <3>1, <3>2
      <3>4. q = P + b
        BY <3>3
      <3> QED
        BY <3>1, <3>2, <3>4
    <2>2. send[e].requestedBytes = 0 /\ send[e].requestedZero =>
            send'[e].payloadBytes = 0 /\ Pending(e)' = 0
      <3> SUFFICES ASSUME send[e].requestedBytes = 0, send[e].requestedZero
                   PROVE  send'[e].payloadBytes = 0 /\ Pending(e)' = 0
        OBVIOUS
      <3>1. send[e].payloadBytes = 0 /\ Pending(e) = 0
        BY <1>1, LogNow
      <3>2. \A a, b \in Nat : a + b = 0 + 0 => a = 0 /\ b = 0
        OBVIOUS
      <3> QED
        BY <1>2, <1>9, <3>1, <3>2
    <2> QED
      BY <1>1, <1>5, <1>6, <1>9, <2>1, <2>2, LogNext
  <1> QED
    BY <1>8, <1>9 DEF Flushes

\* Payload is logged only where payload belongs.
LEMMA WalkLogs ==
  ASSUME TypeOK, TypeOK', NEW e \in Ends, LogInOrder(e), WriteOutcome(e), WalksOn(e)
  PROVE  LogInOrder(e)' /\ LogGrows(e)
  <1>1. /\ cmd' = cmd /\ send[e].state = "PAYLOAD" /\ ~DoneSending(e)
        /\ send'[e].requestedBytes = send[e].requestedBytes
        /\ send'[e].requestedZero = send[e].requestedZero
        /\ send'[e].state \in {"PAYLOAD", "ERROR"} /\ PayloadAppended(e)
    BY DEF WriteOutcome, WalksOn, SizesStay
  <1>2. /\ send[e].payloadBytes \in Nat /\ send[e].requestedBytes \in Nat
        /\ Preamble(e) \in Nat /\ Preamble(e) >= 3 /\ send'[e].payloadBytes \in Nat
    BY EndTypes, EndTypesNext, PreambleFacts
  <1>3. Len(out[e]) \in Nat /\ put[e] \in Nat /\ put[e] <= Len(out[e])
    BY LogTypes
  <1>4. Len(out'[e]) \in Nat /\ put'[e] \in Nat
    BY LogTypesNext
  <1>5. LogGrows(e)
    BY <1>1 DEF LogGrows, PayloadAppended
  <1>6. put[e] = Preamble(e) + send[e].payloadBytes
    BY <1>1, LogNow
  <1>7. ASSUME NEW i \in 1 .. Len(out'[e])
        PROVE  out'[e][i].t = Kind(e, i)
    <2>1. CASE i \in 1 .. Len(out[e])
      BY <1>5, <2>1, LogNow DEF LogGrows, Shaped
    <2>2. CASE i \in Len(out[e]) + 1 .. Len(out'[e])
      <3>1. out'[e][i].t = "data"
        BY <1>1, <2>2 DEF PayloadAppended
      <3>2. i \in Nat /\ i > Preamble(e)
        BY <1>2, <1>3, <1>4, <1>6, <2>2
      <3>3. CASE send[e].requestedBytes > 0
        <4>1. send[e].payloadBytes + Len(out'[e]) <= send[e].requestedBytes + put[e]
          BY <1>1, <3>3 DEF PayloadAppended
        <4>2. i <= Preamble(e) + send[e].requestedBytes
          <5>1. \A a, b, c, d, f \in Nat : a + d <= b + (f + a) /\ c <= d => c <= f + b
            OBVIOUS
          <5>2. i \in Nat /\ i <= Len(out'[e])
            BY <1>3, <1>4, <2>2
          <5>3. send[e].payloadBytes + Len(out'[e])
                  <= send[e].requestedBytes + (Preamble(e) + send[e].payloadBytes)
            BY <1>6, <4>1
          <5> QED
            BY <1>2, <1>4, <5>1, <5>2, <5>3
        <4> QED
          BY <3>1, <3>2, <4>2, PayloadKinds
      <3>4. CASE send[e].requestedBytes = 0
        <4>1. ~Sized(send[e])
          BY <1>1, <3>4 DEF Sized, DoneSending
        <4> QED
          BY <3>1, <3>2, <4>1, PayloadKinds
      <3> QED
        BY <1>2, <3>3, <3>4
    <2>3. i \in 1 .. Len(out[e]) \/ i \in Len(out[e]) + 1 .. Len(out'[e])
      BY <1>3, <1>4
    <2> QED
      BY <2>1, <2>2, <2>3
  <1>8. send'[e].state = "PAYLOAD" => put'[e] = Preamble(e) + send'[e].payloadBytes
    <2>1. send'[e].state = "PAYLOAD" =>
            put'[e] + send[e].payloadBytes = put[e] + send'[e].payloadBytes
      BY <1>1 DEF PayloadAppended
    <2>2. PICK p \in Nat, q \in Nat : p = put[e] /\ q = put'[e]
      BY <1>3, <1>4
    <2>3. PICK a \in Nat, b \in Nat, P \in Nat :
            a = send[e].payloadBytes /\ b = send'[e].payloadBytes /\ P = Preamble(e)
      BY <1>2
    <2>4. p = P + a /\ (send'[e].state = "PAYLOAD" => q + a = p + b)
      BY <1>6, <2>1, <2>2, <2>3
    <2>5. send'[e].state = "PAYLOAD" => q = P + b
      BY <2>4
    <2> QED
      BY <2>2, <2>3, <2>5
  <1>9. ~(send[e].requestedBytes = 0 /\ send[e].requestedZero)
    BY <1>1 DEF DoneSending
  <1> QED
    BY <1>1, <1>5, <1>7, <1>8, <1>9, LogNext

\* Every stage of onWritable keeps its log in order.
LEMMA WriteLogs ==
  ASSUME TypeOK, TypeOK', Agreed, NEW e \in Ends, LogInOrder(e), onWritable(e)
  PROVE  LogInOrder(e)' /\ LogGrows(e)
  <1>1. WriteOutcome(e)
    BY onWritableOutcome
  <1>2. CASE writeCommand(e) \/ writeResponse(e) \/ writeChecksum(e) \/ writeFooter(e)
    BY <1>2, writeCommandLogs, writeResponseLogs, writeChecksumLogs, writeFooterLogs
  <1>3. CASE \/ flushPayload(e) \/ endPayload(e) \/ writePayload(e) \/ skipSendChecksum(e)
             \/ skipSendFooter(e) \/ holdFooter(e) \/ flush(e) \/ endWritable(e)
    <2>1. CASE flushPayload(e) \/ endPayload(e) \/ writePayload(e)
      <3>1. send[e].state = "PAYLOAD"
        BY <2>1 DEF flushPayload, endPayload, writePayload, Writing
      <3> QED
        BY <1>1, <3>1, SkipLogs, FlushLogs, WalkLogs
          DEF WriteOutcome, SaysCommand, SaysResponse, SaysChecksum, SaysFooter
    <2>2. CASE skipSendChecksum(e) \/ skipSendFooter(e) \/ holdFooter(e) \/ flush(e)
               \/ endWritable(e)
      <3>1. \/ send[e].state = "CHECKSUM" /\ send[e].requestedBytes = 0
            \/ send[e].state = "FOOTER" /\ (~Sized(send[e]) \/ ~ReceivedAll(e))
            \/ send[e].state \in {"FLUSH", "NONE", "SUCCESS", "ERROR"}
        BY <2>2 DEF skipSendChecksum, skipSendFooter, holdFooter, flush, endWritable, Writing
      <3>2. Skips(e)
        BY <1>1, <3>1 DEF WriteOutcome, SaysCommand, SaysResponse, SaysChecksum, SaysFooter,
          Flushes, WalksOn
      <3> QED
        BY <1>1, <3>2, SkipLogs
    <2> QED
      BY <1>3, <2>1, <2>2
  <1> QED
    BY <1>2, <1>3 DEF onWritable

\* A step at the other end leaves the log of this end alone.
LEMMA LogFrame ==
  ASSUME NEW x \in Ends, LogInOrder(x), send'[x] = send[x], out'[x] = out[x],
         put'[x] = put[x], cmd' = cmd
  PROVE  LogInOrder(x)'
  <1>1. Pending(x)' = Pending(x)
    BY DEF Pending
  <1> QED
    BY <1>1, LogNow, LogNext DEF WritesFrom, WroteFrom, Shaped

-----------------------------------------------------------------------------
(* Reading: what is taken is what its kind says.                            *)

\* The first n tokens of the peer that are payload.
DataIn(e, n) == {i \in 1 .. n : out[Peer(e)][i].t = "data"}

\* The peer's log up to what has been read is what it was.
SameUpTo(e, n) == \A i \in 1 .. n : out'[Peer(e)][i] = out[Peer(e)][i]

\* What has been read is in the peer's log.
LEMMA ReadLogged ==
  ASSUME TypeOK, NEW e \in Ends
  PROVE  /\ Peer(e) \in Ends /\ Len(out[Peer(e)]) \in Nat /\ out[Peer(e)] \in Seq(Tokens)
         /\ used[e] \in Nat /\ got[e] \in Nat /\ arr[e] \in Nat
         /\ used[e] <= got[e] /\ got[e] <= arr[e] /\ arr[e] <= Len(out[Peer(e)])
  <1>1. Peer(e) \in Ends
    BY PeerFacts
  <1>2. /\ arr[e] <= put[Peer(e)] /\ put[Peer(e)] <= Len(out[Peer(e)])
        /\ arr[e] \in Nat /\ put[Peer(e)] \in Nat /\ Len(out[Peer(e)]) \in Nat
        /\ out[Peer(e)] \in Seq(Tokens)
    BY <1>1, LogTypes
  <1> QED
    BY <1>1, <1>2, LogTypes

\* A log that only grows is what it was up to what has been read.
LEMMA GrownSame ==
  ASSUME TypeOK, NEW e \in Ends, out'[Peer(e)] = out[Peer(e)] \/ LogGrows(Peer(e))
  PROVE  SameUpTo(e, got[e])
  <1>1. /\ Len(out[Peer(e)]) \in Nat /\ got[e] \in Nat /\ got[e] <= Len(out[Peer(e)])
    <2>1. /\ Len(out[Peer(e)]) \in Nat /\ got[e] \in Nat /\ arr[e] \in Nat
          /\ got[e] <= arr[e] /\ arr[e] <= Len(out[Peer(e)])
      BY ReadLogged
    <2> QED
      BY <2>1
  <1>2. \A i \in 1 .. got[e] : i \in 1 .. Len(out[Peer(e)])
    BY <1>1
  <1> QED
    BY <1>2 DEF LogGrows, SameUpTo

\* A step that reads nothing and keeps the state keeps what was taken in order.
LEMMA TakenFrame ==
  ASSUME TypeOK, NEW e \in Ends, TakenInOrder(e), SameUpTo(e, got[e]),
         got'[e] = got[e], used'[e] = used[e], cmd' = cmd,
         recv'[e].state = recv[e].state
           \/ (recv[e].state = "NONE" /\ recv'[e].state = "AUTHENTICATE"),
         recv'[e].payloadBytes = recv[e].payloadBytes,
         recv'[e].modelBytes = recv[e].modelBytes,
         recv'[e].requestedBytes = recv[e].requestedBytes,
         recv'[e].requestedZero = recv[e].requestedZero,
         mmodel'[e].loaded = mmodel[e].loaded,
         InPhase(e, "read") => InPhase(e, "read")',
         error[e] # "NONE" => error'[e] # "NONE",
         Gone(e) => Gone(e)',
         todo'[e] = <<>> /\ error'[e] # "NONE" => Gone(e)'
  PROVE  TakenInOrder(e)'
  <1>1. used[e] \in Nat /\ got[e] \in Nat /\ used[e] <= got[e]
    BY ReadLogged
  <1>2. DataIn(e, used[e])' = DataIn(e, used[e])
    <2>1. \A i \in 1 .. used[e] : i \in 1 .. got[e]
      BY <1>1
    <2> QED
      BY <2>1 DEF DataIn, SameUpTo
  <1>3. Newlines(e, got[e])' = Newlines(e, got[e])
    <2>1. \A i \in used[e] + 1 .. got[e] : i \in 1 .. got[e]
      BY <1>1
    <2> QED
      BY <2>1 DEF Newlines, SameUpTo
  <1>4. Buffered(e)' = Buffered(e)
    BY DEF Buffered
  <1>5. Preamble(Peer(e))' = Preamble(Peer(e))
    BY DEF Preamble
  <1>6. recv'[e].payloadBytes = Cardinality({i \in 1 .. used'[e] : out'[Peer(e)][i].t = "data"})
    BY <1>2 DEF TakenInOrder, DataIn
  <1>7. /\ recv'[e].state \in {"NONE", "AUTHENTICATE"} => used'[e] = 0 /\ got'[e] = 0
        /\ recv'[e].state \in {"NONE", "AUTHENTICATE", "HEADER"} => recv'[e].modelBytes = 0
        /\ recv'[e].state = "HEADER" => used'[e] = 1 /\ Newlines(e, got[e])' = {}
        /\ recv'[e].state = "MODEL" => /\ e = "server" /\ used'[e] = 3 + recv'[e].modelBytes
                                       /\ mmodel'[e].loaded = cmd'.path
                                       /\ cmd'.path => recv'[e].modelBytes = 0
    BY <1>3 DEF TakenInOrder
  <1>8. /\ recv'[e].state \in {"PAYLOAD", "CHECKSUM"} =>
             used'[e] = Preamble(Peer(e))' + recv'[e].payloadBytes
        /\ recv'[e].state = "FOOTER" =>
             used'[e] = Preamble(Peer(e))' + recv'[e].payloadBytes
                          + (IF recv'[e].requestedBytes > 0 THEN 2 ELSE 0)
        /\ recv'[e].state \in {"PAYLOAD", "CHECKSUM", "FOOTER"} /\ recv'[e].requestedBytes = 0
             /\ recv'[e].requestedZero => recv'[e].payloadBytes = 0
        /\ recv'[e].state \in {"MODEL", "PAYLOAD"} => Buffered(e)' <= ReadMax
        /\ recv'[e].state \in {"CHECKSUM", "FOOTER"} /\ ~Sized(recv'[e]) => Buffered(e)' = 0
        /\ recv'[e].state = "SUCCESS" => Buffered(e)' = 0 \/ Gone(e)'
    BY <1>4, <1>5 DEF TakenInOrder, Sized
  <1>9. \/ InPhase(e, "read")' \/ Buffered(e)' = 0 \/ error'[e] # "NONE" \/ Gone(e)'
        \/ recv'[e].state \in {"HEADER", "CHECKSUM", "FOOTER"} /\ Newlines(e, got[e])' = {}
    BY <1>3, <1>4 DEF TakenInOrder
  <1> QED
    BY <1>6, <1>7, <1>8, <1>9 DEF TakenInOrder

\* A stream that is over needs only its count and its end in order.
LEMMA TakenOver ==
  ASSUME NEW e \in Ends, recv'[e].state = "ERROR" \/ Gone(e)',
         recv'[e].payloadBytes = Cardinality({i \in 1 .. used'[e] : out'[Peer(e)][i].t = "data"}),
         recv'[e].state \in {"ERROR", "SUCCESS"}, error'[e] # "NONE" \/ Gone(e)',
         todo'[e] = <<>> /\ error'[e] # "NONE" => Gone(e)'
  PROVE  TakenInOrder(e)'
  BY DEF TakenInOrder

\* A step of the other end that leaves what is taken here alone.
LEMMA OtherTaken ==
  ASSUME TypeOK, NEW e \in Ends, NEW x \in Ends, x # e, TakenInOrder(x), OtherStays(e),
         out'[e] = out[e] \/ LogGrows(e), cmd' = cmd,
         got'[x] = got[x], used'[x] = used[x], todo'[x] = todo[x],
         transport'[x] = transport[x]
  PROVE  TakenInOrder(x)'
  <1>1. Peer(x) = e
    BY EndNames
  <1>2. SameUpTo(x, got[x])
    BY <1>1, GrownSame
  <1>3. /\ recv'[x] = recv[x] /\ error'[x] = error[x] /\ mmodel'[x] = mmodel[x]
    BY DEF OtherStays
  <1>4. (InPhase(x, "read") => InPhase(x, "read")') /\ (Gone(x) <=> Gone(x)')
    BY DEF InPhase, Gone
  <1>5. todo'[x] = <<>> /\ error'[x] # "NONE" => Gone(x)'
    BY <1>3, <1>4 DEF TakenInOrder
  <1> QED
    BY <1>2, <1>3, <1>4, <1>5, TakenFrame

\* A phase that reads or writes is not the last of its event.
LEMMA MoreToDo ==
  ASSUME TypeOK, NEW e \in Ends, DeferralKept(e), todo[e] # <<>>,
         Head(todo[e]) \in {"read", "barrier", "write", "undefer"}, todo' = todo \/ Leave(e)
  PROVE  todo'[e] # <<>> /\ \A x \in Ends \ {e} : todo'[x] = todo[x]
  <1>1. TailFits(todo[e])
    BY PlanTails DEF DeferralKept
  <1>2. CASE todo' = todo
    BY <1>2
  <1>3. CASE Leave(e)
    BY <1>1, <1>3, LeaveStays DEF TailFits
  <1> QED
    BY <1>2, <1>3

\* Writing leaves what is taken in order at both ends.
LEMMA WriteTaken ==
  ASSUME TypeOK, EndsInOrder, NEW e \in Ends, DeferralKept(e), WriteOutcome(e), LogGrows(e),
         \A x \in Ends : TakenInOrder(x)
  PROVE  \A x \in Ends : TakenInOrder(x)'
  <1>1. /\ todo[e] # <<>> /\ Head(todo[e]) = "write"
        /\ UNCHANGED <<cmd, transport, got, used>>
        /\ todo' = todo \/ Leave(e)
        /\ OtherStays(e)
        /\ \A x \in Ends \ {e} : out'[x] = out[x]
        /\ SizesStay(e)
        /\ error[e] # "NONE" => error'[e] # "NONE"
    BY DEF WriteOutcome
  <1>2. todo'[e] # <<>> /\ \A x \in Ends \ {e} : todo'[x] = todo[x]
    BY <1>1, MoreToDo
  <1>3. \/ recv'[e].state = recv[e].state
        \/ recv[e].state = "NONE" /\ recv'[e].state = "AUTHENTICATE"
    <2>1. send[e].state = "COMMAND" => recv[e].state = "NONE"
      BY DEF EndsInOrder, EndInv, StatesAgree
    <2> QED
      BY <2>1 DEF WriteOutcome, SaysCommand, SaysResponse, SaysChecksum, SaysFooter, Skips, Flushes,
        WalksOn
  <1>4. mmodel'[e].loaded = mmodel[e].loaded
    BY DEF WriteOutcome, SaysCommand, SaysResponse, SaysChecksum, SaysFooter, LineOut, Skips,
      Flushes, WalksOn
  <1>5. Peer(e) \in Ends \ {e}
    BY PeerFacts
  <1>6. SameUpTo(e, got[e])
    BY <1>1, <1>5, GrownSame
  <1>7. ~InPhase(e, "read") /\ (Gone(e) <=> Gone(e)')
    BY <1>1 DEF InPhase, Gone
  <1>8. TakenInOrder(e)'
    BY <1>1, <1>2, <1>3, <1>4, <1>6, <1>7, TakenFrame DEF SizesStay
  <1>9. ASSUME NEW x \in Ends, x # e
        PROVE  TakenInOrder(x)'
    BY <1>1, <1>2, <1>9, OtherTaken
  <1> QED
    BY <1>8, <1>9

-----------------------------------------------------------------------------
(* How much of the payload is counted.                                      *)

\* What is taken that is not payload is not counted.
LEMMA DataSame ==
  ASSUME NEW e \in Ends, NEW m \in Nat, NEW n \in Nat, m <= n,
         \A i \in m + 1 .. n : out[Peer(e)][i].t # "data"
  PROVE  DataIn(e, n) = DataIn(e, m)
  <1>1. \A i \in 1 .. n : i \in 1 .. m \/ i \in m + 1 .. n
    OBVIOUS
  <1>2. \A i \in 1 .. m : i \in 1 .. n
    OBVIOUS
  <1> QED
    BY <1>1, <1>2 DEF DataIn

\* What is taken that is payload is counted once.
LEMMA DataMore ==
  ASSUME NEW e \in Ends, NEW m \in Nat, NEW n \in Nat, m <= n,
         \A i \in m + 1 .. n : out[Peer(e)][i].t = "data"
  PROVE  Cardinality(DataIn(e, n)) = Cardinality(DataIn(e, m)) + (n - m)
  <1>1. IsFiniteSet(1 .. m) /\ IsFiniteSet(m + 1 .. n) /\ Cardinality(m + 1 .. n) = n - m
    <2>1. m + 1 \in Int /\ n \in Int
      OBVIOUS
    <2>2. /\ IsFiniteSet(m + 1 .. n)
          /\ Cardinality(m + 1 .. n) = IF m + 1 > n THEN 0 ELSE n - (m + 1) + 1
      BY <2>1, FS_Interval
    <2>3. IsFiniteSet(1 .. m)
      BY FS_Interval
    <2> QED
      BY <2>2, <2>3
  <1>2. IsFiniteSet(DataIn(e, m))
    <2>1. DataIn(e, m) \subseteq 1 .. m
      BY DEF DataIn
    <2> QED
      BY <1>1, <2>1, FS_Subset
  <1>3. DataIn(e, n) = DataIn(e, m) \cup (m + 1 .. n)
    <2>1. \A i \in 1 .. n : i \in 1 .. m \/ i \in m + 1 .. n
      OBVIOUS
    <2>2. (\A i \in 1 .. m : i \in 1 .. n) /\ (\A i \in m + 1 .. n : i \in 1 .. n)
      OBVIOUS
    <2> QED
      BY <2>1, <2>2 DEF DataIn
  <1>4. DataIn(e, m) \cap (m + 1 .. n) = {}
    BY DEF DataIn
  <1>5. Cardinality(DataIn(e, m) \cup (m + 1 .. n)) =
          Cardinality(DataIn(e, m)) + Cardinality(m + 1 .. n)
          - Cardinality(DataIn(e, m) \cap (m + 1 .. n))
    BY <1>1, <1>2, FS_Union
  <1>6. Cardinality(DataIn(e, m) \cap (m + 1 .. n)) = 0
    BY <1>4, FS_EmptySet
  <1>7. Cardinality(DataIn(e, m)) \in Nat
    BY <1>2, FS_CardinalityType
  <1> QED
    BY <1>1, <1>3, <1>5, <1>6, <1>7

-----------------------------------------------------------------------------
(* What a read takes.                                                       *)

\* _tgenstream_read drains recv.buffer up to its limit, and reads the socket only when
\* recv.buffer is empty.
LEMMA TakeLeaves ==
  ASSUME TypeOK, NEW e \in Ends, NEW limit \in Nat, Take(e, StreamRead(e, limit).n)
  PROVE  /\ StreamRead(e, limit).n \in Nat /\ StreamRead(e, limit).n <= limit
         /\ used'[e] = used[e] + StreamRead(e, limit).n
         /\ used'[e] <= got'[e] /\ got'[e] <= arr[e]
         /\ StreamRead(e, limit).kind # "data" =>
              /\ StreamRead(e, limit).n = 0 /\ used[e] = got[e]
              /\ used'[e] = used[e] /\ got'[e] = got[e]
         /\ Buffered(e)' = 0 \/ StreamRead(e, limit).n = limit
         /\ Buffered(e)' = 0 \/ Buffered(e)' + StreamRead(e, limit).n = Buffered(e)
         /\ Buffered(e)' \in Nat
  <1> DEFINE r == StreamRead(e, limit)
  <1>1. /\ used[e] \in Nat /\ got[e] \in Nat /\ used[e] <= got[e]
        /\ used' = [used EXCEPT ![e] = @ + r.n]
        /\ got' = [got EXCEPT ![e] = Max2(@, used[e] + r.n)]
    BY LogTypes DEF Take
  <1>2. /\ r.n \in Nat /\ r.n <= limit /\ (r.kind # "data" => r.n = 0)
    BY StreamReadBounds
  <1>3. Buffered(e) > 0 => r.kind = "data" /\ (r.n = limit \/ r.n = Buffered(e)) /\ r.n <= Buffered(e)
    <2>1. Buffered(e) \in Nat
      BY <1>1 DEF Buffered
    <2> QED
      BY <2>1 DEF StreamRead, Min2
  <1> HIDE DEF r
  <1>4. used'[e] = used[e] + r.n /\ got'[e] = Max2(got[e], used[e] + r.n)
    BY <1>1 DEF TypeOK, ChannelTypes
  <1>5. used'[e] <= got'[e] /\ got'[e] <= arr[e]
    BY TakeBounds DEF r
  <1>6. CASE Buffered(e) > 0
    <2>1. got'[e] = got[e]
      BY <1>1, <1>2, <1>3, <1>4, <1>6 DEF Max2, Buffered
    <2>2. Buffered(e)' + r.n = Buffered(e) /\ Buffered(e)' \in Nat
      BY <1>1, <1>2, <1>3, <1>4, <1>6, <2>1 DEF Buffered
    <2>3. Buffered(e)' = 0 \/ r.n = limit
      <3>1. Buffered(e) \in Nat
        BY <1>1 DEF Buffered
      <3> QED
        BY <1>2, <1>3, <1>6, <2>2, <3>1
    <2> QED
      BY <1>2, <1>3, <1>4, <1>5, <1>6, <2>2, <2>3 DEF r
  <1>7. CASE ~(Buffered(e) > 0)
    <2>1. used[e] = got[e]
      BY <1>1, <1>7 DEF Buffered
    <2>2. got'[e] = used'[e]
      BY <1>1, <1>2, <1>4, <2>1 DEF Max2
    <2>3. Buffered(e)' = 0
      BY <1>1, <1>2, <1>4, <2>2 DEF Buffered
    <2> QED
      BY <1>1, <1>2, <1>4, <1>5, <2>1, <2>2, <2>3 DEF r
  <1> QED
    BY <1>6, <1>7

\* _tgenstream_getLine takes the two tokens of a line, its text and its newline.
LEMMA LineTaken ==
  ASSUME TypeOK, NEW e \in Ends, out' = out, TakeLine(e, GetLine(e)),
         used[e] + 1 <= Len(out[Peer(e)]) => out[Peer(e)][used[e] + 1].t # "nl",
         used[e] + 2 <= Len(out[Peer(e)]) => out[Peer(e)][used[e] + 2].t = "nl"
  PROVE  /\ GetLine(e).kind \in {"line", "error", "eof", "again"}
         /\ got'[e] \in Nat /\ used'[e] \in Nat /\ got[e] <= got'[e] /\ got'[e] <= arr[e]
         /\ Newlines(e, got[e]) = {} => got'[e] <= got[e] + ReadMax
         /\ GetLine(e).kind = "line" => used'[e] = used[e] + 2 /\ used[e] + 2 <= got'[e]
         /\ GetLine(e).kind # "line" =>
              used'[e] = used[e] /\ Newlines(e, got[e]) = {}
         /\ GetLine(e).kind = "again" => Newlines(e, got[e])' = {}
         /\ GetLine(e).kind \in {"error", "eof"} => got'[e] = got[e]
  <1> DEFINE r == GetLine(e)
             s == SockRead(e, ReadMax)
  <1>1. /\ used[e] \in Nat /\ got[e] \in Nat /\ used[e] <= got[e] /\ got[e] <= arr[e]
        /\ arr[e] \in Nat /\ arr[e] <= Len(out[Peer(e)]) /\ Len(out[Peer(e)]) \in Nat
    BY ReadLogged
  <1>2. ReadMax \in Nat
    BY SizeAssumption
  <1>3. /\ r.n \in Nat /\ got[e] + r.n <= arr[e]
        /\ r.kind \in {"line", "error", "eof", "again"}
        /\ r.kind = "line" => Newlines(e, got[e] + r.n) # {}
    BY GetLineBounds
  <1>4. /\ s.n \in Nat /\ s.n <= ReadMax /\ s.kind \in {"data", "error", "eof", "again"}
        /\ s.kind # "data" => s.n = 0
    BY <1>2, SockReadBounds
  <1>5. /\ Newlines(e, got[e]) # {} => r.kind = "line" /\ r.n = 0
        /\ Newlines(e, got[e]) = {} =>
             /\ r.n <= ReadMax
             /\ r.kind = "again" => Newlines(e, got[e] + r.n) = {}
             /\ r.kind \in {"error", "eof"} => r.n = 0
    <2>1. CASE Newlines(e, got[e]) # {}
      BY <2>1 DEF GetLine
    <2>2. CASE Newlines(e, got[e]) = {}
      <3>1. CASE s.kind # "data"
        <4>1. r = s
          BY <2>2, <3>1 DEF GetLine
        <4>2. got[e] + r.n = got[e]
          BY <1>1, <1>4, <3>1, <4>1
        <4> HIDE DEF r, s
        <4> QED
          BY <1>2, <1>4, <2>2, <3>1, <4>1, <4>2
      <3>2. CASE s.kind = "data" /\ Newlines(e, got[e] + s.n) # {}
        <4>1. r.kind = "line" /\ r.n = s.n
          BY <2>2, <3>2 DEF GetLine
        <4> HIDE DEF r, s
        <4> QED
          BY <1>4, <2>2, <4>1
      <3>3. CASE s.kind = "data" /\ Newlines(e, got[e] + s.n) = {}
        <4>1. r.kind = "again" /\ r.n = s.n
          BY <2>2, <3>3 DEF GetLine
        <4> HIDE DEF r, s
        <4> QED
          BY <1>4, <2>2, <3>3, <4>1
      <3> QED
        BY <3>1, <3>2, <3>3
    <2> QED
      BY <2>1, <2>2
  <1> HIDE DEF r, s
  <1>6. got' = [got EXCEPT ![e] = @ + r.n]
    BY DEF TakeLine, r
  <1>7. got'[e] = got[e] + r.n
    BY <1>6 DEF TypeOK, ChannelTypes
  <1>8. used \in [Ends -> Nat]
    BY DEF TypeOK, ChannelTypes
  <1>9. CASE r.kind = "line"
    <2>1. PICK i \in Newlines(e, got[e] + r.n) :
            /\ \A j \in Newlines(e, got[e] + r.n) : i <= j
            /\ used' = [used EXCEPT ![e] = i]
      BY <1>9 DEF TakeLine, r
    <2>2. /\ i \in Nat /\ used[e] + 1 <= i /\ i <= got[e] + r.n
          /\ out[Peer(e)][i].t = "nl"
      BY <1>1, <1>3, <2>1 DEF Newlines
    <2>3. i # used[e] + 1
      <3>1. used[e] + 1 <= Len(out[Peer(e)])
        BY <1>1, <1>3, <2>2
      <3> QED
        BY <2>2, <3>1
    <2>4. used[e] + 2 <= i
      BY <1>1, <2>2, <2>3
    <2>5. used[e] + 2 \in Newlines(e, got[e] + r.n)
      <3>1. used[e] + 2 <= Len(out[Peer(e)])
        BY <1>1, <1>3, <2>2, <2>4
      <3>2. used[e] + 2 \in used[e] + 1 .. got[e] + r.n
        BY <1>1, <1>3, <2>2, <2>4
      <3> QED
        BY <3>1, <3>2 DEF Newlines
    <2>6. i = used[e] + 2
      BY <1>1, <2>1, <2>2, <2>4, <2>5
    <2>7. used'[e] = used[e] + 2
      BY <1>8, <2>1, <2>6
    <2>8. Newlines(e, got[e]) = {} => r.n <= ReadMax
      BY <1>5
    <2>9. got'[e] \in Nat /\ got[e] <= got'[e] /\ got'[e] <= arr[e]
      BY <1>1, <1>3, <1>7
    <2>10. Newlines(e, got[e]) = {} => got'[e] <= got[e] + ReadMax
      BY <1>1, <1>2, <1>3, <1>7, <2>8
    <2>11. used'[e] \in Nat /\ used[e] + 2 <= got'[e]
      BY <1>1, <1>3, <1>7, <2>2, <2>6, <2>7
    <2> QED
      BY <1>9, <2>7, <2>9, <2>10, <2>11 DEF r
  <1>10. CASE r.kind # "line"
    <2>1. used' = used
      BY <1>10 DEF TakeLine, r
    <2>2. Newlines(e, got[e]) = {}
      BY <1>5, <1>10
    <2>3. r.kind = "again" => Newlines(e, got[e])' = {}
      BY <1>5, <1>7, <2>1, <2>2 DEF Newlines
    <2>4. r.kind \in {"error", "eof"} => got'[e] = got[e]
      BY <1>1, <1>5, <1>7, <2>2
    <2> QED
      BY <1>1, <1>2, <1>3, <1>5, <1>7, <1>10, <2>1, <2>2, <2>3, <2>4 DEF r
  <1> QED
    BY <1>9, <1>10

-----------------------------------------------------------------------------
(* Each stage of onReadable keeps what is taken in order.                   *)

\* No payload is among the tokens of the handshake.
LEMMA HandshakeHasNoData ==
  ASSUME NEW e \in Ends, Shaped(Peer(e)), NEW n \in Nat,
         n <= Preamble(Peer(e)), n <= Len(out[Peer(e)]), Len(out[Peer(e)]) \in Nat
  PROVE  Cardinality(DataIn(e, n)) = 0
  <1>1. Peer(e) \in Ends
    BY PeerFacts
  <1>2. Preamble(Peer(e)) \in Nat
    BY <1>1, PreambleFacts
  <1>3. ASSUME NEW i \in 1 .. n
        PROVE  out[Peer(e)][i].t # "data"
    <2>1. i \in 1 .. Len(out[Peer(e)]) /\ i \in 1 .. Preamble(Peer(e))
      BY <1>2
    <2>2. out[Peer(e)][i].t = Kind(Peer(e), i)
      BY <2>1 DEF Shaped
    <2> QED
      BY <1>1, <2>1, <2>2, HandshakeKinds
  <1>4. DataIn(e, n) = {}
    BY <1>3 DEF DataIn
  <1> QED
    BY <1>4, FS_EmptySet

\* What is counted is what was taken of the payload, after a step that writes nothing.
Counted(e) == recv'[e].payloadBytes = Cardinality(DataIn(e, used'[e]))

\* A read that fails keeps the state, with nothing buffered but the start of a line, or
\* ends with an error.
LEMMA FailTaken ==
  ASSUME TypeOK, NEW e \in Ends, TakenInOrder(e), todo[e] # <<>>, DeferralKept(e),
         Head(todo[e]) = "read", UNCHANGED <<cmd, out, mmodel>>,
         NEW kind \in {"error", "eof", "again"}, ReadFails(e, kind),
         used'[e] = used[e], recv[e].state \notin {"NONE", "SUCCESS", "ERROR"},
         kind = "again" => recv[e].state # "AUTHENTICATE" \/ got'[e] = 0,
         recv[e].state \in {"MODEL", "PAYLOAD", "AUTHENTICATE"} /\ kind = "again" => Buffered(e)' = 0,
         recv[e].state \in {"HEADER", "CHECKSUM", "FOOTER"} /\ kind = "again" =>
           Newlines(e, got[e])' = {} /\ (recv[e].state # "HEADER" => Sized(recv[e])),
         ReadMax \in Nat
  PROVE  TakenInOrder(e)'
  <1>1. /\ recv' = [recv EXCEPT ![e].state = IF kind = "again" THEN @ ELSE "ERROR"]
        /\ kind \in {"error", "eof"} => error'[e] # "NONE"
    BY ReadFailsType DEF TypeOK
  <1>2. recv \in [Ends -> RecvType]
    BY DEF TypeOK, StreamTypes
  <1>3. /\ recv'[e].state = IF kind = "again" THEN recv[e].state ELSE "ERROR"
        /\ recv'[e].requestedBytes = recv[e].requestedBytes
        /\ recv'[e].requestedZero = recv[e].requestedZero
        /\ recv'[e].payloadBytes = recv[e].payloadBytes
        /\ recv'[e].modelBytes = recv[e].modelBytes
    BY <1>1, <1>2 DEF RecvType
  <1>4. todo'[e] # <<>>
    BY MoreToDo DEF ReadFails
  <1>5. recv'[e].payloadBytes = Cardinality({i \in 1 .. used'[e] : out'[Peer(e)][i].t = "data"})
    BY <1>3 DEF TakenInOrder
  <1>6. CASE kind # "again"
    BY <1>1, <1>3, <1>4, <1>5, <1>6, TakenOver
  <1>7. CASE kind = "again"
    <2>1. recv'[e].state = recv[e].state
      BY <1>3, <1>7
    <2>2. Preamble(Peer(e))' = Preamble(Peer(e))
      BY DEF Preamble
    <2>3. /\ recv'[e].state \in {"NONE", "AUTHENTICATE"} => used'[e] = 0 /\ got'[e] = 0
          /\ recv'[e].state \in {"NONE", "AUTHENTICATE", "HEADER"} => recv'[e].modelBytes = 0
          /\ recv'[e].state = "HEADER" => used'[e] = 1 /\ Newlines(e, got[e])' = {}
          /\ recv'[e].state = "MODEL" => /\ e = "server" /\ used'[e] = 3 + recv'[e].modelBytes
                                         /\ mmodel'[e].loaded = cmd'.path
                                         /\ cmd'.path => recv'[e].modelBytes = 0
      BY <1>3, <1>7, <2>1 DEF TakenInOrder
    <2>4. /\ recv'[e].state \in {"PAYLOAD", "CHECKSUM"} =>
               used'[e] = Preamble(Peer(e))' + recv'[e].payloadBytes
          /\ recv'[e].state = "FOOTER" =>
               used'[e] = Preamble(Peer(e))' + recv'[e].payloadBytes
                            + (IF recv'[e].requestedBytes > 0 THEN 2 ELSE 0)
          /\ recv'[e].state \in {"PAYLOAD", "CHECKSUM", "FOOTER"} /\ recv'[e].requestedBytes = 0
               /\ recv'[e].requestedZero => recv'[e].payloadBytes = 0
      BY <1>3, <2>1, <2>2 DEF TakenInOrder
    <2>5. /\ recv'[e].state \in {"MODEL", "PAYLOAD"} => Buffered(e)' <= ReadMax
          /\ recv'[e].state \in {"CHECKSUM", "FOOTER"} /\ ~Sized(recv'[e]) => Buffered(e)' = 0
          /\ recv'[e].state # "SUCCESS"
      BY <1>3, <1>7, <2>1 DEF Sized
    <2>6. \/ Buffered(e)' = 0
          \/ recv'[e].state \in {"HEADER", "CHECKSUM", "FOOTER"} /\ Newlines(e, got[e])' = {}
          \/ error'[e] # "NONE"
      BY <1>2, <1>7, <2>1 DEF RecvType, RecvStates
    <2> QED
      BY <1>4, <1>5, <2>3, <2>4, <2>5, <2>6 DEF TakenInOrder
  <1> QED
    BY <1>6, <1>7

\* What the stages of reading find: the peer's log in order, and room in their plan.
ReadsFrom(e) ==
  /\ DeferralKept(e) /\ TakenInOrder(e) /\ LogInOrder(Peer(e))

\* A stage that fails a check ends with an error, and has counted nothing.
LEMMA CheckFails ==
  ASSUME NEW e \in Ends, out' = out, recv'[e].state = "ERROR", Counted(e),
         error'[e] # "NONE", todo'[e] # <<>>
  PROVE  TakenInOrder(e)'
  BY TakenOver DEF Counted, DataIn

\* The password is the first token.
LEMMA readAuthenticateTaken ==
  ASSUME TypeOK, EndsInOrder, NEW e \in Ends, ReadsFrom(e), readAuthenticate(e)
  PROVE  TakenInOrder(e)'
  <1> DEFINE r == StreamRead(e, 1)
  <1>1. /\ todo[e] # <<>> /\ Head(todo[e]) = "read" /\ recv[e].state = "AUTHENTICATE"
        /\ UNCHANGED <<cmd, send, mmodel, out>>
        /\ Take(e, r.n)
    BY DEF readAuthenticate, Reading
  <1>2. /\ r.n \in Nat /\ r.n <= 1 /\ used'[e] = used[e] + r.n
        /\ used'[e] <= got'[e] /\ got'[e] <= arr[e]
        /\ r.kind # "data" => used'[e] = used[e] /\ got'[e] = got[e]
        /\ Buffered(e)' = 0 \/ Buffered(e)' + r.n = Buffered(e)
        /\ Buffered(e)' \in Nat
    BY <1>1, TakeLeaves
  <1>3. r.kind \in {"data", "error", "eof", "again"}
    BY StreamReadBounds
  <1>4. /\ used[e] = 0 /\ got[e] = 0 /\ recv[e].modelBytes = 0
    BY <1>1 DEF ReadsFrom, TakenInOrder
  <1>5. Buffered(e)' = 0
    <2>1. Buffered(e) = 0
      BY <1>4 DEF Buffered
    <2> QED
      BY <1>2, <2>1
  <1>6. recv[e].payloadBytes = 0
    BY <1>1 DEF EndsInOrder, EndInv, ReadsInBounds
  <1>7. Cardinality(DataIn(e, used'[e])) = 0
    <2>1. Peer(e) \in Ends /\ Len(out[Peer(e)]) \in Nat /\ arr[e] \in Nat /\ arr[e] <= Len(out[Peer(e)])
      BY ReadLogged
    <2>2. Shaped(Peer(e)) /\ Preamble(Peer(e)) \in Nat /\ Preamble(Peer(e)) >= 3
      BY <2>1, LogNow, PreambleFacts DEF ReadsFrom
    <2>3. got'[e] \in Nat
      BY <1>1, TakeBounds
    <2>4. used'[e] \in Nat /\ used'[e] <= Len(out[Peer(e)]) /\ used'[e] <= Preamble(Peer(e))
      BY <1>2, <1>4, <2>1, <2>2, <2>3
    <2> QED
      BY <2>1, <2>2, <2>4, HandshakeHasNoData
  <1>8. CASE r.kind # "data"
    <2>1. ReadFails(e, r.kind)
      BY <1>8 DEF readAuthenticate
    <2>2. got'[e] = 0 /\ used'[e] = used[e] /\ ReadMax \in Nat
      BY <1>2, <1>4, <1>8, SizeAssumption
    <2> HIDE DEF r
    <2> QED
      BY <1>1, <1>3, <1>5, <1>8, <2>1, <2>2, FailTaken DEF ReadsFrom
  <1>9. CASE r.kind = "data" /\ LineText(e) = Tok("auth", 0)
    <2>1. recv' = [recv EXCEPT ![e].state = "HEADER"] /\ UNCHANGED <<error, todo>>
      BY <1>9 DEF readAuthenticate
    <2>2. RecvMoves(e, "HEADER")
      BY <2>1, SetState DEF RecvStates
    <2>3. r.n = 1
      <3>1. SockRead(e, 1).kind = "data" => SockRead(e, 1).n = 1
        <4>1. arr[e] \in Nat /\ got[e] \in Nat
          BY LogTypes
        <4> QED
          BY <4>1 DEF SockRead, Min2
      <3>2. r = SockRead(e, 1)
        BY <1>4 DEF StreamRead, Buffered
      <3> QED
        BY <1>9, <3>1, <3>2
    <2>4. used'[e] = 1 /\ got'[e] = 1
      <3>1. got'[e] \in Nat
        BY <1>1, TakeBounds
      <3>2. Buffered(e)' = got'[e] - used'[e]
        BY DEF Buffered
      <3> QED
        BY <1>2, <1>4, <1>5, <2>3, <3>1, <3>2
    <2>5. Newlines(e, got[e])' = {}
      BY <2>4 DEF Newlines
    <2>6. recv'[e].payloadBytes = Cardinality({i \in 1 .. used'[e] : out'[Peer(e)][i].t = "data"})
      BY <1>1, <1>6, <1>7, <2>2 DEF DataIn, RecvMoves
    <2>7. todo'[e] # <<>> /\ recv'[e].state = "HEADER" /\ recv'[e].modelBytes = 0
      BY <1>1, <1>4, <2>1, <2>2 DEF RecvMoves
    <2> QED
      BY <1>5, <2>4, <2>5, <2>6, <2>7 DEF TakenInOrder
  <1>10. CASE r.kind = "data" /\ LineText(e) # Tok("auth", 0)
    <2>1. /\ recv' = [recv EXCEPT ![e].state = "ERROR"]
          /\ error' = [error EXCEPT ![e] = "AUTHENTICATE"] /\ Leave(e)
      BY <1>10 DEF readAuthenticate
    <2>2. RecvMoves(e, "ERROR") /\ ErrorMoves(e, "AUTHENTICATE")
      BY <1>1, <2>1, SetState, SetError DEF RecvStates, Errors
    <2>3. todo'[e] # <<>>
      BY <1>1, <2>1, MoreToDo DEF ReadsFrom
    <2>4. Counted(e)
      BY <1>6, <1>7, <2>2 DEF Counted, RecvMoves
    <2> QED
      BY <1>1, <2>2, <2>3, <2>4, CheckFails DEF RecvMoves, ErrorMoves
  <1> QED
    BY <1>8, <1>9, <1>10

\* The header is a line of its own, and starts right after the password.
LEMMA HeaderLine ==
  ASSUME TypeOK, NEW e \in Ends, ReadsFrom(e), recv[e].state = "HEADER", out' = out,
         TakeLine(e, GetLine(e))
  PROVE  /\ GetLine(e).kind \in {"line", "error", "eof", "again"}
         /\ GetLine(e).kind = "line" =>
              /\ used'[e] = 3 /\ 3 <= Len(out[Peer(e)]) /\ Buffered(e)' <= ReadMax
              /\ Cardinality(DataIn(e, used'[e])) = 0
         /\ GetLine(e).kind # "line" => used'[e] = used[e]
         /\ GetLine(e).kind = "again" => Newlines(e, got[e])' = {}
  <1>1. /\ Peer(e) \in Ends /\ Len(out[Peer(e)]) \in Nat /\ arr[e] \in Nat /\ got[e] \in Nat
        /\ got[e] <= arr[e] /\ arr[e] <= Len(out[Peer(e)])
    BY ReadLogged
  <1>2. used[e] = 1 /\ Newlines(e, got[e]) = {}
    BY DEF ReadsFrom, TakenInOrder
  <1>3. Shaped(Peer(e)) /\ Preamble(Peer(e)) \in Nat /\ Preamble(Peer(e)) >= 3
    BY <1>1, LogNow, PreambleFacts DEF ReadsFrom
  <1>4. /\ 2 <= Len(out[Peer(e)]) => out[Peer(e)][2].t = "hdr"
        /\ 3 <= Len(out[Peer(e)]) => out[Peer(e)][3].t = "nl"
    BY <1>1, <1>3, HandshakeKinds DEF Shaped
  <1>5. /\ used[e] + 1 <= Len(out[Peer(e)]) => out[Peer(e)][used[e] + 1].t # "nl"
        /\ used[e] + 2 <= Len(out[Peer(e)]) => out[Peer(e)][used[e] + 2].t = "nl"
    BY <1>2, <1>4
  <1>6. /\ GetLine(e).kind \in {"line", "error", "eof", "again"}
        /\ got'[e] \in Nat /\ used'[e] \in Nat /\ got'[e] <= arr[e]
        /\ Newlines(e, got[e]) = {} => got'[e] <= got[e] + ReadMax
        /\ GetLine(e).kind = "line" => used'[e] = used[e] + 2 /\ used[e] + 2 <= got'[e]
        /\ GetLine(e).kind # "line" => used'[e] = used[e]
        /\ GetLine(e).kind = "again" => Newlines(e, got[e])' = {}
    BY <1>5, LineTaken
  <1>7. got[e] <= 2
    <2> SUFFICES ASSUME 3 <= got[e]
                 PROVE  FALSE
      BY <1>1
    <2>1. 3 \in used[e] + 1 .. got[e] /\ 3 <= Len(out[Peer(e)])
      BY <1>1, <1>2
    <2>2. 3 \in Newlines(e, got[e])
      BY <1>4, <2>1 DEF Newlines
    <2> QED
      BY <1>2, <2>2
  <1>8. GetLine(e).kind = "line" =>
          /\ used'[e] = 3 /\ 3 <= Len(out[Peer(e)]) /\ Buffered(e)' <= ReadMax
    <2>1. ReadMax \in Nat
      BY SizeAssumption
    <2>2. Buffered(e)' = got'[e] - used'[e]
      BY DEF Buffered
    <2> QED
      BY <1>1, <1>2, <1>6, <1>7, <2>1, <2>2
  <1>9. GetLine(e).kind = "line" => Cardinality(DataIn(e, used'[e])) = 0
    BY <1>1, <1>3, <1>6, <1>8, HandshakeHasNoData
  <1> QED
    BY <1>6, <1>8, <1>9

\* The header line takes the two tokens after the password.
LEMMA readHeaderTaken ==
  ASSUME TypeOK, EndsInOrder, NEW e \in Ends, ReadsFrom(e), readHeader(e)
  PROVE  TakenInOrder(e)'
  <1> DEFINE r == GetLine(e)
  <1>1. /\ todo[e] # <<>> /\ Head(todo[e]) = "read" /\ recv[e].state = "HEADER"
        /\ UNCHANGED <<cmd, out>>
        /\ TakeLine(e, r)
    BY DEF readHeader, Reading
  <1>2. /\ r.kind \in {"line", "error", "eof", "again"}
        /\ r.kind = "line" =>
              /\ used'[e] = 3 /\ Buffered(e)' <= ReadMax
              /\ Cardinality(DataIn(e, used'[e])) = 0
        /\ r.kind # "line" => used'[e] = used[e]
        /\ r.kind = "again" => Newlines(e, got[e])' = {}
    BY <1>1, HeaderLine
  <1>3. recv[e].modelBytes = 0
    BY <1>1 DEF ReadsFrom, TakenInOrder
  <1>4. recv[e].payloadBytes = 0
    BY <1>1 DEF EndsInOrder, EndInv, ReadsInBounds
  <1>5. ReadMax \in Nat
    BY SizeAssumption
  <1>6. CASE r.kind # "line"
    <2>1. ReadFails(e, r.kind) /\ UNCHANGED mmodel
      BY <1>6 DEF readHeader
    <2> HIDE DEF r
    <2> QED
      BY <1>1, <1>2, <1>5, <1>6, <2>1, FailTaken DEF ReadsFrom
  <1>7. CASE r.kind = "line" /\ ~HeaderAccepted(e)
    <2>1. /\ recv' = [recv EXCEPT ![e].state = "ERROR"]
          /\ error' = [error EXCEPT ![e] = "HEADER"]
          /\ Leave(e)
      BY <1>7 DEF readHeader
    <2>2. RecvMoves(e, "ERROR") /\ ErrorMoves(e, "HEADER")
      BY <1>1, <2>1, SetState, SetError DEF RecvStates, Errors
    <2>3. todo'[e] # <<>>
      BY <1>1, <2>1, MoreToDo DEF ReadsFrom
    <2>4. Counted(e)
      BY <1>2, <1>4, <1>7, <2>2 DEF Counted, RecvMoves
    <2> QED
      BY <1>1, <2>2, <2>3, <2>4, CheckFails DEF RecvMoves, ErrorMoves
  <1>8. CASE r.kind = "line" /\ HeaderAccepted(e) /\ e = "client"
    <2>1. recv' = [recv EXCEPT ![e].state = "PAYLOAD"] /\ UNCHANGED <<mmodel, todo>>
      BY <1>8 DEF readHeader
    <2>2. RecvMoves(e, "PAYLOAD")
      BY <2>1, SetState DEF RecvStates
    <2>3. /\ recv'[e].state = "PAYLOAD" /\ recv'[e].payloadBytes = 0
          /\ recv'[e].payloadBytes = Cardinality({i \in 1 .. used'[e] : out'[Peer(e)][i].t = "data"})
      BY <1>1, <1>2, <1>4, <1>8, <2>2 DEF DataIn, RecvMoves
    <2>4. used'[e] = Preamble(Peer(e))' + recv'[e].payloadBytes
      <3>1. Preamble(Peer(e))' = 3
        BY <1>8 DEF Preamble, Peer
      <3> QED
        BY <1>2, <1>8, <2>3, <3>1
    <2>5. todo'[e] # <<>> /\ InPhase(e, "read")'
      BY <1>1, <2>1 DEF InPhase
    <2> QED
      BY <1>2, <1>8, <2>3, <2>4, <2>5 DEF TakenInOrder
  <1>9. CASE r.kind = "line" /\ HeaderAccepted(e) /\ e # "client"
    <2>1. /\ recv' = [recv EXCEPT
               ![e].state = "MODEL",
               ![e].requestedBytes = send["client"].requestedBytes,
               ![e].requestedZero = send["client"].requestedZero]
          /\ mmodel' = [mmodel EXCEPT ![e].loaded = cmd.path]
          /\ UNCHANGED todo
      BY <1>9 DEF readHeader
    <2>2. /\ recv'[e].state = "MODEL" /\ recv'[e].payloadBytes = 0 /\ recv'[e].modelBytes = 0
          /\ mmodel'[e].loaded = cmd'.path
      BY <1>1, <1>3, <1>4, <2>1 DEF TypeOK, StreamTypes, RecvType, ModelType
    <2>3. recv'[e].payloadBytes = Cardinality({i \in 1 .. used'[e] : out'[Peer(e)][i].t = "data"})
      BY <1>1, <1>2, <1>9, <2>2 DEF DataIn
    <2>4. e = "server" /\ used'[e] = 3 + recv'[e].modelBytes
      BY <1>2, <1>9, <2>2, EndNames
    <2>5. todo'[e] # <<>> /\ InPhase(e, "read")'
      BY <1>1, <2>1 DEF InPhase
    <2> QED
      BY <1>2, <1>9, <2>2, <2>3, <2>4, <2>5 DEF TakenInOrder
  <1> QED
    BY <1>6, <1>7, <1>8, <1>9

\* What TakenInOrder says, stage by stage.
LEMMA TakenNow ==
  ASSUME NEW e \in Ends, TakenInOrder(e)
  PROVE  /\ recv[e].payloadBytes = Cardinality(DataIn(e, used[e]))
         /\ recv[e].state = "MODEL" =>
              /\ e = "server" /\ used[e] = 3 + recv[e].modelBytes
              /\ mmodel[e].loaded = cmd.path /\ (cmd.path => recv[e].modelBytes = 0)
         /\ recv[e].state \in {"PAYLOAD", "CHECKSUM"} =>
              used[e] = Preamble(Peer(e)) + recv[e].payloadBytes
         /\ recv[e].state = "FOOTER" =>
              used[e] = Preamble(Peer(e)) + recv[e].payloadBytes
                          + (IF recv[e].requestedBytes > 0 THEN 2 ELSE 0)
         /\ recv[e].state \in {"PAYLOAD", "CHECKSUM", "FOOTER"} /\ recv[e].requestedBytes = 0
              /\ recv[e].requestedZero => recv[e].payloadBytes = 0
         /\ recv[e].state \in {"MODEL", "PAYLOAD"} => Buffered(e) <= ReadMax
         /\ recv[e].state \in {"CHECKSUM", "FOOTER"} /\ ~Sized(recv[e]) => Buffered(e) = 0
         /\ recv[e].state = "SUCCESS" => Buffered(e) = 0 \/ Gone(e)
  BY DEF TakenInOrder, DataIn

\* What has to be shown of a step into the payload, or within it.
LEMMA PayloadNext ==
  ASSUME NEW e \in Ends, UNCHANGED <<cmd, out>>, recv'[e].state = "PAYLOAD", Counted(e),
         used'[e] = Preamble(Peer(e)) + recv'[e].payloadBytes,
         recv'[e].requestedBytes = 0 /\ recv'[e].requestedZero => recv'[e].payloadBytes = 0,
         Buffered(e)' <= ReadMax, todo'[e] # <<>>, InPhase(e, "read")' \/ Buffered(e)' = 0
  PROVE  TakenInOrder(e)'
  <1>1. Preamble(Peer(e))' = Preamble(Peer(e))
    BY DEF Preamble
  <1>2. recv'[e].payloadBytes = Cardinality({i \in 1 .. used'[e] : out'[Peer(e)][i].t = "data"})
    BY DEF Counted, DataIn
  <1> QED
    BY <1>1, <1>2 DEF TakenInOrder

\* A model that came as a path is not among the tokens.
LEMMA skipModelTaken ==
  ASSUME TypeOK, EndsInOrder, NEW e \in Ends, ReadsFrom(e), skipModel(e)
  PROVE  TakenInOrder(e)'
  <1>1. /\ todo[e] # <<>> /\ Head(todo[e]) = "read" /\ recv[e].state = "MODEL"
        /\ UNCHANGED <<cmd, out, got, used, todo>> /\ mmodel[e].loaded
        /\ recv' = [recv EXCEPT ![e].state = "PAYLOAD"]
    BY DEF skipModel, Reading, StartResponse
  <1>2. RecvMoves(e, "PAYLOAD")
    BY <1>1, SetState DEF RecvStates
  <1>3. /\ e = "server" /\ cmd.path /\ used[e] = 3 /\ Buffered(e) <= ReadMax
        /\ recv[e].payloadBytes = Cardinality(DataIn(e, used[e]))
    <2>1. /\ e = "server" /\ used[e] = 3 + recv[e].modelBytes /\ mmodel[e].loaded = cmd.path
          /\ cmd.path => recv[e].modelBytes = 0
          /\ Buffered(e) <= ReadMax /\ recv[e].payloadBytes = Cardinality(DataIn(e, used[e]))
      BY <1>1, TakenNow DEF ReadsFrom
    <2>2. cmd.path
      BY <1>1, <2>1
    <2> QED
      BY <2>1, <2>2
  <1>4. recv[e].payloadBytes = 0
    BY <1>1 DEF EndsInOrder, EndInv, ReadsInBounds
  <1>5. recv'[e].state = "PAYLOAD" /\ recv'[e].payloadBytes = recv[e].payloadBytes
    BY <1>2 DEF RecvMoves
  <1>6. Counted(e)
    BY <1>1, <1>3, <1>5 DEF Counted
  <1>7. Preamble(Peer(e)) = 3
    BY <1>3 DEF Preamble
  <1>8. used'[e] = Preamble(Peer(e)) + recv'[e].payloadBytes
    BY <1>1, <1>3, <1>4, <1>5, <1>7
  <1>9. InPhase(e, "read")' /\ todo'[e] # <<>> /\ Buffered(e)' <= ReadMax
    BY <1>1, <1>3 DEF InPhase, Buffered
  <1> QED
    BY <1>1, <1>4, <1>5, <1>6, <1>8, <1>9, PayloadNext

\* The whole model is taken before the payload, however it arrives.
LEMMA readModelTaken ==
  ASSUME TypeOK, EndsInOrder, NEW e \in Ends, ReadsFrom(e), readModel(e)
  PROVE  TakenInOrder(e)'
  <1> DEFINE limit == Min2(ReadMax, ModelSize - recv[e].modelBytes)
             r == StreamRead(e, limit)
             have == recv[e].modelBytes + r.n
  <1>1. /\ todo[e] # <<>> /\ Head(todo[e]) = "read" /\ recv[e].state = "MODEL"
        /\ UNCHANGED <<cmd, out>> /\ ~mmodel[e].loaded
        /\ Take(e, r.n)
    BY DEF readModel, Reading
  <1>2. /\ ReadMax \in Nat \ {0} /\ ModelSize \in Nat /\ recv[e].modelBytes \in Nat
        /\ recv[e].modelBytes < ModelSize
    <2>1. recv[e].modelBytes \in Nat
      BY EndTypes DEF RecvType
    <2>2. recv[e].modelBytes < ModelSize
      BY DEF EndsInOrder, EndInv, ReadsInBounds
    <2> QED
      BY <2>1, <2>2, SizeAssumption
  <1>3. /\ limit \in Nat /\ limit <= ReadMax /\ limit <= ModelSize - recv[e].modelBytes
        /\ limit = ReadMax \/ limit = ModelSize - recv[e].modelBytes
    BY <1>2 DEF Min2
  <1>4. /\ e = "server" /\ ~cmd.path /\ used[e] = 3 + recv[e].modelBytes
        /\ Buffered(e) <= ReadMax
    BY <1>1 DEF ReadsFrom, TakenInOrder
  <1> HIDE DEF limit
  <1>5. /\ r.n \in Nat /\ r.n <= limit /\ used'[e] = used[e] + r.n
        /\ used'[e] <= got'[e] /\ got'[e] <= arr[e]
        /\ r.kind # "data" => /\ r.n = 0 /\ used[e] = got[e]
                              /\ used'[e] = used[e] /\ got'[e] = got[e]
        /\ Buffered(e)' = 0 \/ r.n = limit
        /\ Buffered(e)' = 0 \/ Buffered(e)' + r.n = Buffered(e)
        /\ Buffered(e)' \in Nat
    BY <1>1, <1>3, TakeLeaves
  <1>6. r.kind \in {"data", "error", "eof", "again"}
    BY <1>3, StreamReadBounds
  <1>7. recv[e].payloadBytes = 0
    BY <1>1 DEF EndsInOrder, EndInv, ReadsInBounds
  <1>8. Preamble(Peer(e)) = 3 + ModelSize
    BY <1>4 DEF Preamble, Peer
  <1>9. Cardinality(DataIn(e, used'[e])) = 0
    <2>1. Peer(e) \in Ends /\ Len(out[Peer(e)]) \in Nat /\ arr[e] \in Nat /\ arr[e] <= Len(out[Peer(e)])
      BY ReadLogged
    <2>2. Shaped(Peer(e))
      BY <2>1, LogNow DEF ReadsFrom
    <2>3. got'[e] \in Nat
      BY <1>1, <1>3, TakeBounds
    <2>4. used'[e] \in Nat
      BY <1>1, <1>3, TakeBounds
    <2> HIDE DEF r, have
    <2>5. used'[e] <= Len(out[Peer(e)])
      <3>1. used'[e] <= got'[e] /\ got'[e] <= arr[e]
        BY <1>5
      <3> QED
        BY <2>1, <2>3, <2>4, <3>1
    <2>6. used'[e] <= Preamble(Peer(e))
      <3>1. r.n \in Nat /\ r.n <= limit /\ used'[e] = used[e] + r.n
        BY <1>5
      <3> QED
        BY <1>2, <1>3, <1>4, <1>8, <3>1
    <2> QED
      BY <2>1, <2>2, <2>4, <2>5, <2>6, HandshakeHasNoData
  <1>10. CASE r.kind # "data"
    <2>1. ReadFails(e, r.kind) /\ UNCHANGED mmodel
      BY <1>10 DEF readModel, limit
    <2>2. Buffered(e)' = 0
      <3>1. Buffered(e)' = got'[e] - used'[e] /\ got[e] \in Nat
        BY LogTypes DEF Buffered
      <3> QED
        BY <1>5, <1>10, <3>1
    <2> HIDE DEF r
    <2> QED
      BY <1>1, <1>2, <1>5, <1>6, <1>10, <2>1, <2>2, FailTaken DEF ReadsFrom
  <1>11. CASE r.kind = "data" /\ have < ModelSize
    <2>1. recv' = [recv EXCEPT ![e].modelBytes = have] /\ Leave(e) /\ UNCHANGED mmodel
      BY <1>11 DEF readModel, limit
    <2>2. Buffered(e)' = 0
      <3>1. r.n < ModelSize - recv[e].modelBytes
        BY <1>2, <1>5, <1>11
      <3>2. r.n = limit => limit = ReadMax
        BY <1>2, <1>3, <3>1
      <3>3. Buffered(e) \in Int
        BY LogTypes DEF Buffered
      <3> HIDE DEF r, have
      <3> QED
        BY <1>2, <1>4, <1>5, <3>2, <3>3
    <2>3. todo'[e] # <<>>
      BY <1>1, <2>1, MoreToDo DEF ReadsFrom
    <2>4. /\ recv'[e].state = "MODEL" /\ recv'[e].payloadBytes = 0 /\ recv'[e].modelBytes = have
          /\ mmodel'[e].loaded = cmd'.path
      BY <1>1, <1>2, <1>4, <1>5, <1>7, <2>1 DEF TypeOK, StreamTypes, RecvType, ReadsFrom, TakenInOrder
    <2>5. used'[e] = 3 + recv'[e].modelBytes
      BY <1>2, <1>4, <1>5, <2>4
    <2>6. recv'[e].payloadBytes = Cardinality({i \in 1 .. used'[e] : out'[Peer(e)][i].t = "data"})
      BY <1>1, <1>9, <2>4 DEF DataIn
    <2>7. Buffered(e)' <= ReadMax /\ ~cmd'.path
      BY <1>1, <1>2, <1>4, <2>2
    <2> QED
      BY <1>4, <2>2, <2>3, <2>4, <2>5, <2>6, <2>7 DEF TakenInOrder
  <1>12. CASE r.kind = "data" /\ ~(have < ModelSize) /\ cmd.model
    <2>1. recv' = [recv EXCEPT ![e].state = "PAYLOAD"] /\ UNCHANGED todo
      BY <1>12 DEF readModel, limit, StartResponse
    <2>2. RecvMoves(e, "PAYLOAD")
      BY <2>1, SetState DEF RecvStates
    <2>3. recv'[e].state = "PAYLOAD" /\ recv'[e].payloadBytes = 0
      BY <1>7, <2>2 DEF RecvMoves
    <2>4. Counted(e)
      BY <1>9, <2>3 DEF Counted
    <2>5. used'[e] = Preamble(Peer(e)) + recv'[e].payloadBytes
      <3>1. r.n = ModelSize - recv[e].modelBytes
        BY <1>2, <1>3, <1>5, <1>12
      <3> HIDE DEF r, have
      <3> QED
        BY <1>2, <1>4, <1>5, <1>8, <2>3, <3>1
    <2>6. Buffered(e)' <= ReadMax
      <3>1. Buffered(e) \in Int
        BY LogTypes DEF Buffered
      <3> HIDE DEF r, have
      <3> QED
        BY <1>2, <1>4, <1>5, <3>1
    <2>7. InPhase(e, "read")' /\ todo'[e] # <<>>
      BY <1>1, <2>1 DEF InPhase
    <2> HIDE DEF r, have
    <2> QED
      BY <1>1, <2>3, <2>4, <2>5, <2>6, <2>7, PayloadNext
  <1>13. CASE r.kind = "data" /\ ~(have < ModelSize) /\ ~cmd.model
    <2>1. /\ recv' = [recv EXCEPT ![e].state = "ERROR"]
          /\ error' = [error EXCEPT ![e] = "MODEL"] /\ Leave(e)
      BY <1>13 DEF readModel, limit
    <2>2. RecvMoves(e, "ERROR") /\ ErrorMoves(e, "MODEL")
      BY <1>1, <2>1, SetState, SetError DEF RecvStates, Errors
    <2>3. todo'[e] # <<>>
      BY <1>1, <2>1, MoreToDo DEF ReadsFrom
    <2>4. Counted(e)
      BY <1>7, <1>9, <2>2 DEF Counted, RecvMoves
    <2> QED
      BY <1>1, <2>2, <2>3, <2>4, CheckFails DEF RecvMoves, ErrorMoves
  <1> QED
    BY <1>10, <1>11, <1>12, <1>13

\* From the answer on, either end knows the sizes that the other sends.
LEMMA PeerSizes ==
  ASSUME SizesTaken, NEW e \in Ends, recv[e].state \in {"PAYLOAD", "CHECKSUM", "FOOTER"}
  PROVE  /\ send[Peer(e)].requestedBytes = recv[e].requestedBytes
         /\ send[Peer(e)].requestedZero = recv[e].requestedZero
         /\ Sized(send[Peer(e)]) <=> Sized(recv[e])
  <1>1. e = "client" \/ e = "server"
    BY EndNames
  <1>2. SizesMatch
    BY <1>1 DEF SizesTaken
  <1>3. /\ send[Peer(e)].requestedBytes = recv[e].requestedBytes
        /\ send[Peer(e)].requestedZero = recv[e].requestedZero
    BY <1>1, <1>2 DEF SizesMatch, Peer
  <1> QED
    BY <1>3 DEF Sized

\* What has to be shown of a step that leaves the payload.
LEMMA ChecksumNext ==
  ASSUME NEW e \in Ends, UNCHANGED <<cmd, out>>, recv'[e].state = "CHECKSUM", Counted(e),
         used'[e] = Preamble(Peer(e)) + recv'[e].payloadBytes,
         recv'[e].requestedBytes = 0 /\ recv'[e].requestedZero => recv'[e].payloadBytes = 0,
         ~Sized(recv'[e]) => Buffered(e)' = 0, todo'[e] # <<>>, InPhase(e, "read")'
  PROVE  TakenInOrder(e)'
  <1>1. Preamble(Peer(e))' = Preamble(Peer(e))
    BY DEF Preamble
  <1>2. recv'[e].payloadBytes = Cardinality({i \in 1 .. used'[e] : out'[Peer(e)][i].t = "data"})
    BY DEF Counted, DataIn
  <1>3. (~Sized(recv[e]))' => Buffered(e)' = 0
    BY DEF Sized
  <1> QED
    BY <1>1, <1>2, <1>3 DEF TakenInOrder

\* What one read of payload takes is payload, and is counted.
LEMMA PayloadTaken ==
  ASSUME TypeOK, SizesTaken, NEW e \in Ends, ReadsFrom(e), recv[e].state = "PAYLOAD",
         NEW n \in Nat, used'[e] = used[e] + n, used'[e] <= arr[e],
         recv[e].requestedBytes > 0 => recv[e].payloadBytes + n <= recv[e].requestedBytes,
         recv[e].requestedBytes = 0 /\ recv[e].requestedZero => n = 0
  PROVE  /\ recv[e].payloadBytes + n = Cardinality(DataIn(e, used'[e]))
         /\ used'[e] = Preamble(Peer(e)) + (recv[e].payloadBytes + n)
  <1>1. /\ Peer(e) \in Ends /\ Len(out[Peer(e)]) \in Nat
        /\ used[e] \in Nat /\ arr[e] \in Nat /\ arr[e] <= Len(out[Peer(e)])
    BY ReadLogged
  <1>2. /\ used[e] = Preamble(Peer(e)) + recv[e].payloadBytes
        /\ recv[e].payloadBytes = Cardinality(DataIn(e, used[e]))
        /\ Preamble(Peer(e)) \in Nat /\ recv[e].payloadBytes \in Nat
        /\ recv[e].requestedBytes \in Nat
    BY <1>1, TakenNow, PreambleFacts, EndTypes DEF ReadsFrom
  <1>3. /\ Shaped(Peer(e))
        /\ send[Peer(e)].requestedBytes = recv[e].requestedBytes
        /\ Sized(send[Peer(e)]) <=> Sized(recv[e])
    BY <1>1, LogNow, PeerSizes DEF ReadsFrom
  <1>4. ASSUME NEW i \in used[e] + 1 .. used[e] + n
        PROVE  out[Peer(e)][i].t = "data"
    <2>1. i \in Nat /\ i > Preamble(Peer(e)) /\ i \in 1 .. Len(out[Peer(e)])
      <3>1. i \in Nat /\ used[e] + 1 <= i /\ i <= used[e] + n
        BY <1>1
      <3>2. i <= arr[e]
        BY <1>1, <3>1
      <3>3. i <= Len(out[Peer(e)])
        BY <1>1, <3>1, <3>2
      <3>4. Preamble(Peer(e)) < i
        BY <1>1, <1>2, <3>1
      <3> QED
        BY <1>1, <3>1, <3>3, <3>4
    <2>2. ~Sized(send[Peer(e)]) \/ i <= Preamble(Peer(e)) + send[Peer(e)].requestedBytes
      <3>1. CASE recv[e].requestedBytes > 0
        <4>1. i <= used[e] + n /\ recv[e].payloadBytes + n <= recv[e].requestedBytes
          BY <1>1, <3>1
        <4> QED
          BY <1>2, <1>3, <2>1, <4>1
      <3>2. CASE recv[e].requestedBytes = 0
        <4>1. recv[e].requestedZero => FALSE
          BY <1>1, <3>2
        <4> QED
          BY <1>3, <3>2, <4>1 DEF Sized
      <3> QED
        BY <1>2, <3>1, <3>2
    <2>3. Kind(Peer(e), i) = "data"
      BY <1>1, <2>1, <2>2, PayloadKinds
    <2> QED
      BY <1>3, <2>1, <2>3 DEF Shaped
  <1>5. Cardinality(DataIn(e, used[e] + n)) = Cardinality(DataIn(e, used[e])) + n
    <2>1. used[e] + n \in Nat /\ used[e] <= used[e] + n /\ (used[e] + n) - used[e] = n
      BY <1>1
    <2> QED
      BY <1>1, <1>4, <2>1, DataMore
  <1> QED
    BY <1>2, <1>5

\* Payload is taken up to the size, or without one up to the end of the stream.
LEMMA readPayloadTaken ==
  ASSUME TypeOK, EndsInOrder, SizesTaken, NEW e \in Ends, ReadsFrom(e), readPayload(e)
  PROVE  TakenInOrder(e)'
  <1> DEFINE skips == recv[e].requestedBytes = 0 /\ recv[e].requestedZero
             read == StreamRead(e, PayloadLimit(e))
             have == recv[e].payloadBytes + read.n
             sized == recv[e].requestedBytes > 0
  <1>1. /\ todo[e] # <<>> /\ Head(todo[e]) = "read" /\ recv[e].state = "PAYLOAD"
        /\ UNCHANGED <<cmd, out, mmodel>>
    BY DEF readPayload, Reading
  <1>2. /\ recv[e].payloadBytes \in Nat /\ recv[e].requestedBytes \in Nat
        /\ recv[e].requestedZero \in BOOLEAN
        /\ sized => recv[e].payloadBytes <= recv[e].requestedBytes
        /\ ReadMax \in Nat \ {0}
    BY EndTypes, SizeAssumption DEF EndsInOrder, EndInv, ReadsInBounds
  <1>3. /\ used[e] \in Nat /\ got[e] \in Nat /\ used[e] <= got[e] /\ got[e] <= arr[e]
        /\ arr[e] \in Nat
    BY LogTypes
  <1>4. /\ skips => recv[e].payloadBytes = 0
        /\ Buffered(e) <= ReadMax
    BY <1>1, TakenNow DEF ReadsFrom
  <1>5. recv \in [Ends -> RecvType]
    BY DEF TypeOK, StreamTypes
  <1>6. CASE skips
    <2>1. /\ used' = [used EXCEPT ![e] = @ + 0]
          /\ recv' = [recv EXCEPT ![e].state = "CHECKSUM", ![e].payloadBytes = @ + 0]
          /\ UNCHANGED todo
      BY <1>6 DEF readPayload, Take
    <2>2. used'[e] = used[e] + 0 /\ used'[e] <= arr[e]
      BY <1>3, <2>1 DEF TypeOK, ChannelTypes
    <2>3. /\ recv'[e].state = "CHECKSUM" /\ recv'[e].payloadBytes = recv[e].payloadBytes + 0
          /\ recv'[e].requestedBytes = recv[e].requestedBytes
          /\ recv'[e].requestedZero = recv[e].requestedZero
      BY <1>5, <2>1 DEF RecvType
    <2>4. /\ recv[e].payloadBytes + 0 = Cardinality(DataIn(e, used'[e]))
          /\ used'[e] = Preamble(Peer(e)) + (recv[e].payloadBytes + 0)
      BY <1>1, <1>2, <1>6, <2>2, PayloadTaken
    <2>5. Counted(e)
      BY <2>3, <2>4 DEF Counted
    <2>6. Sized(recv'[e])
      BY <1>6, <2>3 DEF Sized
    <2>7. todo'[e] # <<>> /\ InPhase(e, "read")'
      BY <1>1, <2>1 DEF InPhase
    <2>8. recv'[e].payloadBytes = 0
      BY <1>2, <1>4, <1>6, <2>3
    <2> QED
      BY <1>1, <2>3, <2>4, <2>5, <2>6, <2>7, <2>8, ChecksumNext
  <1>7. CASE ~skips
    <2>1. /\ PayloadLimit(e) \in Nat /\ PayloadLimit(e) <= ReadMax
          /\ sized => /\ PayloadLimit(e) <= recv[e].requestedBytes - recv[e].payloadBytes
                      /\ \/ PayloadLimit(e) = ReadMax
                         \/ PayloadLimit(e) = recv[e].requestedBytes - recv[e].payloadBytes
          /\ ~sized => PayloadLimit(e) = ReadMax
      BY <1>2 DEF PayloadLimit, Min2
    <2>2. Take(e, read.n)
      BY <1>7 DEF readPayload
    <2>3. /\ read.n \in Nat /\ read.n <= PayloadLimit(e) /\ used'[e] = used[e] + read.n
          /\ used'[e] <= got'[e] /\ got'[e] <= arr[e]
          /\ read.kind # "data" => /\ read.n = 0 /\ used[e] = got[e]
                                   /\ used'[e] = used[e] /\ got'[e] = got[e]
          /\ Buffered(e)' = 0 \/ read.n = PayloadLimit(e)
          /\ Buffered(e)' = 0 \/ Buffered(e)' + read.n = Buffered(e)
          /\ Buffered(e)' \in Nat
      BY <2>1, <2>2, TakeLeaves
    <2>4. got'[e] \in Nat /\ used'[e] \in Nat
      BY <2>1, <2>2, TakeBounds
    <2>5. read.kind \in {"data", "error", "eof", "again"}
      BY <2>1, StreamReadBounds
    <2>6. /\ have = Cardinality(DataIn(e, used'[e]))
          /\ used'[e] = Preamble(Peer(e)) + have
      <3>1. used'[e] <= arr[e]
        BY <1>3, <2>3, <2>4
      <3>2. sized => recv[e].payloadBytes + read.n <= recv[e].requestedBytes
        BY <1>2, <2>1, <2>3
      <3>3. read.n \in Nat /\ used'[e] = used[e] + read.n
        BY <2>3
      <3> HIDE DEF read
      <3> QED
        BY <1>1, <1>7, <3>1, <3>2, <3>3, PayloadTaken
    <2>7. CASE \/ read.kind = "eof" /\ ~sized
               \/ read.kind = "data" /\ sized /\ have >= recv[e].requestedBytes
      <3>1. recv' = [recv EXCEPT ![e].state = "CHECKSUM", ![e].payloadBytes = have] /\ UNCHANGED todo
        BY <1>7, <2>7 DEF readPayload
      <3>2. /\ recv'[e].state = "CHECKSUM" /\ recv'[e].payloadBytes = have
            /\ recv'[e].requestedBytes = recv[e].requestedBytes
            /\ recv'[e].requestedZero = recv[e].requestedZero
        BY <1>5, <3>1 DEF RecvType
      <3>3. Counted(e)
        BY <2>6, <3>2 DEF Counted
      <3>4. ~Sized(recv'[e]) => Buffered(e)' = 0
        <4>1. read.kind = "eof" => Buffered(e)' = 0
          <5>1. Buffered(e)' = got'[e] - used'[e]
            BY DEF Buffered
          <5> QED
            BY <1>3, <2>3, <5>1
        <4> QED
          BY <2>7, <3>2, <4>1 DEF Sized
      <3>5. todo'[e] # <<>> /\ InPhase(e, "read")'
        BY <1>1, <3>1 DEF InPhase
      <3>6. ~(recv'[e].requestedBytes = 0 /\ recv'[e].requestedZero)
        BY <1>7, <3>2
      <3> HIDE DEF read, have
      <3> QED
        BY <1>1, <2>6, <3>2, <3>3, <3>4, <3>5, <3>6, ChecksumNext
    <2>8. CASE read.kind = "data" /\ ~(sized /\ have >= recv[e].requestedBytes)
      <3>1. recv' = [recv EXCEPT ![e].payloadBytes = have] /\ Leave(e)
        BY <1>7, <2>8 DEF readPayload
      <3>2. /\ recv'[e].state = "PAYLOAD" /\ recv'[e].payloadBytes = have
            /\ recv'[e].requestedBytes = recv[e].requestedBytes
            /\ recv'[e].requestedZero = recv[e].requestedZero
        BY <1>1, <1>5, <3>1 DEF RecvType
      <3>3. Counted(e)
        BY <2>6, <3>2 DEF Counted
      <3>4. Buffered(e)' = 0
        <4>1. sized => ~(have >= recv[e].requestedBytes)
          BY <2>8
        <4>2. sized => read.n # recv[e].requestedBytes - recv[e].payloadBytes
          BY <1>2, <2>3, <4>1
        <4>3. read.n = PayloadLimit(e) => read.n = ReadMax
          BY <2>1, <4>2
        <4>4. Buffered(e) \in Int
          BY <1>3 DEF Buffered
        <4>5. /\ read.n \in Nat /\ Buffered(e)' \in Nat
              /\ Buffered(e)' = 0 \/ (read.n = PayloadLimit(e) /\ Buffered(e)' + read.n = Buffered(e))
          BY <2>3
        <4> HIDE DEF read, have
        <4> QED
          BY <1>2, <1>4, <4>3, <4>4, <4>5
      <3>5. todo'[e] # <<>>
        BY <1>1, <3>1, MoreToDo DEF ReadsFrom
      <3>6. ~(recv'[e].requestedBytes = 0 /\ recv'[e].requestedZero) /\ Buffered(e)' <= ReadMax
        BY <1>2, <1>7, <3>2, <3>4
      <3> HIDE DEF read, have
      <3> QED
        BY <1>1, <2>6, <3>2, <3>3, <3>4, <3>5, <3>6, PayloadNext
    <2>9. CASE read.kind # "data" /\ ~(read.kind = "eof" /\ ~sized)
      <3>1. ReadFails(e, read.kind)
        BY <1>7, <2>5, <2>9 DEF readPayload
      <3>2. Buffered(e)' = 0
        <4>1. Buffered(e)' = got'[e] - used'[e]
          BY DEF Buffered
        <4> QED
          BY <1>3, <2>3, <2>9, <4>1
      <3>3. read.kind \in {"error", "eof", "again"} /\ used'[e] = used[e]
        BY <2>3, <2>5, <2>9
      <3> HIDE DEF read
      <3> QED
        BY <1>1, <1>2, <3>1, <3>2, <3>3, FailTaken DEF ReadsFrom
    <2> QED
      BY <2>7, <2>8, <2>9
  <1> QED
    BY <1>6, <1>7

\* What has to be shown of a step that leaves the checksum.
LEMMA FooterNext ==
  ASSUME NEW e \in Ends, UNCHANGED <<cmd, out>>, recv'[e].state = "FOOTER", Counted(e),
         used'[e] = Preamble(Peer(e)) + recv'[e].payloadBytes
                      + (IF recv'[e].requestedBytes > 0 THEN 2 ELSE 0),
         recv'[e].requestedBytes = 0 /\ recv'[e].requestedZero => recv'[e].payloadBytes = 0,
         ~Sized(recv'[e]) => Buffered(e)' = 0, todo'[e] # <<>>, InPhase(e, "read")'
  PROVE  TakenInOrder(e)'
  <1>1. Preamble(Peer(e))' = Preamble(Peer(e))
    BY DEF Preamble
  <1>2. recv'[e].payloadBytes = Cardinality({i \in 1 .. used'[e] : out'[Peer(e)][i].t = "data"})
    BY DEF Counted, DataIn
  <1>3. (~Sized(recv[e]))' => Buffered(e)' = 0
    BY DEF Sized
  <1> QED
    BY <1>1, <1>2, <1>3 DEF TakenInOrder

\* What has to be shown of a step that ends the receipt with success.
LEMMA SuccessNext ==
  ASSUME NEW e \in Ends, out' = out, recv'[e].state = "SUCCESS", Counted(e),
         Buffered(e)' = 0, todo'[e] # <<>>
  PROVE  TakenInOrder(e)'
  <1>1. recv'[e].payloadBytes = Cardinality({i \in 1 .. used'[e] : out'[Peer(e)][i].t = "data"})
    BY DEF Counted, DataIn
  <1> QED
    BY <1>1 DEF TakenInOrder

\* A line behind the payload takes two tokens, none of them payload.
LEMMA TrailerLine ==
  ASSUME TypeOK, NEW e \in Ends, Shaped(Peer(e)), out' = out, TakeLine(e, GetLine(e)),
         Kind(Peer(e), used[e] + 1) \in {"sum", "fin"}, Kind(Peer(e), used[e] + 2) = "nl"
  PROVE  /\ GetLine(e).kind \in {"line", "error", "eof", "again"}
         /\ used'[e] \in Nat /\ got'[e] \in Nat /\ got'[e] <= arr[e]
         /\ GetLine(e).kind = "line" => used'[e] = used[e] + 2 /\ used'[e] <= got'[e]
         /\ GetLine(e).kind # "line" => used'[e] = used[e]
         /\ GetLine(e).kind = "again" => Newlines(e, got[e])' = {}
         /\ Cardinality(DataIn(e, used'[e])) = Cardinality(DataIn(e, used[e]))
  <1>1. /\ Peer(e) \in Ends /\ Len(out[Peer(e)]) \in Nat /\ used[e] \in Nat
        /\ arr[e] \in Nat /\ arr[e] <= Len(out[Peer(e)])
    BY ReadLogged
  <1>2. /\ used[e] + 1 <= Len(out[Peer(e)]) =>
             out[Peer(e)][used[e] + 1].t = Kind(Peer(e), used[e] + 1)
        /\ used[e] + 2 <= Len(out[Peer(e)]) =>
             out[Peer(e)][used[e] + 2].t = Kind(Peer(e), used[e] + 2)
    BY <1>1 DEF Shaped
  <1>3. /\ used[e] + 1 <= Len(out[Peer(e)]) => out[Peer(e)][used[e] + 1].t # "nl"
        /\ used[e] + 2 <= Len(out[Peer(e)]) => out[Peer(e)][used[e] + 2].t = "nl"
    BY <1>2
  <1>4. /\ GetLine(e).kind \in {"line", "error", "eof", "again"}
        /\ got'[e] \in Nat /\ used'[e] \in Nat /\ got'[e] <= arr[e]
        /\ GetLine(e).kind = "line" => used'[e] = used[e] + 2 /\ used[e] + 2 <= got'[e]
        /\ GetLine(e).kind # "line" => used'[e] = used[e]
        /\ GetLine(e).kind = "again" => Newlines(e, got[e])' = {}
    BY <1>3, LineTaken
  <1>5. CASE GetLine(e).kind = "line"
    <2>1. used'[e] = used[e] + 2 /\ used'[e] <= Len(out[Peer(e)])
      BY <1>1, <1>4, <1>5
    <2>2. ASSUME NEW i \in used[e] + 1 .. used'[e]
          PROVE  out[Peer(e)][i].t # "data"
      <3>1. i = used[e] + 1 \/ i = used[e] + 2
        BY <1>1, <2>1
      <3>2. used[e] + 1 <= Len(out[Peer(e)]) /\ used[e] + 2 <= Len(out[Peer(e)])
        BY <1>1, <2>1
      <3> QED
        BY <1>2, <3>1, <3>2
    <2>3. used[e] <= used'[e]
      BY <1>1, <2>1
    <2>4. DataIn(e, used'[e]) = DataIn(e, used[e])
      BY <1>1, <1>4, <2>2, <2>3, DataSame
    <2> QED
      BY <1>4, <1>5, <2>4
  <1>6. CASE GetLine(e).kind # "line"
    BY <1>4, <1>6
  <1> QED
    BY <1>5, <1>6

\* No checksum was sent without a size.
LEMMA skipChecksumTaken ==
  ASSUME TypeOK, NEW e \in Ends, ReadsFrom(e), skipChecksum(e)
  PROVE  TakenInOrder(e)'
  <1>1. /\ todo[e] # <<>> /\ Head(todo[e]) = "read" /\ recv[e].state = "CHECKSUM"
        /\ UNCHANGED <<cmd, out, got, used, todo>> /\ recv[e].requestedBytes = 0
        /\ recv' = [recv EXCEPT ![e].state = "FOOTER"]
    BY DEF skipChecksum, Reading
  <1>2. RecvMoves(e, "FOOTER")
    BY <1>1, SetState DEF RecvStates
  <1>3. /\ recv'[e].state = "FOOTER" /\ recv'[e].payloadBytes = recv[e].payloadBytes
        /\ recv'[e].requestedBytes = 0 /\ recv'[e].requestedZero = recv[e].requestedZero
    BY <1>1, <1>2 DEF RecvMoves
  <1>4. /\ used[e] = Preamble(Peer(e)) + recv[e].payloadBytes
        /\ recv[e].payloadBytes = Cardinality(DataIn(e, used[e]))
        /\ recv[e].requestedZero => recv[e].payloadBytes = 0
        /\ ~Sized(recv[e]) => Buffered(e) = 0
    BY <1>1, TakenNow DEF ReadsFrom
  <1>5. Counted(e)
    BY <1>1, <1>3, <1>4 DEF Counted
  <1>6. used'[e] = Preamble(Peer(e)) + recv'[e].payloadBytes
                     + (IF recv'[e].requestedBytes > 0 THEN 2 ELSE 0)
    <2>1. recv[e].payloadBytes \in Nat /\ Preamble(Peer(e)) \in Nat
      BY EndTypes, PeerFacts, PreambleFacts
    <2> QED
      BY <1>1, <1>3, <1>4, <2>1
  <1>7. ~Sized(recv'[e]) => Buffered(e)' = 0
    BY <1>1, <1>3, <1>4 DEF Sized, Buffered
  <1>8. todo'[e] # <<>> /\ InPhase(e, "read")'
    BY <1>1 DEF InPhase
  <1> QED
    BY <1>1, <1>3, <1>4, <1>5, <1>6, <1>7, <1>8, FooterNext

\* The checksum line takes the two tokens behind the payload.
LEMMA readChecksumTaken ==
  ASSUME TypeOK, EndsInOrder, SizesTaken, NEW e \in Ends, ReadsFrom(e), readChecksum(e)
  PROVE  TakenInOrder(e)'
  <1> DEFINE r == GetLine(e)
  <1>1. /\ todo[e] # <<>> /\ Head(todo[e]) = "read" /\ recv[e].state = "CHECKSUM"
        /\ UNCHANGED <<cmd, out, mmodel>> /\ recv[e].requestedBytes > 0
        /\ TakeLine(e, r)
    BY DEF readChecksum, Reading
  <1>2. /\ Peer(e) \in Ends /\ Preamble(Peer(e)) \in Nat
        /\ recv[e].payloadBytes \in Nat /\ recv[e].requestedBytes \in Nat
        /\ recv[e].payloadBytes = recv[e].requestedBytes
    BY <1>1, EndTypes, PeerFacts, PreambleFacts DEF EndsInOrder, EndInv, ReceiptInOrder
  <1>3. /\ used[e] = Preamble(Peer(e)) + recv[e].payloadBytes
        /\ recv[e].payloadBytes = Cardinality(DataIn(e, used[e]))
    BY <1>1, TakenNow DEF ReadsFrom
  <1>4. /\ Shaped(Peer(e)) /\ Sized(recv[e])
        /\ send[Peer(e)].requestedBytes = recv[e].requestedBytes
        /\ Sized(send[Peer(e)])
    BY <1>1, <1>2, LogNow, PeerSizes DEF ReadsFrom, Sized
  <1>5. Kind(Peer(e), used[e] + 1) = "sum" /\ Kind(Peer(e), used[e] + 2) = "nl"
    <2>1. used[e] = Preamble(Peer(e)) + send[Peer(e)].requestedBytes
      BY <1>2, <1>3, <1>4
    <2>2. send[Peer(e)].requestedBytes > 0
      BY <1>1, <1>4
    <2> QED
      BY <1>2, <1>4, <2>1, <2>2, TrailerKinds
  <1>6. /\ r.kind \in {"line", "error", "eof", "again"}
        /\ used'[e] \in Nat
        /\ r.kind = "line" => used'[e] = used[e] + 2
        /\ r.kind # "line" => used'[e] = used[e]
        /\ r.kind = "again" => Newlines(e, got[e])' = {}
        /\ Cardinality(DataIn(e, used'[e])) = Cardinality(DataIn(e, used[e]))
    BY <1>1, <1>4, <1>5, TrailerLine
  <1>7. CASE r.kind # "line"
    <2>1. ReadFails(e, r.kind)
      BY <1>7 DEF readChecksum
    <2>2. ReadMax \in Nat
      BY SizeAssumption
    <2> HIDE DEF r
    <2> QED
      BY <1>1, <1>4, <1>6, <1>7, <2>1, <2>2, FailTaken DEF ReadsFrom
  <1>8. CASE r.kind = "line" /\ LineText(e) = Tok("sum", recv[e].payloadBytes)
    <2>1. recv' = [recv EXCEPT ![e].state = "FOOTER", ![e].checksumRecv = TRUE] /\ UNCHANGED todo
      BY <1>8 DEF readChecksum
    <2>2. RecvMoves(e, "FOOTER")
      BY <2>1, SetStateAndFlag DEF RecvStates
    <2>3. /\ recv'[e].state = "FOOTER" /\ recv'[e].payloadBytes = recv[e].payloadBytes
          /\ recv'[e].requestedBytes = recv[e].requestedBytes
      BY <2>2 DEF RecvMoves
    <2>4. Counted(e)
      BY <1>3, <1>6, <2>3 DEF Counted
    <2>5. used'[e] = Preamble(Peer(e)) + recv'[e].payloadBytes
                       + (IF recv'[e].requestedBytes > 0 THEN 2 ELSE 0)
      BY <1>1, <1>2, <1>3, <1>6, <1>8, <2>3
    <2>6. Sized(recv'[e]) /\ recv'[e].requestedBytes # 0
      BY <1>1, <1>2, <2>3 DEF Sized
    <2>7. todo'[e] # <<>> /\ InPhase(e, "read")'
      BY <1>1, <2>1 DEF InPhase
    <2> QED
      BY <1>1, <2>3, <2>4, <2>5, <2>6, <2>7, FooterNext
  <1>9. CASE r.kind = "line" /\ LineText(e) # Tok("sum", recv[e].payloadBytes)
    <2>1. /\ recv' = [recv EXCEPT ![e].state = "ERROR", ![e].checksumRecv = TRUE]
          /\ error' = [error EXCEPT ![e] = "CHECKSUM"] /\ Leave(e)
      BY <1>9 DEF readChecksum
    <2>2. RecvMoves(e, "ERROR") /\ ErrorMoves(e, "CHECKSUM")
      BY <1>1, <2>1, SetStateAndFlag, SetError DEF RecvStates, Errors
    <2>3. todo'[e] # <<>>
      BY <1>1, <2>1, MoreToDo DEF ReadsFrom
    <2>4. Counted(e)
      BY <1>3, <1>6, <2>2 DEF Counted, RecvMoves
    <2> QED
      BY <1>1, <2>2, <2>3, <2>4, CheckFails DEF RecvMoves, ErrorMoves
  <1> QED
    BY <1>7, <1>8, <1>9

\* No footer was sent without a size, and nothing is left in the buffer.
LEMMA skipFooterTaken ==
  ASSUME TypeOK, NEW e \in Ends, ReadsFrom(e), skipFooter(e)
  PROVE  TakenInOrder(e)'
  <1>1. /\ todo[e] # <<>> /\ recv[e].state = "FOOTER" /\ ~Sized(recv[e])
        /\ UNCHANGED <<cmd, out, got, used, todo>>
        /\ recv' = [recv EXCEPT ![e].state = "SUCCESS"]
    BY DEF skipFooter, Reading
  <1>2. RecvMoves(e, "SUCCESS")
    BY <1>1, SetState DEF RecvStates
  <1>3. recv[e].payloadBytes = Cardinality(DataIn(e, used[e])) /\ Buffered(e) = 0
    BY <1>1, TakenNow DEF ReadsFrom
  <1>4. Counted(e) /\ Buffered(e)' = 0
    BY <1>1, <1>2, <1>3 DEF Counted, RecvMoves, Buffered
  <1> QED
    BY <1>1, <1>2, <1>4, SuccessNext DEF RecvMoves

\* The footer line is the last thing that the peer sends.
LEMMA readFooterTaken ==
  ASSUME TypeOK, EndsInOrder, SizesTaken, NEW e \in Ends, ReadsFrom(e), readFooter(e)
  PROVE  TakenInOrder(e)'
  <1> DEFINE r == GetLine(e)
             base == Preamble(Peer(e)) + send[Peer(e)].requestedBytes
  <1>1. /\ todo[e] # <<>> /\ Head(todo[e]) = "read" /\ recv[e].state = "FOOTER"
        /\ UNCHANGED <<cmd, out, mmodel>> /\ Sized(recv[e])
        /\ TakeLine(e, r)
    BY DEF readFooter, Reading
  <1>2. /\ Peer(e) \in Ends /\ Preamble(Peer(e)) \in Nat
        /\ recv[e].payloadBytes \in Nat /\ recv[e].requestedBytes \in Nat
    BY EndTypes, PeerFacts, PreambleFacts
  <1>3. /\ used[e] = Preamble(Peer(e)) + recv[e].payloadBytes
                       + (IF recv[e].requestedBytes > 0 THEN 2 ELSE 0)
        /\ recv[e].payloadBytes = Cardinality(DataIn(e, used[e]))
        /\ recv[e].requestedBytes = 0 /\ recv[e].requestedZero => recv[e].payloadBytes = 0
    BY <1>1, TakenNow DEF ReadsFrom
  <1>4. /\ Shaped(Peer(e))
        /\ send[Peer(e)].requestedBytes = recv[e].requestedBytes
        /\ Sized(send[Peer(e)])
    BY <1>1, <1>2, LogNow, PeerSizes DEF ReadsFrom
  <1>5. recv[e].payloadBytes = recv[e].requestedBytes
    <2>1. recv[e].requestedBytes > 0 => recv[e].payloadBytes = recv[e].requestedBytes
      BY <1>1 DEF EndsInOrder, EndInv, ReceiptInOrder, ReceivedAll, GotRequested
    <2> QED
      BY <1>1, <1>2, <1>3, <2>1 DEF Sized
  <1>6. /\ Kind(Peer(e), used[e] + 1) = "fin" /\ Kind(Peer(e), used[e] + 2) = "nl"
        /\ \A i \in Nat : i > used[e] + 2 => Kind(Peer(e), i) = "none"
    <2>1. base \in Nat /\ base = Preamble(Peer(e)) + send[Peer(e)].requestedBytes
      BY <1>2, <1>4
    <2>2. /\ send[Peer(e)].requestedBytes > 0 =>
               /\ Kind(Peer(e), base + 3) = "fin" /\ Kind(Peer(e), base + 4) = "nl"
               /\ \A i \in Nat : i > base + 4 => Kind(Peer(e), i) = "none"
          /\ send[Peer(e)].requestedBytes = 0 =>
               /\ Kind(Peer(e), base + 1) = "fin" /\ Kind(Peer(e), base + 2) = "nl"
               /\ \A i \in Nat : i > base + 2 => Kind(Peer(e), i) = "none"
      BY <1>2, <1>4, <2>1, TrailerKinds
    <2>3. used[e] = base + (IF send[Peer(e)].requestedBytes > 0 THEN 2 ELSE 0)
      BY <1>2, <1>3, <1>4, <1>5
    <2>4. CASE send[Peer(e)].requestedBytes > 0
      <3>1. used[e] + 1 = base + 3 /\ used[e] + 2 = base + 4
        BY <2>1, <2>3, <2>4
      <3> QED
        BY <2>2, <2>4, <3>1
    <2>5. CASE send[Peer(e)].requestedBytes = 0
      <3>1. used[e] + 1 = base + 1 /\ used[e] + 2 = base + 2
        BY <2>1, <2>3, <2>5
      <3> QED
        BY <2>2, <2>5, <3>1
    <2> QED
      BY <1>2, <1>4, <2>4, <2>5
  <1>7. /\ r.kind \in {"line", "error", "eof", "again"}
        /\ used'[e] \in Nat /\ got'[e] \in Nat /\ got'[e] <= arr[e]
        /\ r.kind = "line" => used'[e] = used[e] + 2 /\ used'[e] <= got'[e]
        /\ r.kind # "line" => used'[e] = used[e]
        /\ r.kind = "again" => Newlines(e, got[e])' = {}
        /\ Cardinality(DataIn(e, used'[e])) = Cardinality(DataIn(e, used[e]))
    BY <1>1, <1>4, <1>6, TrailerLine
  <1>8. CASE r.kind # "line"
    <2>1. ReadFails(e, r.kind)
      BY <1>8 DEF readFooter
    <2>2. ReadMax \in Nat
      BY SizeAssumption
    <2> HIDE DEF r
    <2> QED
      BY <1>1, <1>4, <1>7, <1>8, <2>1, <2>2, FailTaken DEF ReadsFrom
  <1>9. CASE r.kind = "line" /\ LineText(e).t = "fin"
    <2>1. recv' = [recv EXCEPT ![e].state = "SUCCESS"] /\ UNCHANGED todo
      BY <1>9 DEF readFooter
    <2>2. RecvMoves(e, "SUCCESS")
      BY <2>1, SetState DEF RecvStates
    <2>3. Counted(e)
      BY <1>3, <1>7, <2>2 DEF Counted, RecvMoves
    <2>4. /\ Len(out[Peer(e)]) \in Nat /\ arr[e] \in Nat /\ arr[e] <= Len(out[Peer(e)])
          /\ out[Peer(e)] \in Seq(Tokens) /\ used[e] \in Nat
      BY ReadLogged
    <2>5. Len(out[Peer(e)]) <= used[e] + 2
      <3> SUFFICES ASSUME Len(out[Peer(e)]) > used[e] + 2
                   PROVE  FALSE
        BY <2>4
      <3>1. PICK i \in 1 .. Len(out[Peer(e)]) : i > used[e] + 2
        BY <2>4
      <3>2. out[Peer(e)][i].t = "none"
        BY <1>4, <1>6, <3>1 DEF Shaped
      <3>3. out[Peer(e)][i] \in Tokens
        BY <2>4
      <3> QED
        BY <3>2, <3>3 DEF Tokens
    <2>6. Buffered(e)' = 0
      <3>1. Buffered(e)' = got'[e] - used'[e]
        BY DEF Buffered
      <3>2. used'[e] = used[e] + 2 /\ used'[e] <= got'[e]
        BY <1>7, <1>9
      <3> QED
        BY <1>7, <2>4, <2>5, <3>1, <3>2
    <2> QED
      BY <1>1, <2>1, <2>2, <2>3, <2>6, SuccessNext DEF RecvMoves
  <1>10. CASE r.kind = "line" /\ LineText(e).t # "fin"
    <2>1. /\ recv' = [recv EXCEPT ![e].state = "ERROR"]
          /\ error' = [error EXCEPT ![e] = "FOOTER"] /\ Leave(e)
      BY <1>10 DEF readFooter
    <2>2. RecvMoves(e, "ERROR") /\ ErrorMoves(e, "FOOTER")
      BY <1>1, <2>1, SetState, SetError DEF RecvStates, Errors
    <2>3. todo'[e] # <<>>
      BY <1>1, <2>1, MoreToDo DEF ReadsFrom
    <2>4. Counted(e)
      BY <1>3, <1>7, <2>2 DEF Counted, RecvMoves
    <2> QED
      BY <1>1, <2>2, <2>3, <2>4, CheckFails DEF RecvMoves, ErrorMoves
  <1> QED
    BY <1>8, <1>9, <1>10

\* Where no stage is left, nothing is in the buffer that a later stage would take.
LEMMA endReadableTaken ==
  ASSUME TypeOK, EndsInOrder, NEW e \in Ends, ReadsFrom(e), endReadable(e)
  PROVE  TakenInOrder(e)'
  <1>1. /\ todo[e] # <<>> /\ Head(todo[e]) = "read"
        /\ recv[e].state \in {"NONE", "SUCCESS", "ERROR"}
        /\ UNCHANGED <<cmd, out, got, used, recv, error, mmodel, transport>> /\ Leave(e)
    BY DEF endReadable, Reading, stream
  <1>2. todo'[e] # <<>>
    BY <1>1, MoreToDo DEF ReadsFrom
  <1>3. recv[e].state = "ERROR" => error[e] # "NONE"
    BY DEF EndsInOrder, EndInv, StatesAgree
  <1>4. recv[e].state = "NONE" => used[e] = 0 /\ got[e] = 0 /\ recv[e].modelBytes = 0
    BY DEF ReadsFrom, TakenInOrder
  <1>5. Buffered(e) = 0 \/ error[e] # "NONE" \/ Gone(e)
    BY <1>1, <1>3, <1>4, TakenNow DEF ReadsFrom, Buffered
  <1>6. recv[e].payloadBytes = Cardinality({i \in 1 .. used[e] : out[Peer(e)][i].t = "data"})
    BY DEF ReadsFrom, TakenInOrder
  <1>7. /\ Buffered(e)' = Buffered(e) /\ Gone(e)' = Gone(e)
        /\ recv[e].state = "SUCCESS" => Buffered(e) = 0 \/ Gone(e)
    BY <1>1, TakenNow DEF ReadsFrom, Buffered, Gone
  <1> QED
    BY <1>1, <1>2, <1>4, <1>5, <1>6, <1>7 DEF TakenInOrder

\* A stage of onReadable reads and takes at its own end only.
LEMMA ReadsHere ==
  ASSUME NEW e \in Ends, onReadable(e)
  PROVE  \A x \in Ends \ {e} : got'[x] = got[x] /\ used'[x] = used[x]
  <1>1. ASSUME got' = got, used' = used
        PROVE  \A x \in Ends \ {e} : got'[x] = got[x] /\ used'[x] = used[x]
    BY <1>1
  <1>2. ASSUME NEW n, Take(e, n)
        PROVE  \A x \in Ends \ {e} : got'[x] = got[x] /\ used'[x] = used[x]
    BY <1>2 DEF Take
  <1>3. ASSUME NEW r, TakeLine(e, r)
        PROVE  \A x \in Ends \ {e} : got'[x] = got[x] /\ used'[x] = used[x]
    <2>1. got' = [got EXCEPT ![e] = @ + r.n]
      BY <1>3 DEF TakeLine
    <2>2. CASE r.kind = "line"
      <3>1. PICK i : used' = [used EXCEPT ![e] = i]
        BY <1>3, <2>2 DEF TakeLine
      <3> QED
        BY <2>1, <3>1
    <2>3. CASE r.kind # "line"
      BY <1>3, <2>1, <2>3 DEF TakeLine
    <2> QED
      BY <2>2, <2>3
  <1>4. CASE readAuthenticate(e)
    BY <1>2, <1>4 DEF readAuthenticate
  <1>5. CASE readHeader(e)
    BY <1>3, <1>5 DEF readHeader
  <1>6. CASE readModel(e)
    BY <1>2, <1>6 DEF readModel
  <1>7. CASE readPayload(e)
    BY <1>2, <1>7 DEF readPayload
  <1>8. CASE readChecksum(e)
    BY <1>3, <1>8 DEF readChecksum
  <1>9. CASE readFooter(e)
    BY <1>3, <1>9 DEF readFooter
  <1>10. CASE skipModel(e) \/ skipChecksum(e) \/ skipFooter(e) \/ endReadable(e)
    BY <1>1, <1>10 DEF skipModel, skipChecksum, skipFooter, endReadable
  <1> QED
    BY <1>4, <1>5, <1>6, <1>7, <1>8, <1>9, <1>10 DEF onReadable

\* Every stage of onReadable keeps what is taken in order, at both ends.
LEMMA ReadTaken ==
  ASSUME TypeOK, EndsInOrder, SizesTaken, NEW e \in Ends, onReadable(e), DeferralKept(e),
         \A x \in Ends : LogInOrder(x) /\ TakenInOrder(x)
  PROVE  \A x \in Ends : TakenInOrder(x)'
  <1>1. ReadsFrom(e)
    BY PeerFacts DEF ReadsFrom
  <1>2. TakenInOrder(e)'
    BY <1>1, readAuthenticateTaken, readHeaderTaken, skipModelTaken, readModelTaken,
      readPayloadTaken, skipChecksumTaken, readChecksumTaken, skipFooterTaken,
      readFooterTaken, endReadableTaken DEF onReadable
  <1>3. /\ OtherStays(e) /\ UNCHANGED <<cmd, out, transport>>
        /\ todo' = todo \/ Leave(e)
        /\ todo[e] # <<>> /\ Head(todo[e]) = "read"
    BY onReadableOutcome DEF ReadOutcome
  <1>4. \A x \in Ends \ {e} : todo'[x] = todo[x]
    BY <1>3, MoreToDo
  <1>5. ASSUME NEW x \in Ends, x # e
        PROVE  TakenInOrder(x)'
    BY <1>3, <1>4, <1>5, OtherTaken, ReadsHere
  <1> QED
    BY <1>2, <1>5

\* A server that still reads the command has logged nothing.
LEMMA SilentServer ==
  ASSUME TypeOK, Agreed, NEW e \in Ends, LogInOrder(e),
         \/ recv[e].state = "MODEL"
         \/ e = "server" /\ recv[e].state = "HEADER"
  PROVE  e = "server" /\ send[e].state = "NONE" /\ out[e] = <<>> /\ Pending(e) = 0
  <1>1. e = "server"
    BY EndNames DEF Agreed, ClientAccepted
  <1>2. send[e].state = "NONE"
    BY <1>1 DEF Agreed, WritesInBounds
  <1>3. out[e] = <<>>
    BY <1>2, LogNow
  <1>4. Pending(e) = 0
    BY <1>3, LogTypes
  <1> QED
    BY <1>1, <1>2, <1>3, <1>4

\* The answer of a server that has logged nothing starts the log.
LEMMA AnswerLogs ==
  ASSUME TypeOK, NEW e \in Ends, UNCHANGED <<cmd, out, put>>, out[e] = <<>>, Pending(e) = 0,
         send'[e].state = "RESPONSE",
         send'[e].requestedBytes = send[e].requestedBytes,
         send'[e].requestedZero = send[e].requestedZero
  PROVE  LogInOrder(e)'
  <1>1. Len(out'[e]) = 0 /\ Pending(e)' = 0 /\ out'[e] = <<>>
    BY DEF Pending
  <1>2. WroteFrom(e, 0, Preamble(e))
    BY <1>1 DEF WroteFrom
  <1>3. \A i \in 1 .. Len(out'[e]) : out'[e][i].t = Kind(e, i)
    BY <1>1
  <1> QED
    BY <1>1, <1>2, <1>3, LogNext

\* Reading keeps the logs in order: it writes nothing, and an answer starts a new log.
LEMMA ReadLogs ==
  ASSUME TypeOK, Agreed, NEW e \in Ends, ReadOutcome(e), \A x \in Ends : LogInOrder(x)
  PROVE  \A x \in Ends : LogInOrder(x)'
  <1>1. OtherStays(e) /\ UNCHANGED <<cmd, out, put>>
    BY DEF ReadOutcome
  <1>2. ASSUME NEW x \in Ends, send'[x] = send[x]
        PROVE  LogInOrder(x)'
    BY <1>1, <1>2, LogFrame
  <1>3. CASE Stays(e)
    BY <1>1, <1>2, <1>3 DEF OtherStays, Stays
  <1>4. CASE Refuses(e)
    <2>1. CASE send'[e].state = "SUCCESS"
      <3>1. \A i \in 1 .. Len(out'[e]) : out'[e][i].t = Kind(e, i)
        BY <1>1, LogNow DEF Shaped
      <3>2. LogInOrder(e)'
        BY <1>1, <1>4, <2>1, <3>1, LogNext DEF Refuses
      <3> QED
        BY <1>1, <1>2, <3>2 DEF OtherStays
    <2>2. CASE send'[e].state = "RESPONSE"
      <3>1. recv[e].state = "MODEL" \/ (e = "server" /\ recv[e].state = "HEADER")
        BY <1>4, <2>2, EndNames DEF Refuses
      <3>2. out[e] = <<>> /\ Pending(e) = 0
        BY <3>1, SilentServer
      <3>3. LogInOrder(e)'
        BY <1>1, <1>4, <2>2, <3>2, AnswerLogs DEF Refuses
      <3> QED
        BY <1>1, <1>2, <3>3 DEF OtherStays
    <2> QED
      BY <1>4, <2>1, <2>2 DEF Refuses
  <1>5. CASE TakesHeader(e)
    <2>1. send[e].state = "NONE" /\ out[e] = <<>>
      BY <1>5, SilentServer DEF TakesHeader
    <2>2. send'[e].state = "NONE" /\ out'[e] = <<>>
      BY <1>1, <1>5, <2>1 DEF TakesHeader
    <2>3. LogInOrder(e)'
      BY <2>2 DEF LogInOrder
    <2> QED
      BY <1>1, <1>2, <2>3 DEF OtherStays
  <1>6. CASE Answers(e)
    <2>1. out[e] = <<>> /\ Pending(e) = 0
      BY <1>6, SilentServer DEF Answers
    <2>2. LogInOrder(e)'
      BY <1>1, <1>6, <2>1, AnswerLogs DEF Answers
    <2> QED
      BY <1>1, <1>2, <2>2 DEF OtherStays
  <1> QED
    BY <1>3, <1>4, <1>5, <1>6 DEF ReadOutcome, NoVerdict, AfterHandshake, Authenticates, IsAccepted

-----------------------------------------------------------------------------
(* The sizes that either end knows of the other.                            *)

\* What shows that the server took the sizes from the header.
SizesDue ==
  \/ recv["server"].state \in {"MODEL", "PAYLOAD", "CHECKSUM", "FOOTER"}
  \/ send["server"].state # "NONE" /\ error["server"] = "NONE"
  \/ \E i \in 1 .. Len(out["server"]) : out["server"][i] = Tok("hdr", 0)
  \/ recv["client"].state \in {"PAYLOAD", "CHECKSUM", "FOOTER"}

\* SizesTaken, in these terms.
LEMMA SizesForm == SizesTaken <=> (SizesDue => SizesMatch)
  BY Zenon DEF SizesTaken, SizesDue

\* The same of the next state.
LEMMA SizesFormNext == SizesTaken' <=> (SizesDue' => SizesMatch')
  BY SizesForm, PTL

\* Nobody's sizes change.
SameSizes ==
  \A x \in Ends : /\ recv'[x].requestedBytes = recv[x].requestedBytes
                  /\ recv'[x].requestedZero = recv[x].requestedZero
                  /\ send'[x].requestedBytes = send[x].requestedBytes
                  /\ send'[x].requestedZero = send[x].requestedZero

\* A step that changes no size must not show that sizes were taken that were not.
LEMMA SizesKept ==
  ASSUME SizesTaken, SameSizes, SizesDue' => SizesDue
  PROVE  SizesTaken'
  <1>1. SizesMatch => SizesMatch'
    BY EndNames DEF SameSizes, SizesMatch
  <1> QED
    BY <1>1, SizesForm, SizesFormNext

\* Reading keeps the sizes: the server takes them with the header, before it can be seen to.
LEMMA ReadSizes ==
  ASSUME EndsInOrder', Agreed, SizesTaken, NEW e \in Ends, ReadOutcome(e)
  PROVE  SizesTaken'
  <1>1. OtherStays(e) /\ out' = out /\ (error[e] # "NONE" => error'[e] # "NONE")
    BY DEF ReadOutcome
  <1>2. CASE TakesHeader(e)
    <2>1. e = "server" /\ recv'["client"] = recv["client"] /\ send'["client"] = send["client"]
      BY <1>1, <1>2, EndNames DEF TakesHeader, OtherStays
    <2>2. SizesMatch'
      BY <1>2, <2>1 DEF TakesHeader, SizesMatch
    <2> QED
      BY <2>2, SizesFormNext
  <1>3. CASE ~TakesHeader(e)
    <2>1. \/ NoVerdict(e) \/ AfterHandshake(e) \/ Authenticates(e) \/ IsAccepted(e)
          \/ Refuses(e) \/ Answers(e)
      BY <1>3 DEF ReadOutcome
    <2>2. SameSizes
      <3>1. /\ recv'[e].requestedBytes = recv[e].requestedBytes
            /\ recv'[e].requestedZero = recv[e].requestedZero
            /\ send'[e].requestedBytes = send[e].requestedBytes
            /\ send'[e].requestedZero = send[e].requestedZero
        BY <2>1 DEF NoVerdict, AfterHandshake, Authenticates, IsAccepted, Refuses, Answers, Stays
      <3> QED
        BY <1>1, <3>1 DEF SameSizes, OtherStays
    <2>3. CASE e = "client"
      <3>1. /\ recv'["server"] = recv["server"] /\ send'["server"] = send["server"]
            /\ error'["server"] = error["server"]
        BY <1>1, <2>3, EndNames DEF OtherStays
      <3>2. recv'["client"].state \in {"PAYLOAD", "CHECKSUM", "FOOTER"} => SizesDue
        <4>1. CASE IsAccepted(e)
          BY <2>3, <4>1, EndNames DEF IsAccepted, Logged, SizesDue
        <4>2. CASE Answers(e)
          BY <2>3, <4>2 DEF Answers, Agreed, ClientAccepted
        <4>3. CASE NoVerdict(e) \/ AfterHandshake(e) \/ Authenticates(e) \/ Refuses(e)
          BY <2>3, <4>3 DEF NoVerdict, AfterHandshake, Authenticates, Refuses, SizesDue
        <4> QED
          BY <2>1, <4>1, <4>2, <4>3
      <3>3. SizesDue' => SizesDue
        BY <1>1, <3>1, <3>2 DEF SizesDue
      <3> QED
        BY <2>2, <3>3, SizesKept
    <2>4. CASE e = "server"
      <3>1. recv'["client"] = recv["client"]
        BY <1>1, <2>4, EndNames DEF OtherStays
      <3>2. recv'["server"].state \in {"MODEL", "PAYLOAD", "CHECKSUM", "FOOTER"} => SizesDue
        BY <2>1, <2>4 DEF NoVerdict, AfterHandshake, Authenticates, IsAccepted, Refuses, Answers,
          SizesDue
      <3>3. send'["server"].state # "NONE" /\ error'["server"] = "NONE" => SizesDue
        <4>1. CASE Stays(e)
          BY <1>1, <2>4, <4>1 DEF Stays, SizesDue
        <4>2. CASE Refuses(e)
          <5>1. recv'[e].state = "ERROR"
            BY <4>2 DEF Refuses
          <5>2. error'[e] # "NONE"
            BY <5>1 DEF EndsInOrder, EndInv, StatesAgree
          <5> QED
            BY <2>4, <5>2
        <4>3. CASE Answers(e)
          BY <2>4, <4>3 DEF Answers, SizesDue
        <4> QED
          BY <2>1, <4>1, <4>2, <4>3 DEF NoVerdict, AfterHandshake, Authenticates, IsAccepted
      <3>4. SizesDue' => SizesDue
        BY <1>1, <3>1, <3>2, <3>3 DEF SizesDue
      <3> QED
        BY <2>2, <3>4, SizesKept
    <2> QED
      BY <2>3, <2>4, EndNames
  <1> QED
    BY <1>2, <1>3

\* Writing changes no size, and the server says that it accepts only without an error.
LEMMA WriteSizes ==
  ASSUME Agreed, SizesTaken, NEW e \in Ends, WriteOutcome(e)
  PROVE  SizesTaken'
  <1>1. /\ OtherStays(e) /\ SizesStay(e) /\ (error[e] # "NONE" => error'[e] # "NONE")
        /\ \A x \in Ends \ {e} : out'[x] = out[x]
    BY DEF WriteOutcome
  <1>2. SameSizes
    BY <1>1 DEF SameSizes, OtherStays, SizesStay
  <1>3. CASE e = "client"
    <2>1. /\ recv'["server"] = recv["server"] /\ send'["server"] = send["server"]
          /\ error'["server"] = error["server"] /\ out'["server"] = out["server"]
      BY <1>1, <1>3, EndNames DEF OtherStays
    <2>2. recv'["client"].state = recv["client"].state \/ recv'["client"].state = "AUTHENTICATE"
      BY <1>3 DEF WriteOutcome, SaysCommand, SaysResponse, SaysChecksum, SaysFooter, Skips,
        Flushes, WalksOn
    <2>3. SizesDue' => SizesDue
      BY <2>1, <2>2 DEF SizesDue
    <2> QED
      BY <1>2, <2>3, SizesKept
  <1>4. CASE e = "server"
    <2>1. recv'["client"] = recv["client"]
      BY <1>1, <1>4, EndNames DEF OtherStays
    <2>2. /\ SaysResponse(e) \/ SaysChecksum(e) \/ SaysFooter(e) \/ Skips(e) \/ Flushes(e)
               \/ WalksOn(e)
          /\ send["server"].state # "COMMAND"
      BY <1>4 DEF WriteOutcome, SaysCommand, Agreed, ServerAccepts
    <2>3. recv'["server"].state = recv["server"].state
      BY <1>4, <2>2 DEF SaysResponse, SaysChecksum, SaysFooter, Skips, Flushes, WalksOn
    <2>4. send'["server"].state # "NONE" => send["server"].state # "NONE"
      BY <1>4, <2>2 DEF SaysResponse, SaysChecksum, SaysFooter, Skips, Flushes, WalksOn
    <2>5. Tok("hdr", 0) \in Said("server")' => SizesDue
      <3>1. Tok("hdr", 0) \in Said("server") => SizesDue
        BY DEF Said, SizesDue
      <3>2. CASE SaysResponse(e)
        <4>1. /\ send["server"].state = "RESPONSE"
              /\ Said("server")' \subseteq Said("server") \cup
                   {Tok("auth", 0), Tok("hdr", Verdict(error["server"] = "NONE")), Tok("nl", 0)}
          BY <1>4, <3>2 DEF SaysResponse, LineOut
        <4>2. Tok("hdr", 0) \in Said("server")' =>
                Tok("hdr", 0) \in Said("server") \/ error["server"] = "NONE"
          BY <4>1, TokensDiffer DEF Verdict
        <4> QED
          BY <3>1, <4>1, <4>2 DEF SizesDue
      <3>3. CASE SaysChecksum(e) \/ SaysFooter(e) \/ WalksOn(e)
        <4>1. Tok("hdr", 0) \in Said("server")' => Tok("hdr", 0) \in Said("server")
          BY <1>4, <3>3, TokensDiffer DEF SaysChecksum, SaysFooter, WalksOn, LineOut
        <4> QED
          BY <3>1, <4>1
      <3>4. CASE Skips(e) \/ Flushes(e)
        <4>1. out' = out
          BY <3>4 DEF Skips, Flushes
        <4>2. Said("server")' = Said("server")
          BY <4>1 DEF Said
        <4> QED
          BY <3>1, <4>2
      <3> QED
        BY <2>2, <3>2, <3>3, <3>4
    <2>6. (\E i \in 1 .. Len(out'["server"]) : out'["server"][i] = Tok("hdr", 0)) => SizesDue
      BY <2>5 DEF Said
    <2>7. send'["server"].state # "NONE" /\ error'["server"] = "NONE" => SizesDue
      BY <1>1, <1>4, <2>4 DEF SizesDue
    <2>8. SizesDue' => SizesDue
      <3>1. recv["server"].state \in {"MODEL", "PAYLOAD", "CHECKSUM", "FOOTER"} => SizesDue
        BY DEF SizesDue
      <3>2. recv["client"].state \in {"PAYLOAD", "CHECKSUM", "FOOTER"} => SizesDue
        BY DEF SizesDue
      <3>3. SizesDue' =>
              \/ recv'["server"].state \in {"MODEL", "PAYLOAD", "CHECKSUM", "FOOTER"}
              \/ send'["server"].state # "NONE" /\ error'["server"] = "NONE"
              \/ \E i \in 1 .. Len(out'["server"]) : out'["server"][i] = Tok("hdr", 0)
              \/ recv'["client"].state \in {"PAYLOAD", "CHECKSUM", "FOOTER"}
        BY DEF SizesDue, Tok
      <3> QED
        BY <2>1, <2>3, <2>6, <2>7, <3>1, <3>2, <3>3
    <2> QED
      BY <1>2, <2>8, SizesKept
  <1> QED
    BY <1>3, <1>4, EndNames

\* Events, timers and the network change no size and show nothing new.
LEMMA EventSizes ==
  ASSUME SizesTaken, NEW e \in Ends, EventOutcome(e)
  PROVE  SizesTaken'
  <1>1. /\ OtherStays(e) /\ SizesStay(e) /\ out' = out
        /\ error[e] # "NONE" => error'[e] # "NONE"
        /\ recv'[e].state \in {recv[e].state, "ERROR", "SUCCESS"}
        /\ send'[e].state # "NONE" => send[e].state # "NONE"
    BY DEF EventOutcome
  <1>2. SameSizes
    BY <1>1 DEF SameSizes, OtherStays, SizesStay
  <1>3. SizesDue' => SizesDue
    <2>1. CASE e = "client"
      <3>1. /\ recv'["server"] = recv["server"] /\ send'["server"] = send["server"]
            /\ error'["server"] = error["server"]
        BY <1>1, <2>1, EndNames DEF OtherStays
      <3> QED
        BY <1>1, <2>1, <3>1 DEF SizesDue
    <2>2. CASE e = "server"
      <3>1. recv'["client"] = recv["client"]
        BY <1>1, <2>2, EndNames DEF OtherStays
      <3> QED
        BY <1>1, <2>2, <3>1 DEF SizesDue
    <2> QED
      BY <2>1, <2>2, EndNames
  <1> QED
    BY <1>2, <1>3, SizesKept

-----------------------------------------------------------------------------
(* Events, timers and the network: nothing is written and nothing taken.    *)

\* Nothing that an event does changes what is logged.
LEMMA EventLogs ==
  ASSUME TypeOK, NEW e \in Ends, EventOutcome(e), \A x \in Ends : LogInOrder(x)
  PROVE  \A x \in Ends : LogInOrder(x)'
  <1>1. /\ OtherStays(e) /\ SizesStay(e) /\ UNCHANGED <<cmd, out, put>>
        /\ send'[e].payloadBytes = send[e].payloadBytes
        /\ send'[e].state = send[e].state \/ send'[e].state = "ERROR"
    BY DEF EventOutcome
  <1>2. ASSUME NEW x \in Ends, x # e
        PROVE  LogInOrder(x)'
    BY <1>1, <1>2, LogFrame DEF OtherStays
  <1>3. /\ send'[e].requestedBytes = send[e].requestedBytes
        /\ send'[e].requestedZero = send[e].requestedZero
    BY <1>1 DEF SizesStay
  <1>4. /\ out'[e] = out[e] /\ put'[e] = put[e] /\ Pending(e)' = Pending(e)
        /\ \A i \in 1 .. Len(out'[e]) : out'[e][i].t = Kind(e, i)
    BY <1>1, LogNow DEF Shaped, Pending
  <1>5. CASE send'[e].state = send[e].state
    <2>1. /\ send[e].state = "NONE" => out[e] = <<>>
          /\ send[e].state \in {"COMMAND", "RESPONSE"} => WroteFrom(e, 0, Preamble(e))
          /\ send[e].state = "PAYLOAD" => put[e] = Preamble(e) + send[e].payloadBytes
          /\ send[e].state = "CHECKSUM" =>
               WroteFrom(e, Preamble(e) + send[e].payloadBytes, SumLen(e))
          /\ send[e].state = "FOOTER" =>
               WroteFrom(e, Preamble(e) + send[e].payloadBytes + SumLen(e), 2)
          /\ send[e].state \in {"PAYLOAD", "CHECKSUM", "FOOTER"}
               /\ send[e].requestedBytes = 0 /\ send[e].requestedZero =>
               send[e].payloadBytes = 0 /\ (send[e].state = "PAYLOAD" => Pending(e) = 0)
          /\ send[e].state \in {"CHECKSUM", "FOOTER"} /\ send[e].requestedBytes > 0 =>
               send[e].payloadBytes = send[e].requestedBytes
      BY <1>4, LogNow DEF WritesFrom, WroteFrom
    <2>2. LogInOrder(e)'
      BY <1>1, <1>3, <1>4, <1>5, <2>1, LogNext
    <2> QED
      BY <1>2, <2>2
  <1>6. CASE send'[e].state = "ERROR"
    <2>1. LogInOrder(e)'
      BY <1>1, <1>3, <1>4, <1>6, LogNext
    <2> QED
      BY <1>2, <2>1
  <1> QED
    BY <1>1, <1>5, <1>6

\* An event that starts, goes on or is given up takes nothing and keeps the receive state,
\* or the stream is over.
LEMMA EventTaken ==
  ASSUME TypeOK, NEW e \in Ends, TakenInOrder(e), EventOutcome(e), UNCHANGED <<got, used>>,
         recv'[e].state = recv[e].state \/ Gone(e)',
         InPhase(e, "read") => InPhase(e, "read")' \/ Gone(e)',
         Gone(e) => Gone(e)',
         todo'[e] = <<>> /\ error'[e] # "NONE" => Gone(e)'
  PROVE  TakenInOrder(e)'
  <1>1. /\ SizesStay(e) /\ UNCHANGED <<cmd, out, got, used>> /\ mmodel'[e] = mmodel[e]
        /\ error[e] # "NONE" => error'[e] # "NONE"
        /\ recv'[e].state \in {recv[e].state, "ERROR", "SUCCESS"}
    BY DEF EventOutcome
  <1>2. SameUpTo(e, got[e])
    BY <1>1 DEF SameUpTo
  <1>3. CASE recv'[e].state = recv[e].state /\ ~Gone(e)'
    BY <1>1, <1>2, <1>3, TakenFrame DEF SizesStay
  <1>4. CASE Gone(e)' /\ recv'[e].state \in {"ERROR", "SUCCESS"}
    <2>1. recv'[e].payloadBytes = Cardinality({i \in 1 .. used'[e] : out'[Peer(e)][i].t = "data"})
      BY <1>1 DEF SizesStay, TakenInOrder
    <2> QED
      BY <1>4, <2>1, TakenOver
  <1>5. CASE Gone(e)' /\ recv'[e].state = recv[e].state
    <2>1. UNCHANGED <<cmd, out, got, used>> /\ recv'[e].state = recv[e].state
      BY <1>1, <1>5
    <2>2. /\ recv'[e].payloadBytes = recv[e].payloadBytes
          /\ recv'[e].modelBytes = recv[e].modelBytes
          /\ recv'[e].requestedBytes = recv[e].requestedBytes
          /\ recv'[e].requestedZero = recv[e].requestedZero
          /\ mmodel'[e].loaded = mmodel[e].loaded
      BY <1>1 DEF SizesStay
    <2>3. /\ Newlines(e, got[e])' = Newlines(e, got[e])
          /\ Buffered(e)' = Buffered(e) /\ Preamble(Peer(e))' = Preamble(Peer(e))
          /\ (~Sized(recv[e]))' <=> ~Sized(recv[e])
      BY <2>1, <2>2 DEF Newlines, Buffered, Preamble, Sized
    <2> QED
      BY <1>5, <2>1, <2>2, <2>3 DEF TakenInOrder
  <1> QED
    BY <1>1, <1>3, <1>4, <1>5

\* A stream between events that is not closed has no error.
LEMMA IdleFine ==
  ASSUME NEW e \in Ends, TakenInOrder(e), Idle(e)
  PROVE  error[e] = "NONE" /\ ~Gone(e) /\ ~InPhase(e, "read")
  BY DEF TakenInOrder, Idle, InPhase

\* Every step that reads and writes nothing keeps what is taken in order, at its own end.
LEMMA onEventTaken ==
  ASSUME TypeOK, EndsInOrder, NEW e \in Ends, TakenInOrder(e), DeferralKept(e),
         EventOutcome(e), onEvent(e) \/ clearBarrier(e)
  PROVE  TakenInOrder(e)'
  <1>1. UNCHANGED <<recv, error, transport, got, used>>
    BY DEF onEvent, clearBarrier, stream, io
  <1>2. CASE onEvent(e)
    <2>1. error[e] = "NONE" /\ ~Gone(e) /\ ~InPhase(e, "read")
      BY <1>2, IdleFine DEF onEvent
    <2> QED
      BY <1>1, <2>1, EventTaken
  <1>3. CASE clearBarrier(e)
    <2>1. /\ todo[e] # <<>> /\ Head(todo[e]) \in {"barrier", "undefer"} /\ Leave(e)
      BY <1>3 DEF clearBarrier, InPhase
    <2>2. todo'[e] # <<>> /\ ~InPhase(e, "read")
      BY <2>1, MoreToDo DEF InPhase
    <2>3. Gone(e)' = Gone(e)
      BY <1>1 DEF Gone
    <2> QED
      BY <1>1, <2>2, <2>3, EventTaken
  <1> QED
    BY <1>2, <1>3

\* A stream that is deregistered is over.
LEMMA DeregisterTaken ==
  ASSUME TypeOK, NEW e \in Ends, TakenInOrder(e), EventOutcome(e), UNCHANGED <<got, used>>,
         Deregister(e)
  PROVE  TakenInOrder(e)'
  <1>1. Gone(e)'
    BY DEF Deregister, Gone, TypeOK, StreamTypes
  <1> QED
    BY <1>1, EventTaken

\* The end of an event closes a stream that is done, and one with an error is.
LEMMA finishTaken ==
  ASSUME TypeOK, NEW e \in Ends, TakenInOrder(e), EventOutcome(e), finish(e)
  PROVE  TakenInOrder(e)'
  <1>1. UNCHANGED <<error, got, used>> /\ ~InPhase(e, "read")
    BY DEF finish, io, InPhase
  <1>2. CASE StreamDone(e)
    BY <1>1, <1>2, DeregisterTaken DEF finish
  <1>3. CASE ~StreamDone(e)
    <2>1. error[e] = "NONE"
      BY <1>3 DEF StreamDone, SendDone, RecvDone
    <2>2. ~MetExpected(e)
      BY <1>3 DEF StreamDone, MetExpected
    <2>3. recv'[e].state = recv[e].state /\ transport' = transport
      BY <1>3, <2>2 DEF finish, TypeOK, StreamTypes, RecvType
    <2>4. Gone(e)' = Gone(e)
      BY <2>3 DEF Gone
    <2> QED
      BY <1>1, <2>1, <2>3, <2>4, EventTaken
  <1> QED
    BY <1>2, <1>3

\* The clock, the timer and the network take nothing.
LEMMA QuietTaken ==
  ASSUME TypeOK, NEW e \in Ends, TakenInOrder(e), EventOutcome(e),
         connect(e) \/ barrierPasses(e) \/ onDeferTimerExpired(e) \/ deliver(e) \/ Reset(e)
  PROVE  TakenInOrder(e)'
  <1>1. UNCHANGED <<recv, error, todo, got, used>>
    BY DEF connect, barrierPasses, onDeferTimerExpired, deliver, Reset, stream, io
  <1>2. InPhase(e, "read")' <=> InPhase(e, "read")
    BY <1>1 DEF InPhase
  <1>3. CASE connect(e)
    <2>1. error[e] = "NONE" /\ ~Gone(e)
      BY <1>3, IdleFine DEF connect
    <2> QED
      BY <1>1, <1>2, <2>1, EventTaken
  <1>4. CASE barrierPasses(e) \/ onDeferTimerExpired(e) \/ deliver(e) \/ Reset(e)
    <2>1. Gone(e)' = Gone(e)
      BY <1>4 DEF barrierPasses, onDeferTimerExpired, deliver, Reset, Gone
    <2>2. todo'[e] = <<>> /\ error'[e] # "NONE" => Gone(e)'
      BY <1>1, <2>1 DEF TakenInOrder
    <2> QED
      BY <1>1, <1>2, <2>1, <2>2, EventTaken
  <1> QED
    BY <1>3, <1>4

\* A step of the other end that reads and writes nothing.
LEMMA OtherQuiet ==
  ASSUME TypeOK, NEW e \in Ends, NEW x \in Ends, x # e, TakenInOrder(x), EventOutcome(e),
         UNCHANGED <<got, used>>, todo'[x] = todo[x], transport'[x] = transport[x]
  PROVE  TakenInOrder(x)'
  BY OtherTaken DEF EventOutcome

\* Every step keeps what is taken in order, at both ends.
LEMMA NextKeepsTaken ==
  ASSUME TypeOK, TypeOK', EndsInOrder, Agreed, SizesTaken, [Next]_vars,
         \A e \in Ends : DeferralKept(e) /\ LogInOrder(e) /\ TakenInOrder(e)
  PROVE  \A e \in Ends : TakenInOrder(e)'
  <1>1. ASSUME NEW e \in Ends, EventOutcome(e), TakenInOrder(e)', UNCHANGED <<got, used>>,
               \A x \in Ends \ {e} : todo'[x] = todo[x] /\ transport'[x] = transport[x]
        PROVE  \A x \in Ends : TakenInOrder(x)'
    BY <1>1, OtherQuiet
  <1>2. CASE UNCHANGED vars
    <2>1. ASSUME NEW e \in Ends
          PROVE  TakenInOrder(e)'
      <3>1. EventOutcome(e) /\ UNCHANGED <<recv, error, todo, transport, got, used>>
        BY <1>2, SameOutcome DEF vars
      <3>2. /\ Gone(e)' = Gone(e) /\ (InPhase(e, "read")' <=> InPhase(e, "read"))
            /\ todo'[e] = <<>> /\ error'[e] # "NONE" => Gone(e)'
        BY <3>1 DEF Gone, InPhase, TakenInOrder
      <3> QED
        BY <3>1, <3>2, EventTaken
    <2> QED
      BY <2>1
  <1>3. ASSUME NEW e \in Ends,
               \/ onEvent(e) \/ connect(e) \/ onDeferTimerExpired(e) \/ clearBarrier(e)
               \/ barrierPasses(e) \/ deliver(e) \/ Reset(e)
        PROVE  \A x \in Ends : TakenInOrder(x)'
    <2>1. EventOutcome(e)
      BY <1>3, SameOutcome DEF onEvent, connect, onDeferTimerExpired, clearBarrier,
        barrierPasses, deliver, Reset, stream, io
    <2>2. TakenInOrder(e)'
      BY <1>3, <2>1, onEventTaken, QuietTaken
    <2>3. UNCHANGED <<got, used>>
      BY <1>3 DEF onEvent, connect, onDeferTimerExpired, clearBarrier, barrierPasses, deliver,
        Reset, stream, io
    <2>4. \A x \in Ends \ {e} : todo'[x] = todo[x] /\ transport'[x] = transport[x]
      <3>1. CASE onEvent(e) \/ clearBarrier(e) \/ connect(e) \/ barrierPasses(e)
                 \/ onDeferTimerExpired(e)
        BY <3>1, onEventDefers, clearBarrierDefers, TimerDefers DEF EventsStay
      <3>2. CASE deliver(e) \/ Reset(e)
        BY <3>2 DEF deliver, Reset
      <3> QED
        BY <1>3, <3>1, <3>2
    <2> QED
      BY <1>1, <2>1, <2>2, <2>3, <2>4
  <1>4. ASSUME NEW e \in Ends, finish(e) \/ hangup(e) \/ connectFails(e) \/ onCheckTimeout(e)
        PROVE  \A x \in Ends : TakenInOrder(x)'
    <2>1. EventOutcome(e)
      BY <1>4, CompletionOutcome, GivenUpOutcome
    <2>2. UNCHANGED <<got, used>>
      BY <1>4 DEF finish, hangup, connectFails, onCheckTimeout, io
    <2>3. TakenInOrder(e)'
      <3>1. CASE finish(e)
        BY <2>1, <3>1, finishTaken
      <3>2. CASE hangup(e) \/ connectFails(e) \/ onCheckTimeout(e)
        BY <2>1, <2>2, <3>2, DeregisterTaken DEF hangup, connectFails, onCheckTimeout
      <3> QED
        BY <1>4, <3>1, <3>2
    <2>4. \A x \in Ends \ {e} : todo'[x] = todo[x] /\ transport'[x] = transport[x]
      BY <1>4, finishDefers, EndDefers DEF EventsStay
    <2> QED
      BY <1>1, <2>1, <2>2, <2>3, <2>4
  <1>5. ASSUME NEW e \in Ends, onReadable(e)
        PROVE  \A x \in Ends : TakenInOrder(x)'
    BY <1>5, ReadTaken
  <1>6. ASSUME NEW e \in Ends, onWritable(e)
        PROVE  \A x \in Ends : TakenInOrder(x)'
    BY <1>6, onWritableOutcome, WriteLogs, WriteTaken
  <1>7. ASSUME NEW e \in Ends, step(e)
        PROVE  \A x \in Ends : TakenInOrder(x)'
    BY <1>3, <1>4, <1>5, <1>6, <1>7 DEF step
  <1>8. CASE \E e \in Ends : step(e) \/ barrierPasses(e) \/ onCheckTimeout(e)
                             \/ deliver(e) \/ peerResets(e) \/ networkResets(e)
    BY <1>3, <1>4, <1>7, <1>8 DEF peerResets, networkResets
  <1>9. CASE ended
    BY <1>2, <1>9 DEF ended
  <1> QED
    BY <1>2, <1>8, <1>9 DEF Next

\* Every step keeps the logs in order, and the sizes that were taken.
LEMMA NextKeepsLogs ==
  ASSUME TypeOK, TypeOK', EndsInOrder, EndsInOrder', Agreed, SizesTaken, [Next]_vars,
         \A e \in Ends : LogInOrder(e)
  PROVE  SizesTaken' /\ \A e \in Ends : LogInOrder(e)'
  <1>1. ASSUME NEW e \in Ends, onReadable(e)
        PROVE  SizesTaken' /\ \A x \in Ends : LogInOrder(x)'
    BY <1>1, onReadableOutcome, ReadLogs, ReadSizes
  <1>2. ASSUME NEW e \in Ends, onWritable(e)
        PROVE  SizesTaken' /\ \A x \in Ends : LogInOrder(x)'
    <2>1. WriteOutcome(e) /\ LogInOrder(e)'
      BY <1>2, onWritableOutcome, WriteLogs
    <2>2. SizesTaken'
      BY <2>1, WriteSizes
    <2>3. ASSUME NEW x \in Ends, x # e
          PROVE  LogInOrder(x)'
      BY <2>1, <2>3, LogFrame DEF WriteOutcome, OtherStays
    <2> QED
      BY <2>1, <2>2, <2>3
  <1>3. ASSUME NEW e \in Ends, EventOutcome(e)
        PROVE  SizesTaken' /\ \A x \in Ends : LogInOrder(x)'
    BY <1>3, EventLogs, EventSizes
  <1>4. CASE UNCHANGED vars
    <2>1. "client" \in Ends
      BY EndNames
    <2>2. EventOutcome("client")
      BY <1>4, <2>1, SameOutcome DEF vars
    <2> QED
      BY <1>3, <2>1, <2>2
  <1>5. ASSUME NEW e \in Ends,
               \/ onEvent(e) \/ connect(e) \/ onDeferTimerExpired(e) \/ clearBarrier(e)
               \/ barrierPasses(e) \/ deliver(e) \/ Reset(e)
        PROVE  EventOutcome(e)
    BY <1>5, SameOutcome DEF onEvent, connect, onDeferTimerExpired, clearBarrier,
      barrierPasses, deliver, Reset, stream, io
  <1>6. ASSUME NEW e \in Ends, step(e)
        PROVE  SizesTaken' /\ \A x \in Ends : LogInOrder(x)'
    BY <1>1, <1>2, <1>3, <1>5, <1>6, CompletionOutcome, GivenUpOutcome DEF step
  <1>7. CASE \E e \in Ends : step(e) \/ barrierPasses(e) \/ onCheckTimeout(e)
                             \/ deliver(e) \/ peerResets(e) \/ networkResets(e)
    BY <1>3, <1>5, <1>6, <1>7, GivenUpOutcome DEF peerResets, networkResets
  <1>8. CASE ended
    BY <1>4, <1>8 DEF ended
  <1> QED
    BY <1>4, <1>7, <1>8 DEF Next

\* Nothing is logged and nothing taken when the streams start.
LEMMA InitFrames ==
  ASSUME Init
  PROVE  FramesInOrder
  <1>1. PICK o \in Options : /\ recv = [e \in Ends |-> NewRecv(o, e)]
                             /\ send = [e \in Ends |-> NewSend(o, e)]
    BY DEF Init
  <1>2. /\ out = [e \in Ends |-> <<>>] /\ put = [e \in Ends |-> 0]
        /\ got = [e \in Ends |-> 0] /\ used = [e \in Ends |-> 0]
        /\ todo = [e \in Ends |-> <<>>] /\ error = [e \in Ends |-> "NONE"]
    BY DEF Init
  <1>3. ASSUME NEW e \in Ends
        PROVE  LogInOrder(e)
    <2>1. /\ send[e].state = IF e = "client" THEN "COMMAND" ELSE "NONE"
          /\ out[e] = <<>> /\ put[e] = 0
      BY <1>1, <1>2 DEF NewSend
    <2>2. Len(out[e]) = 0 /\ Pending(e) = 0
      BY <2>1 DEF Pending
    <2> QED
      BY <2>1, <2>2 DEF LogInOrder, WritesFrom
  <1>4. ASSUME NEW e \in Ends
        PROVE  TakenInOrder(e)
    <2>1. /\ recv[e].state \in {"NONE", "AUTHENTICATE"} /\ recv[e].payloadBytes = 0
          /\ recv[e].modelBytes = 0 /\ used[e] = 0 /\ got[e] = 0 /\ error[e] = "NONE"
      BY <1>1, <1>2 DEF NewRecv
    <2>2. {i \in 1 .. used[e] : out[Peer(e)][i].t = "data"} = {}
      BY <2>1
    <2>3. Cardinality({i \in 1 .. used[e] : out[Peer(e)][i].t = "data"}) = 0
      BY <2>2, FS_EmptySet
    <2>4. Buffered(e) = 0
      BY <2>1 DEF Buffered
    <2> QED
      BY <2>1, <2>3, <2>4 DEF TakenInOrder
  <1>5. SizesTaken
    <2>1. /\ recv["server"].state = "AUTHENTICATE" /\ send["server"].state = "NONE"
          /\ out["server"] = <<>> /\ recv["client"].state = "NONE"
      BY <1>1, <1>2, EndNames DEF NewRecv, NewSend
    <2> QED
      BY <2>1 DEF SizesTaken
  <1> QED
    BY <1>3, <1>4, <1>5 DEF FramesInOrder

\* Every step keeps the framing, the logs and the sizes in order.
LEMMA NextKeepsFrames ==
  ASSUME TypeOK, TypeOK', EndsInOrder, EndsInOrder', Agreed, FramesInOrder,
         \A e \in Ends : DeferralKept(e), [Next]_vars
  PROVE  FramesInOrder'
  <1>1. SizesTaken /\ \A e \in Ends : LogInOrder(e) /\ TakenInOrder(e)
    BY DEF FramesInOrder
  <1>2. SizesTaken' /\ \A e \in Ends : LogInOrder(e)'
    BY <1>1, NextKeepsLogs
  <1>3. \A e \in Ends : TakenInOrder(e)'
    BY <1>1, NextKeepsTaken
  <1> QED
    BY <1>2, <1>3 DEF FramesInOrder

-----------------------------------------------------------------------------
(* The whole invariant.                                                     *)

\* StreamInv in the parts that the steps keep.
LEMMA InvParts ==
  StreamInv <=>
    EndsInOrder /\ Agreed /\ (\A e \in Ends : DeferralKept(e)) /\ FramesInOrder
  BY DEF StreamInv, Agreed

\* Every step keeps the whole invariant.
LEMMA NextKeepsAll ==
  ASSUME TypeOK, StreamInv, [Next]_vars
  PROVE  TypeOK' /\ StreamInv'
  <1>1. EndsInOrder /\ Agreed /\ (\A e \in Ends : DeferralKept(e)) /\ FramesInOrder
    BY InvParts
  <1>2. TypeOK' /\ EndsInOrder'
    BY <1>1, NextKeeps
  <1>3. PICK e \in Ends : ReadOutcome(e) \/ WriteOutcome(e) \/ EventOutcome(e)
    BY <1>1, NextOutcome
  <1>4. Agreed'
    BY <1>1, <1>2, <1>3, ReadKeepsAgreed, WriteKeepsAgreed, EventKeepsAgreed
  <1>5. \A x \in Ends : DeferralKept(x)'
    BY <1>1, NextKeepsDeferral
  <1>6. FramesInOrder'
    BY <1>1, <1>2, NextKeepsFrames
  <1>7. (EndsInOrder /\ Agreed /\ (\A x \in Ends : DeferralKept(x)) /\ FramesInOrder)'
    BY <1>2, <1>4, <1>5, <1>6
  <1> QED
    BY <1>2, <1>7 DEF StreamInv, Agreed

-----------------------------------------------------------------------------
(* The theorems.                                                            *)

\* Type correctness: in every reachable state the counters cut the logs in order
\* and no kernel buffer is exceeded, for all sizes.
THEOREM TypeCorrect == Spec => []TypeOK
  <1>1. Init => TypeOK /\ EndsInOrder
    BY InitKeeps
  <1>2. TypeOK /\ EndsInOrder /\ [Next]_vars => (TypeOK /\ EndsInOrder)'
    BY NextKeeps
  <1> QED
    BY <1>1, <1>2, PTL DEF Spec

\* The states of both ends are in order (EndsInOrder) in every reachable state.
LEMMA EndsHold == Spec => []EndsInOrder
  <1>1. Init => TypeOK /\ EndsInOrder
    BY InitKeeps
  <1>2. TypeOK /\ EndsInOrder /\ [Next]_vars => (TypeOK /\ EndsInOrder)'
    BY NextKeeps
  <1> QED
    BY <1>1, <1>2, PTL DEF Spec

\* The driver hears of a stream's completion exactly when it is destroyed.
THEOREM CompletionIsNotified == Spec => []CompletionNotified
  <1>1. EndsInOrder => CompletionNotified
    BY DEF EndsInOrder, EndInv, DestroyedIsFinal, CompletionNotified
  <1> QED
    BY <1>1, EndsHold, PTL

\* A success is mutual: whoever reports one on a stream with a receive size has
\* received all it asked for, and so has its peer.
THEOREM MutualSuccess == Spec => []SuccessIsMutual
  <1>1. EndsInOrder => SuccessIsMutual
    <2> SUFFICES ASSUME EndsInOrder, NEW e \in Ends, note[e] = "success", Sized(recv[e])
                 PROVE  GotRequested(e) /\ GotRequested(Peer(e))
      BY DEF SuccessIsMutual
    <2>1. Peer(e) \in Ends
      BY PeerFacts
    <2>2. EndInv(e) /\ EndInv(Peer(e))
      BY <2>1 DEF EndsInOrder
    <2>3. recv[e].state = "SUCCESS"
      BY <2>2 DEF EndInv, DestroyedIsFinal
    <2>4. GotRequested(e)
      BY <2>2, <2>3 DEF EndInv, ReceiptInOrder, ReceivedAll
    <2>5. HasFooter(Peer(e))
      BY <2>2, <2>3 DEF EndInv, FooterMeansReceived
    <2> QED
      BY <2>2, <2>4, <2>5 DEF EndInv, FooterMeansReceived
  <1> QED
    BY <1>1, EndsHold, PTL

\* The invariant of the streams (StreamInv) holds in every reachable state.
THEOREM InvariantHolds == Spec => []StreamInv
  <1>1. Init => TypeOK /\ StreamInv
    BY InitKeeps, InitAgreed, InitFrames, InvParts
  <1>2. TypeOK /\ StreamInv /\ [Next]_vars => (TypeOK /\ StreamInv)'
    BY NextKeepsAll
  <1> QED
    BY <1>1, <1>2, PTL DEF Spec

\* The assertion of onWritable: no write is attempted before the time it was deferred to.
THEOREM WritesWaitForBarrier == Spec => []BarrierRespected
  <1>1. StreamInv => BarrierRespected
    <2> SUFFICES ASSUME StreamInv, NEW e \in Ends, InPhase(e, "barrier")
                 PROVE  send[e].defer # "pending"
      BY DEF BarrierRespected
    <2>1. DeferralKept(e)
      BY DEF StreamInv
    <2>2. TailFits(todo[e])
      BY <2>1, PlanTails DEF DeferralKept, InPhase
    <2> QED
      BY <2>1, <2>2 DEF DeferralKept, TailFits, InPhase
  <1> QED
    BY <1>1, InvariantHolds, PTL

\* No stage reads or writes more than was asked for, and a stage that starts to buffer
\* finds the send buffer empty.
THEOREM NoStageOverruns == Spec => []StagesInBounds
  <1>1. TypeOK /\ StreamInv => StagesInBounds
    <2> SUFFICES ASSUME TypeOK, StreamInv, NEW e \in Ends
                 PROVE  /\ recv[e].modelBytes < ModelSize
                        /\ recv[e].requestedBytes > 0 =>
                             recv[e].payloadBytes <= recv[e].requestedBytes
                        /\ send[e].requestedBytes > 0 =>
                             \/ send[e].payloadBytes + Pending(e) <= send[e].requestedBytes
                             \/ send[e].state # "PAYLOAD"
                        /\ send[e].state \in {"FLUSH", "SUCCESS"} /\ error[e] = "NONE" =>
                             Pending(e) = 0
      BY DEF StagesInBounds
    <2>1. ReadsInBounds(e) /\ WritesInBounds(e)
      BY DEF StreamInv, EndsInOrder, EndInv
    <2> QED
      BY <2>1 DEF ReadsInBounds, WritesInBounds
  <1> QED
    BY <1>1, TypeCorrect, InvariantHolds, PTL

\* A client that reports a success was accepted by the server, unless it asked for
\* nothing and its model announces nothing.
THEOREM SuccessWasAccepted == Spec => []SuccessIsAccepted
  <1>1. StreamInv => SuccessIsAccepted
    <2> SUFFICES ASSUME StreamInv, note["client"] = "success",
                        Sized(recv["client"]) \/ ToOrigin > 0
                 PROVE  Accepted
      BY DEF SuccessIsAccepted, Accepted
    <2>1. recv["client"].state = "SUCCESS"
      BY DEF StreamInv, EndsInOrder, EndInv, DestroyedIsFinal, Ends
    <2>2. AcceptedOrEmpty
      BY <2>1 DEF StreamInv, ClientAccepted
    <2> QED
      BY <2>2, SizeAssumption DEF AcceptedOrEmpty
  <1> QED
    BY <1>1, InvariantHolds, PTL

\* Framing: a token is counted as payload exactly when the peer sent it as payload, for
\* all sizes and however the network and the buffers cut the byte stream.
THEOREM FramingKept == Spec => []Framing
  <1>1. StreamInv => Framing
    BY DEF StreamInv, FramesInOrder, TakenInOrder, Framing
  <1> QED
    BY <1>1, InvariantHolds, PTL

\* Between events a stream holds back at most the start of a line that it waits for: it
\* never waits in epoll for bytes that it has already read.
THEOREM NoInputStranded == Spec => []NoStrandedInput
  <1>1. StreamInv => NoStrandedInput
    <2> SUFFICES ASSUME StreamInv, NEW e \in Ends, Idle(e), Buffered(e) > 0
                 PROVE  /\ recv[e].state \in {"HEADER", "CHECKSUM", "FOOTER"}
                        /\ Newlines(e, got[e]) = {}
      BY DEF NoStrandedInput
    <2>1. TakenInOrder(e)
      BY DEF StreamInv, FramesInOrder
    <2>2. error[e] = "NONE" /\ ~Gone(e) /\ ~InPhase(e, "read")
      BY <2>1, IdleFine
    <2>3. Buffered(e) # 0
      OBVIOUS
    <2> QED
      BY <2>1, <2>2, <2>3 DEF TakenInOrder
  <1> QED
    BY <1>1, InvariantHolds, PTL

=============================================================================
