------------------------ MODULE MirakcConnectProofs ------------------------
(***************************************************************************)
(* Theorems about the HTTP client, for every buffer size and limit, every  *)
(* set of streams a server may send, and every way send and recv cut them. *)
(***************************************************************************)
EXTENDS MirakcConnect, SequenceTheorems, TLAPS

----------------------------------------------------------------------------
(* Sequences in two pieces.                                                *)

\* The first m elements of q, and the rest.
LEMMA Cut ==
  ASSUME NEW S, NEW q \in Seq(S), NEW m \in 0..Len(q)
  PROVE  /\ SubSeq(q, 1, m) \in Seq(S) /\ Len(SubSeq(q, 1, m)) = m
         /\ \A i \in 1..m : SubSeq(q, 1, m)[i] = q[i]
         /\ SubSeq(q, m + 1, Len(q)) \in Seq(S)
         /\ Len(SubSeq(q, m + 1, Len(q))) = Len(q) - m
         /\ \A i \in 1..(Len(q) - m) : SubSeq(q, m + 1, Len(q))[i] = q[m + i]
<1>1. Len(q) \in Nat /\ \A i \in 1..Len(q) : q[i] \in S
  BY ElementOfSeq, LenProperties
<1>2. \A i \in 1..m : q[i] \in S
  BY <1>1
<1>3. \A i \in (m + 1)..Len(q) : q[i] \in S
  BY <1>1
<1>4. /\ SubSeq(q, 1, m) \in Seq(S)
      /\ Len(SubSeq(q, 1, m)) = IF 1 <= m THEN m - 1 + 1 ELSE 0
      /\ \A i \in 1..(m - 1 + 1) : SubSeq(q, 1, m)[i] = q[1 + i - 1]
  BY <1>1, <1>2, SubSeqProperties
<1>5. /\ SubSeq(q, m + 1, Len(q)) \in Seq(S)
      /\ Len(SubSeq(q, m + 1, Len(q))) =
           IF m + 1 <= Len(q) THEN Len(q) - (m + 1) + 1 ELSE 0
      /\ \A i \in 1..(Len(q) - (m + 1) + 1) :
           SubSeq(q, m + 1, Len(q))[i] = q[(m + 1) + i - 1]
  BY <1>1, <1>3, SubSeqProperties
<1>6. \A i \in 1..m : SubSeq(q, 1, m)[i] = q[i]
  <2> SUFFICES ASSUME NEW i \in 1..m PROVE SubSeq(q, 1, m)[i] = q[i]
    OBVIOUS
  <2>1. i \in 1..(m - 1 + 1) /\ 1 + i - 1 = i
    BY <1>1
  <2>2. QED
    BY <1>4, <2>1
<1>7. \A i \in 1..(Len(q) - m) : SubSeq(q, m + 1, Len(q))[i] = q[m + i]
  <2> SUFFICES ASSUME NEW i \in 1..(Len(q) - m)
               PROVE  SubSeq(q, m + 1, Len(q))[i] = q[m + i]
    OBVIOUS
  <2>1. i \in 1..(Len(q) - (m + 1) + 1) /\ (m + 1) + i - 1 = m + i
    BY <1>1
  <2>2. QED
    BY <1>5, <2>1
<1>8. QED
  BY <1>1, <1>4, <1>5, <1>6, <1>7

\* A piece of q, when r holds the elements of q from position p on.
LEMMA Piece ==
  ASSUME NEW S, NEW q \in Seq(S), NEW r \in Seq(S), NEW p \in Nat,
         p + Len(r) <= Len(q), \A i \in 1..Len(r) : r[i] = q[p + i]
  PROVE  r = SubSeq(q, p + 1, p + Len(r))
<1>1. /\ Len(q) \in Nat /\ Len(r) \in Nat
      /\ \A i \in 1..Len(q) : q[i] \in S
  BY ElementOfSeq, LenProperties
<1> DEFINE t == SubSeq(q, p + 1, p + Len(r))
<1>2. \A i \in (p + 1)..(p + Len(r)) : q[i] \in S
  BY <1>1
<1>3. /\ t \in Seq(S)
      /\ Len(t) = IF p + 1 <= p + Len(r) THEN p + Len(r) - (p + 1) + 1 ELSE 0
      /\ \A i \in 1..(p + Len(r) - (p + 1) + 1) : t[i] = q[(p + 1) + i - 1]
  BY <1>1, <1>2, SubSeqProperties
<1>4. Len(t) = Len(r)
  BY <1>1, <1>3
<1>5. \A i \in 1..Len(r) : t[i] = r[i]
  <2> SUFFICES ASSUME NEW i \in 1..Len(r) PROVE t[i] = r[i]
    OBVIOUS
  <2>1. i \in 1..(p + Len(r) - (p + 1) + 1) /\ (p + 1) + i - 1 = p + i
    BY <1>1
  <2>2. QED
    BY <1>3, <2>1
<1>6. QED
  BY <1>3, <1>4, <1>5, SeqEqual
----------------------------------------------------------------------------
(* What each place of a call implies.                                      *)

\* Nothing of an answer is left outside the places that read one.
AnswerShape ==
  /\ pc \in {"idle", "connect", "send"} => sent = << >> /\ wire = << >>
  /\ pc # "header" => acc = << >>
  /\ pc \notin {"opened", "stream"} => buf = << >>
  /\ pc \in {"connect", "send", "header", "opened"} => data = << >>
  /\ pc \in {"connect", "send", "header"} => responceCode = NoCode

\* Who has a descriptor, what was set on it, and which call is where.
CallShape ==
  /\ pc \in {"send", "header", "collect", "opened", "stream"} => s # NoFd
  /\ fd # NoFd => pc = "connect" /\ addrs > 0
  /\ pc = "connect" => s = NoFd /\ nSent = 0
  /\ pc \in Waiting => rc = "none" /\ ~shut
  /\ pc \in {"send", "header"} => call # "connect"
  /\ pc \in {"opened", "stream"} => call = "header" /\ rc = "ok" /\ ~timeo
  /\ pc = "collect" => call = "body"
  /\ pc \in {"send", "header", "collect"} => timeo

\* At most one recv's bytes, less the last of the header, follow a header.
HeaderBound ==
  /\ \A q \in 2..Len(acc) : EmptyLine(acc, q) => Len(acc) - q < BUF
  /\ LeftoverFits
  /\ MemoryBounded

ClientInv ==
  /\ TypeOK
  /\ AnswerShape /\ CallShape
  /\ DescriptorsOwned /\ RequestIntact /\ HeaderBound

\* The empty sequence is a sequence of whatever is needed.
LEMMA Empties == << >> \in Seq(Tokens) /\ << >> \in Seq(1..REQUEST) /\ Len(<< >>) = 0
BY EmptySeq

\* It holds initially.
LEMMA ClientInit == Init => ClientInv
<1> SUFFICES ASSUME Init PROVE ClientInv
  OBVIOUS
<1>1. TypeOK
  <2>1. << >> \in Seq(Tokens) /\ << >> \in Seq(1..REQUEST)
    BY Empties
  <2>2. 0 \in 0..MaxAddrs /\ 0 \in 0..REQUEST
    BY Sizes
  <2>3. /\ sent \in Seq(Tokens) /\ wire \in Seq(Tokens) /\ acc \in Seq(Tokens)
        /\ buf \in Seq(Tokens) /\ data \in Seq(Tokens) /\ asked \in Seq(1..REQUEST)
    BY <2>1 DEF Init
  <2>4. QED
    BY <2>2, <2>3 DEF Init, TypeOK
<1>2. AnswerShape /\ CallShape
  BY DEF Init, AnswerShape, CallShape, Waiting
<1>3. DescriptorsOwned /\ RequestIntact
  BY DEF Init, DescriptorsOwned, RequestIntact
<1>4. HeaderBound
  BY Sizes DEF Init, HeaderBound, LeftoverFits, MemoryBounded
<1>5. QED
  BY <1>1, <1>2, <1>3, <1>4 DEF ClientInv

\* A failing call, with whatever it did to responceCode.
LEMMA FailStep ==
  ASSUME ClientInv, pc \in Waiting, fd = NoFd, NEW r \in {"connect", "send", "malformed",
                   "large", "closed", "timeout", "reset", "limit"},
         Fail(r), responceCode' \in Finals \cup {NoCode}
  PROVE  ClientInv'
<1> USE DEF ClientInv
<1>1. TypeOK'
  BY Empties DEF Fail, Close, TypeOK, descriptors, request, Waiting
<1>2. AnswerShape'
  BY DEF Fail, Close, AnswerShape, Waiting
<1>3. CallShape'
  BY DEF Fail, TypeOK, Close, CallShape, descriptors, request, Waiting
<1>4. DescriptorsOwned'
  BY DEF Fail, Close, DescriptorsOwned, descriptors
<1>5. RequestIntact'
  BY DEF Fail, RequestIntact, request
<1>6. HeaderBound'
  BY Sizes DEF Fail, Close, HeaderBound, LeftoverFits, MemoryBounded, AnswerShape,
     Waiting
<1>7. QED
  BY <1>1, <1>2, <1>3, <1>4, <1>5, <1>6


----------------------------------------------------------------------------
(* Every step keeps ClientInv: connecting and sending.                     *)

\* A call starts: what was open is closed, and nothing of the last answer is left.
LEMMA ConnectCall ==
  ASSUME ClientInv, NEW kind \in {"connect", "header", "body"}, connect(kind)
  PROVE  ClientInv'
<1> USE DEF ClientInv
<1>1. TypeOK'
  <2>1. nSent' \in 0..REQUEST
    BY Sizes DEF connect
  <2>2. asked' \in Seq(1..REQUEST) /\ buf' \in Seq(Tokens) /\ data' \in Seq(Tokens)
    BY Empties DEF connect
  <2>3. QED
    BY <2>1, <2>2 DEF connect, TypeOK, Waiting
<1>2. AnswerShape'
  BY DEF connect, AnswerShape, descriptors, request, answer, Waiting
<1>3. CallShape'
  BY Names, Sizes DEF connect, CallShape, TypeOK, descriptors, request, answer, Waiting
<1>4. DescriptorsOwned'
  BY Names DEF connect, DescriptorsOwned, CallShape, TypeOK, descriptors
<1>5. RequestIntact'
  BY DEF connect, RequestIntact, CallShape, request, Waiting
<1>6. HeaderBound'
  BY Sizes DEF connect, HeaderBound, LeftoverFits, MemoryBounded, AnswerShape,
     CallShape, TypeOK, descriptors, request, answer, Waiting
<1>7. QED
  BY <1>1, <1>2, <1>3, <1>4, <1>5, <1>6

\* socket() gives a descriptor nobody has, or fails.
LEMMA SocketStep ==
  ASSUME ClientInv, connect_Socket
  PROVE  ClientInv'
<1> USE DEF ClientInv
<1>1. TypeOK'
  BY Empties, Sizes DEF connect_Socket, TypeOK, CallShape, descriptors, request, answer, Waiting
<1>2. AnswerShape'
  BY DEF connect_Socket, AnswerShape, descriptors, request, answer, Waiting
<1>3. CallShape'
  BY Names, Sizes DEF connect_Socket, CallShape, TypeOK, descriptors, request, answer, Waiting
<1>4. DescriptorsOwned'
  BY Names DEF connect_Socket, DescriptorsOwned, CallShape, TypeOK, descriptors
<1>5. RequestIntact'
  BY DEF connect_Socket, RequestIntact, CallShape, request, Waiting
<1>6. HeaderBound'
  BY Sizes DEF connect_Socket, HeaderBound, LeftoverFits, MemoryBounded, AnswerShape,
     CallShape, TypeOK, descriptors, request, answer, Waiting
<1>7. QED
  BY <1>1, <1>2, <1>3, <1>4, <1>5, <1>6

\* A failed attempt closes its descriptor.
LEMMA RefusedStep ==
  ASSUME ClientInv, connect_Refused
  PROVE  ClientInv'
<1> USE DEF ClientInv
<1>1. TypeOK'
  BY Empties, Sizes DEF connect_Refused, TypeOK, CallShape, descriptors, request, answer, Waiting
<1>2. AnswerShape'
  BY DEF connect_Refused, AnswerShape, descriptors, request, answer, Waiting
<1>3. CallShape'
  BY Names, Sizes DEF connect_Refused, CallShape, TypeOK, descriptors, request, answer, Waiting
<1>4. DescriptorsOwned'
  BY Names DEF connect_Refused, DescriptorsOwned, CallShape, TypeOK, descriptors
<1>5. RequestIntact'
  BY DEF connect_Refused, RequestIntact, CallShape, request, Waiting
<1>6. HeaderBound'
  BY Sizes DEF connect_Refused, HeaderBound, LeftoverFits, MemoryBounded, AnswerShape,
     CallShape, TypeOK, descriptors, request, answer, Waiting
<1>7. QED
  BY <1>1, <1>2, <1>3, <1>4, <1>5, <1>6

\* A successful attempt's descriptor becomes the connection's.
LEMMA DoneStep ==
  ASSUME ClientInv, connect_Done
  PROVE  ClientInv'
<1> USE DEF ClientInv
<1>1. TypeOK'
  BY Empties, Sizes DEF connect_Done, TypeOK, CallShape, descriptors, request, answer, Waiting
<1>2. AnswerShape'
  BY DEF connect_Done, AnswerShape, descriptors, request, answer, Waiting
<1>3. CallShape'
  BY Names, Sizes DEF connect_Done, CallShape, TypeOK, descriptors, request, answer, Waiting
<1>4. DescriptorsOwned'
  BY Names DEF connect_Done, DescriptorsOwned, CallShape, TypeOK, descriptors
<1>5. RequestIntact'
  BY DEF connect_Done, RequestIntact, CallShape, request, Waiting
<1>6. HeaderBound'
  BY Sizes DEF connect_Done, HeaderBound, LeftoverFits, MemoryBounded, AnswerShape,
     CallShape, TypeOK, descriptors, request, answer, Waiting
<1>7. QED
  BY <1>1, <1>2, <1>3, <1>4, <1>5, <1>6

\* disconnect() closes the one descriptor there is.
LEMMA DisconnectStep ==
  ASSUME ClientInv, disconnect
  PROVE  ClientInv'
<1> USE DEF ClientInv
<1>1. TypeOK'
  BY Empties, Sizes DEF disconnect, Close, TypeOK, CallShape, descriptors, request, answer, Waiting
<1>2. AnswerShape'
  BY DEF disconnect, Close, AnswerShape, descriptors, request, answer, Waiting
<1>3. CallShape'
  BY Names, Sizes DEF disconnect, Close, CallShape, TypeOK, descriptors, request, answer, Waiting
<1>4. DescriptorsOwned'
  BY Names DEF disconnect, Close, DescriptorsOwned, CallShape, TypeOK, descriptors
<1>5. RequestIntact'
  BY DEF disconnect, Close, RequestIntact, CallShape, request, Waiting
<1>6. HeaderBound'
  BY Sizes DEF disconnect, Close, HeaderBound, LeftoverFits, MemoryBounded, AnswerShape,
     CallShape, TypeOK, descriptors, request, answer, Waiting
<1>7. QED
  BY <1>1, <1>2, <1>3, <1>4, <1>5, <1>6

\* No address is left to try.
LEMMA NoMoreStep == ASSUME ClientInv, connect_NoMore PROVE ClientInv'
BY FailStep DEF connect_NoMore, Waiting, ClientInv, TypeOK

\* send() took some more of the request.
LEMMA SendStep ==
  ASSUME ClientInv, NEW n \in 1..REQUEST, send(n)
  PROVE  ClientInv'
<1> USE DEF ClientInv
<1> DEFINE more == [i \in 1..n |-> nSent + i]
<1>1. /\ nSent \in Nat /\ nSent + n <= REQUEST /\ n \in Nat
      /\ asked \in Seq(1..REQUEST)
  BY Sizes DEF send, TypeOK
<1>2. \A i \in 1..n : nSent + i \in 1..REQUEST
  BY <1>1, Sizes
<1>3. more \in Seq(1..REQUEST) /\ Len(more) = n
  BY <1>1, <1>2
<1>4. /\ asked' \in Seq(1..REQUEST) /\ Len(asked') = nSent + n
      /\ \A i \in 1..(nSent + n) :
           asked'[i] = IF i <= nSent THEN asked[i] ELSE more[i - nSent]
  <2>1. Len(asked) = nSent /\ asked' = asked \o more
    BY DEF RequestIntact, send
  <2>2. /\ asked \o more \in Seq(1..REQUEST)
        /\ Len(asked \o more) = Len(asked) + Len(more)
        /\ \A i \in 1..(Len(asked) + Len(more)) : (asked \o more)[i] =
             IF i <= Len(asked) THEN asked[i] ELSE more[i - Len(asked)]
    BY <1>1, <1>3, ConcatProperties
  <2> HIDE DEF more
  <2>3. QED
    BY <1>3, <2>1, <2>2
<1>5. \A i \in 1..(nSent + n) : asked'[i] = i
  <2> SUFFICES ASSUME NEW i \in 1..(nSent + n) PROVE asked'[i] = i
    OBVIOUS
  <2>1. CASE i <= nSent
    <3>1. i \in 1..nSent
      BY <1>1, <2>1
    <3>2. QED
      BY <1>4, <2>1, <3>1 DEF RequestIntact
  <2>2. CASE ~(i <= nSent)
    <3>1. i - nSent \in 1..n /\ nSent + (i - nSent) = i
      BY <1>1, <2>2
    <3>2. QED
      BY <1>4, <2>2, <3>1
  <2>3. QED
    BY <2>1, <2>2
<1>6. TypeOK'
  <2>1. nSent' \in 0..REQUEST
    BY <1>1, Sizes DEF send
  <2>2. QED
    BY <1>4, <2>1 DEF send, TypeOK, descriptors, answer
<1>7. AnswerShape' /\ CallShape'
  BY DEF send, AnswerShape, CallShape, descriptors, answer, Waiting
<1>8. DescriptorsOwned'
  BY DEF send, DescriptorsOwned, descriptors
<1>9. RequestIntact'
  BY <1>4, <1>5 DEF send, RequestIntact
<1>10. HeaderBound'
  BY DEF send, HeaderBound, LeftoverFits, MemoryBounded, descriptors, answer
<1>11. QED
  BY <1>6, <1>7, <1>8, <1>9, <1>10

\* send() failed or gave up.
LEMMA SendErrorStep == ASSUME ClientInv, send_Error PROVE ClientInv'
BY FailStep DEF send_Error, Waiting, ClientInv, TypeOK, CallShape

\* The whole request is out, and the server has an answer.
LEMMA SentStep == ASSUME ClientInv, send_Done PROVE ClientInv'
<1> USE DEF ClientInv
<1>1. TypeOK'
  BY Names DEF send_Done, TypeOK, descriptors, request, Waiting
<1>2. AnswerShape' /\ CallShape'
  BY DEF send_Done, AnswerShape, CallShape, descriptors, request, Waiting
<1>3. DescriptorsOwned' /\ RequestIntact'
  BY DEF send_Done, DescriptorsOwned, RequestIntact, descriptors, request
<1>4. HeaderBound'
  BY DEF send_Done, HeaderBound, LeftoverFits, MemoryBounded, descriptors
<1>5. QED
  BY <1>1, <1>2, <1>3, <1>4

----------------------------------------------------------------------------
(* Every step keeps ClientInv: the answer.                                 *)

\* What is received is taken from the front of the wire.
LEMMA ReceivedPart ==
  ASSUME TypeOK, NEW n \in 1..Len(wire), NEW max, recv(n, max)
  PROVE  /\ Received(n) \in Seq(Tokens) /\ Len(Received(n)) = n
         /\ \A i \in 1..n : Received(n)[i] = wire[i]
         /\ wire' \in Seq(Tokens) /\ Len(wire') = Len(wire) - n
         /\ \A i \in 1..(Len(wire) - n) : wire'[i] = wire[n + i]
<1>1. wire \in Seq(Tokens) /\ n \in 0..Len(wire)
  BY DEF TypeOK
<1>2. QED
  BY <1>1, Cut DEF recv, Received

\* Received bytes are appended to what there is.
LEMMA AppendPart ==
  ASSUME TypeOK, NEW n \in 1..Len(wire), NEW max, recv(n, max),
         NEW have \in Seq(Tokens)
  PROVE  /\ have \o Received(n) \in Seq(Tokens)
         /\ Len(have \o Received(n)) = Len(have) + n
         /\ \A i \in 1..Len(have) : (have \o Received(n))[i] = have[i]
         /\ \A i \in 1..n : (have \o Received(n))[Len(have) + i] = wire[i]
<1>1. /\ Received(n) \in Seq(Tokens) /\ Len(Received(n)) = n
      /\ \A i \in 1..n : Received(n)[i] = wire[i]
  BY ReceivedPart
<1>2. Len(have) \in Nat /\ Len(wire) \in Nat
  BY LenProperties DEF TypeOK
<1>3. /\ have \o Received(n) \in Seq(Tokens)
      /\ Len(have \o Received(n)) = Len(have) + Len(Received(n))
      /\ \A i \in 1..(Len(have) + Len(Received(n))) : (have \o Received(n))[i] =
           IF i <= Len(have) THEN have[i] ELSE Received(n)[i - Len(have)]
  BY <1>1, ConcatProperties
<1>4. /\ have \o Received(n) \in Seq(Tokens)
      /\ Len(have \o Received(n)) = Len(have) + n
      /\ \A i \in 1..(Len(have) + n) : (have \o Received(n))[i] =
           IF i <= Len(have) THEN have[i] ELSE Received(n)[i - Len(have)]
  BY <1>1, <1>3
<1>5. \A i \in 1..Len(have) : (have \o Received(n))[i] = have[i]
  BY <1>2, <1>4
<1>6. \A i \in 1..n : (have \o Received(n))[Len(have) + i] = wire[i]
  <2> SUFFICES ASSUME NEW i \in 1..n
               PROVE  (have \o Received(n))[Len(have) + i] = wire[i]
    OBVIOUS
  <2>1. /\ Len(have) + i \in 1..(Len(have) + n) /\ ~(Len(have) + i <= Len(have))
        /\ (Len(have) + i) - Len(have) = i
    BY <1>2
  <2>2. QED
    BY <1>1, <1>4, <2>1
<1>7. QED
  BY <1>4, <1>5, <1>6

\* A further piece of the header: any empty line it completes ends within it.
LEMMA HeaderRecvStep ==
  ASSUME ClientInv, NEW n \in 1..Len(wire), header_Recv(n)
  PROVE  ClientInv'
<1> USE DEF ClientInv
<1>1. /\ acc' \in Seq(Tokens) /\ Len(acc') = Len(acc) + n
      /\ \A i \in 1..Len(acc) : acc'[i] = acc[i]
  <2>1. acc \in Seq(Tokens) /\ recv(n, BUF) /\ acc' = acc \o Received(n)
    BY DEF header_Recv, TypeOK
  <2>2. QED
    BY <2>1, AppendPart
<1>2. wire' \in Seq(Tokens)
  BY ReceivedPart DEF header_Recv
<1>3. /\ n <= BUF /\ Len(acc) <= HEADER_MAX
      /\ n \in Nat /\ Len(acc) \in Nat /\ Len(wire) \in Nat
  BY Sizes, LenProperties DEF header_Recv, header_TooLarge, recv, TypeOK
<1>4. TypeOK'
  BY <1>1, <1>2 DEF header_Recv, TypeOK, descriptors, request
<1>5. AnswerShape' /\ CallShape'
  BY DEF header_Recv, AnswerShape, CallShape, descriptors, request, Waiting
<1>6. DescriptorsOwned' /\ RequestIntact'
  BY DEF header_Recv, DescriptorsOwned, RequestIntact, descriptors, request
<1>7. \A q \in 2..Len(acc') : EmptyLine(acc', q) => Len(acc') - q < BUF
  <2> SUFFICES ASSUME NEW q \in 2..Len(acc'), EmptyLine(acc', q)
               PROVE  Len(acc') - q < BUF
    OBVIOUS
  <2>1. CASE q <= Len(acc)
    <3>1. q \in 2..Len(acc) /\ q - 1 \in 1..Len(acc) /\ q \in 1..Len(acc)
      BY <1>1, <1>3, <2>1
    <3>2. EmptyLine(acc, q)
      BY <1>1, <3>1 DEF EmptyLine
    <3>3. QED
      BY <3>1, <3>2 DEF header_Recv, NoHeader
  <2>2. CASE ~(q <= Len(acc))
    BY <1>1, <1>3, <2>2, Sizes
  <2>3. QED
    BY <2>1, <2>2
<1>8. HeaderBound'
  <2>1. Len(acc') <= HEADER_MAX + BUF
    BY <1>1, <1>3, Sizes
  <2>2. LeftoverFits' /\ MemoryBounded'
    BY <2>1 DEF HeaderBound, LeftoverFits, MemoryBounded, header_Recv
  <2>3. QED
    BY <1>7, <2>2 DEF HeaderBound
<1>9. QED
  BY <1>4, <1>5, <1>6, <1>8

\* What is left of acc after its first q tokens.
LEMMA RestOfHeader ==
  ASSUME ClientInv, NEW q \in 1..Len(acc), HeaderEnd(acc, 0, q)
  PROVE  LET rest == SubSeq(acc, q + 1, Len(acc)) IN
         /\ rest \in Seq(Tokens) /\ Len(rest) = Len(acc) - q /\ Len(rest) < BUF
         /\ \A i \in 1..(Len(acc) - q) : rest[i] = acc[q + i]
<1>1. acc \in Seq(Tokens) /\ q \in 0..Len(acc) /\ Len(acc) \in Nat /\ q \in 2..Len(acc)
  BY LenProperties DEF ClientInv, TypeOK, HeaderEnd
<1>2. Len(acc) - q < BUF
  BY <1>1 DEF ClientInv, HeaderBound, HeaderEnd
<1>3. QED
  BY <1>1, <1>2, Cut

\* An interim response is erased; what is left is still the end of a recv.
LEMMA InterimStep ==
  ASSUME ClientInv, NEW q \in 1..Len(acc), header_Interim(q)
  PROVE  ClientInv'
<1> USE DEF ClientInv
<1>1. /\ acc' \in Seq(Tokens) /\ Len(acc') = Len(acc) - q
      /\ \A i \in 1..(Len(acc) - q) : acc'[i] = acc[q + i]
  BY RestOfHeader DEF header_Interim
<1>2. Len(acc) \in Nat /\ q \in Nat /\ q <= Len(acc) /\ q > 0
  BY LenProperties DEF TypeOK
<1>3. TypeOK'
  BY <1>1 DEF header_Interim, TypeOK, descriptors, request
<1>4. AnswerShape' /\ CallShape'
  BY DEF header_Interim, AnswerShape, CallShape, descriptors, request, Waiting
<1>5. DescriptorsOwned' /\ RequestIntact'
  BY DEF header_Interim, DescriptorsOwned, RequestIntact, descriptors, request
<1>6. \A p \in 2..Len(acc') : EmptyLine(acc', p) => Len(acc') - p < BUF
  <2> SUFFICES ASSUME NEW p \in 2..Len(acc'), EmptyLine(acc', p)
               PROVE  Len(acc') - p < BUF
    OBVIOUS
  <2>1. /\ p - 1 \in 1..(Len(acc) - q) /\ p \in 1..(Len(acc) - q)
        /\ q + p \in 2..Len(acc) /\ q + (p - 1) = (q + p) - 1
    BY <1>1, <1>2
  <2>2. acc[(q + p) - 1] = Eol /\ acc[q + p] = Eol
    BY <1>1, <2>1 DEF EmptyLine
  <2>3. Len(acc) - (q + p) < BUF
    BY <2>1, <2>2 DEF HeaderBound, EmptyLine
  <2>4. QED
    BY <1>1, <1>2, <2>1, <2>3
<1>7. HeaderBound'
  <2>1. Len(acc') <= HEADER_MAX + BUF
    BY <1>1, <1>2, Sizes DEF HeaderBound, MemoryBounded
  <2>2. LeftoverFits' /\ MemoryBounded'
    BY <2>1 DEF HeaderBound, LeftoverFits, MemoryBounded, header_Interim
  <2>3. QED
    BY <1>6, <2>2 DEF HeaderBound
<1>8. QED
  BY <1>3, <1>4, <1>5, <1>7

\* A malformed status line ends the call.
LEMMA MalformedStep ==
  ASSUME ClientInv, NEW q \in 1..Len(acc), header_Malformed(q)
  PROVE  ClientInv'
BY FailStep DEF header_Malformed, Waiting, ClientInv, TypeOK, CallShape

\* The answer's own header: line 334's test is false.
LEMMA FinalStep ==
  ASSUME ClientInv, NEW q \in 1..Len(acc), header_Final(q)
  PROVE  ClientInv'
<1> USE DEF ClientInv
<1> DEFINE rest == SubSeq(acc, q + 1, Len(acc))
<1>1. rest \in Seq(Tokens) /\ Len(rest) = Len(acc) - q /\ Len(rest) < BUF
  BY RestOfHeader DEF header_Final
<1>2. /\ responceCode' = acc[1] /\ acc[1] \in Finals /\ acc' = << >>
      /\ IF call = "body"
         THEN pc' = "collect" /\ data' = rest /\ UNCHANGED <<buf, rc, timeo>>
         ELSE pc' = "opened" /\ buf' = rest /\ rc' = "ok" /\ timeo' = FALSE
              /\ UNCHANGED data
      /\ UNCHANGED <<call, addrs, fd, s, open, shut, nSent, asked, sent, closes, wire>>
      /\ pc = "header"
  <2>1. ~(Len(acc) - q > BUF)
    BY <1>1, Sizes, LenProperties DEF TypeOK
  <2>2. QED
    BY <2>1 DEF header_Final, descriptors, request
<1> HIDE DEF rest
<1>3. TypeOK'
  BY <1>1, <1>2, Empties DEF TypeOK, Waiting
<1>4. AnswerShape' /\ CallShape'
  BY <1>2 DEF AnswerShape, CallShape, TypeOK, Waiting
<1>5. DescriptorsOwned' /\ RequestIntact'
  BY <1>2 DEF DescriptorsOwned, RequestIntact
<1>6. HeaderBound'
  <2>1. Len(acc') = 0 /\ Len(rest) \in Nat
    BY <1>1, <1>2, Empties, LenProperties
  <2>2. MemoryBounded'
    BY <1>1, <1>2, <2>1, Sizes DEF MemoryBounded
  <2>3. LeftoverFits'
    BY <1>1, <1>2 DEF HeaderBound, LeftoverFits
  <2>4. QED
    BY <2>1, <2>2, <2>3 DEF HeaderBound
<1>7. QED
  BY <1>3, <1>4, <1>5, <1>6

\* recvHeader gives up.
LEMMA HeaderErrorStep ==
  ASSUME ClientInv, NEW r \in {"large", "closed", "timeout", "reset"}, header_Error(r)
  PROVE  ClientInv'
BY FailStep DEF header_Error, header_TooLarge, Waiting, ClientInv, TypeOK, CallShape

\* A piece of the body in sendGetRequest_WaitBody.
LEMMA CollectStep ==
  ASSUME ClientInv, NEW n \in 1..Len(wire), collect_Recv(n)
  PROVE  ClientInv'
<1> USE DEF ClientInv
<1>1. data' \in Seq(Tokens) /\ Len(data') = Len(data) + n
  <2>1. data \in Seq(Tokens) /\ recv(n, BUF) /\ data' = data \o Received(n)
    BY DEF collect_Recv, TypeOK
  <2>2. QED
    BY <2>1, AppendPart
<1>2. wire' \in Seq(Tokens)
  BY ReceivedPart DEF collect_Recv
<1>3. n <= BUF /\ Len(data) <= BODY_MAX /\ n \in Nat /\ Len(data) \in Nat
  BY Sizes, LenProperties DEF collect_Recv, collect_Limit, recv, TypeOK
<1>4. TypeOK'
  BY <1>1, <1>2 DEF collect_Recv, TypeOK, descriptors, request
<1>5. AnswerShape' /\ CallShape'
  BY DEF collect_Recv, collect_Limit, AnswerShape, CallShape, descriptors, request,
         Waiting
<1>6. DescriptorsOwned' /\ RequestIntact'
  BY DEF collect_Recv, DescriptorsOwned, RequestIntact, descriptors, request
<1>7. HeaderBound'
  <2>1. Len(data') <= BODY_MAX + BUF
    BY <1>1, <1>3, Sizes
  <2>2. QED
    BY <2>1 DEF HeaderBound, LeftoverFits, MemoryBounded, collect_Recv
<1>8. QED
  BY <1>4, <1>5, <1>6, <1>7

\* The server closed: what was collected is the body, and within its limit.
LEMMA CollectEndStep == ASSUME ClientInv, collect_End PROVE ClientInv'
<1> USE DEF ClientInv
<1>1. TypeOK'
  BY Empties DEF collect_End, Close, TypeOK, request, Waiting
<1>2. AnswerShape' /\ CallShape'
  BY DEF collect_End, collect_Limit, Close, AnswerShape, CallShape, request, Waiting
<1>3. DescriptorsOwned' /\ RequestIntact'
  BY DEF collect_End, Close, DescriptorsOwned, RequestIntact, CallShape, request, TypeOK
<1>4. HeaderBound'
  <2>1. Len(data) <= BODY_MAX /\ Len(data) \in Nat
    BY Sizes, LenProperties DEF collect_End, collect_Limit, TypeOK
  <2>2. QED
    BY <2>1, Empties, Sizes
       DEF collect_End, collect_Limit, Close, HeaderBound, LeftoverFits, MemoryBounded
<1>5. QED
  BY <1>1, <1>2, <1>3, <1>4

\* The body is too long, or recv failed.
LEMMA CollectErrorStep ==
  ASSUME ClientInv, NEW r \in {"limit", "timeout", "reset"}, collect_Error(r)
  PROVE  ClientInv'
BY FailStep DEF collect_Error, collect_Limit, Waiting, ClientInv, TypeOK, CallShape

----------------------------------------------------------------------------
(* Every step keeps ClientInv: the stream.                                 *)

\* The receive thread starts.
LEMMA StartStep == ASSUME ClientInv, RecvThread_Start PROVE ClientInv'
<1> USE DEF ClientInv
<1>1. TypeOK'
  BY DEF RecvThread_Start, TypeOK, descriptors, request, answer
<1>2. AnswerShape' /\ CallShape'
  BY DEF RecvThread_Start, AnswerShape, CallShape, descriptors, request, answer, Waiting
<1>3. DescriptorsOwned' /\ RequestIntact'
  BY DEF RecvThread_Start, DescriptorsOwned, RequestIntact, descriptors, request
<1>4. HeaderBound'
  BY DEF RecvThread_Start, HeaderBound, LeftoverFits, MemoryBounded, descriptors, answer
<1>5. QED
  BY <1>1, <1>2, <1>3, <1>4

\* recvBody's pieces of what came with the header.
LEMMA LeftoverPieces ==
  ASSUME ClientInv, NEW size \in BodySizes, recvBody_Leftover(size)
  PROVE  \E n \in 1..Len(buf) :
           /\ data' = data \o SubSeq(buf, 1, n)
           /\ buf' = SubSeq(buf, n + 1, Len(buf))
<1> DEFINE n == IF size < Len(buf) THEN size ELSE Len(buf)
<1>1. buf \in Seq(Tokens) /\ buf # << >>
  BY DEF ClientInv, TypeOK, recvBody_Leftover
<1>2. n \in 1..Len(buf)
  BY <1>1, EmptySeq, Sizes
<1>3. QED
  BY <1>2 DEF recvBody_Leftover

\* Bytes that came with the header are handed out.
LEMMA LeftoverStep ==
  ASSUME ClientInv, NEW size \in BodySizes, recvBody_Leftover(size)
  PROVE  ClientInv'
<1> USE DEF ClientInv
<1>1. PICK n \in 1..Len(buf) : /\ data' = data \o SubSeq(buf, 1, n)
                               /\ buf' = SubSeq(buf, n + 1, Len(buf))
  BY LeftoverPieces
<1>2. /\ SubSeq(buf, 1, n) \in Seq(Tokens) /\ buf' \in Seq(Tokens)
      /\ Len(buf') = Len(buf) - n /\ Len(buf) \in Nat /\ n \in Nat
  <2>1. buf \in Seq(Tokens) /\ Len(buf) \in Nat
    BY LenProperties DEF TypeOK
  <2>2. n \in 0..Len(buf)
    BY <2>1
  <2>3. /\ SubSeq(buf, 1, n) \in Seq(Tokens)
        /\ SubSeq(buf, n + 1, Len(buf)) \in Seq(Tokens)
        /\ Len(SubSeq(buf, n + 1, Len(buf))) = Len(buf) - n
    BY <2>1, <2>2, Cut
  <2>4. QED
    BY <1>1, <2>1, <2>2, <2>3
<1>3. data' \in Seq(Tokens)
  BY <1>1, <1>2, ConcatProperties DEF TypeOK
<1>4. TypeOK'
  BY <1>2, <1>3 DEF recvBody_Leftover, TypeOK, descriptors, request
<1>5. AnswerShape' /\ CallShape'
  BY DEF recvBody_Leftover, AnswerShape, CallShape, descriptors, request, Waiting
<1>6. DescriptorsOwned' /\ RequestIntact'
  BY DEF recvBody_Leftover, DescriptorsOwned, RequestIntact, descriptors, request
<1>7. HeaderBound'
  <2>1. Len(buf) < BUF /\ rc # "rest" /\ rc' = rc /\ BUF \in Nat
    BY Sizes DEF HeaderBound, LeftoverFits, recvBody_Leftover
  <2>2. LeftoverFits'
    BY <1>2, <2>1 DEF LeftoverFits
  <2>3. QED
    BY <2>2 DEF HeaderBound, MemoryBounded, recvBody_Leftover
<1>8. QED
  BY <1>4, <1>5, <1>6, <1>7

\* recvBody returns a piece of the stream.
LEMMA DataStep ==
  ASSUME ClientInv, NEW size \in BodySizes, NEW n \in 1..Len(wire),
         recvBody_Data(n, size)
  PROVE  ClientInv'
<1> USE DEF ClientInv
<1>1. data' \in Seq(Tokens)
  <2>1. data \in Seq(Tokens) /\ recv(n, size) /\ data' = data \o Received(n)
    BY DEF recvBody_Data, TypeOK
  <2>2. QED
    BY <2>1, AppendPart
<1>2. wire' \in Seq(Tokens)
  BY ReceivedPart DEF recvBody_Data
<1>3. TypeOK'
  BY <1>1, <1>2 DEF recvBody_Data, TypeOK, descriptors, request
<1>4. AnswerShape' /\ CallShape'
  BY DEF recvBody_Data, AnswerShape, CallShape, descriptors, request, Waiting
<1>5. DescriptorsOwned' /\ RequestIntact'
  BY DEF recvBody_Data, DescriptorsOwned, RequestIntact, descriptors, request
<1>6. HeaderBound'
  BY DEF recvBody_Data, HeaderBound, LeftoverFits, MemoryBounded
<1>7. QED
  BY <1>3, <1>4, <1>5, <1>6

\* The stream ends, and was not ended by its silence.
LEMMA StreamEndStep ==
  ASSUME ClientInv, NEW r \in {"closed", "timeout", "reset"}, recvBody_End(r)
  PROVE  ClientInv' /\ rc' # "timeout"
<1> USE DEF ClientInv
<1>1. r # "timeout"
  BY DEF recvBody_End, recv_Fails, CallShape
<1>2. TypeOK'
  BY Empties DEF recvBody_End, TypeOK, descriptors, request
<1>3. AnswerShape' /\ CallShape'
  BY DEF recvBody_End, AnswerShape, CallShape, descriptors, request, Waiting
<1>4. DescriptorsOwned' /\ RequestIntact'
  BY DEF recvBody_End, DescriptorsOwned, RequestIntact, descriptors, request
<1>5. HeaderBound'
  BY <1>1 DEF recvBody_End, HeaderBound, LeftoverFits, MemoryBounded, CallShape
<1>6. QED
  BY <1>1, <1>2, <1>3, <1>4, <1>5 DEF recvBody_End

\* shutdown() closes nothing.
LEMMA ShutdownStep == ASSUME ClientInv, shutdown PROVE ClientInv'
<1> USE DEF ClientInv
<1>1. TypeOK'
  BY DEF shutdown, TypeOK, descriptors, request, answer
<1>2. AnswerShape' /\ CallShape'
  BY DEF shutdown, AnswerShape, CallShape, descriptors, request, answer, Waiting
<1>3. DescriptorsOwned' /\ RequestIntact'
  BY DEF shutdown, DescriptorsOwned, RequestIntact, descriptors, request
<1>4. HeaderBound'
  BY DEF shutdown, HeaderBound, LeftoverFits, MemoryBounded, answer
<1>5. QED
  BY <1>1, <1>2, <1>3, <1>4

\* A step that changes nothing.
LEMMA StutterStep == ASSUME ClientInv, UNCHANGED connVars PROVE ClientInv'
<1> USE DEF ClientInv, connVars, descriptors, request, answer
<1>1. TypeOK' /\ AnswerShape' /\ CallShape'
  BY DEF TypeOK, AnswerShape, CallShape
<1>2. DescriptorsOwned' /\ RequestIntact' /\ HeaderBound'
  BY DEF DescriptorsOwned, RequestIntact, HeaderBound, LeftoverFits, MemoryBounded
<1>3. QED
  BY <1>1, <1>2

\* The actions, one by one.
LEMMA ClientSteps ==
  ASSUME Next
  PROVE  \/ \E kind \in {"connect", "header", "body"} : connect(kind)
         \/ connect_Socket \/ connect_Refused \/ connect_NoMore \/ connect_Done
         \/ disconnect \/ shutdown \/ RecvThread_Start
         \/ \E n \in 1..REQUEST : send(n)
         \/ send_Error \/ send_Done
         \/ \E q \in 1..Len(acc) :
              header_Interim(q) \/ header_Malformed(q) \/ header_Final(q)
         \/ \E n \in 1..Len(wire) : header_Recv(n) \/ collect_Recv(n)
         \/ \E r \in {"large", "closed", "timeout", "reset"} : header_Error(r)
         \/ \E r \in {"limit", "timeout", "reset"} : collect_Error(r)
         \/ collect_End
         \/ \E size \in BodySizes : recvBody_Leftover(size)
         \/ \E size \in BodySizes, n \in 1..Len(wire) : recvBody_Data(n, size)
         \/ \E r \in {"closed", "timeout", "reset"} : recvBody_End(r)
BY DEF Next, RequestStep, StreamStep

\* No step breaks ClientInv.
LEMMA ClientStep == ClientInv /\ [Next]_connVars => ClientInv'
<1> SUFFICES ASSUME ClientInv, [Next]_connVars PROVE ClientInv'
  OBVIOUS
<1>1. CASE UNCHANGED connVars
  BY <1>1, StutterStep
<1>2. CASE Next
  BY <1>2, ClientSteps, ConnectCall, SocketStep, RefusedStep, NoMoreStep, DoneStep,
     DisconnectStep, ShutdownStep, StartStep, SendStep, SendErrorStep, SentStep,
     InterimStep, MalformedStep, FinalStep, HeaderRecvStep, CollectStep,
     HeaderErrorStep, CollectErrorStep, CollectEndStep, LeftoverStep, DataStep,
     StreamEndStep, Zenon
<1>3. QED
  BY <1>1, <1>2

\* ClientInv holds throughout.
LEMMA ClientInvHolds == Spec => []ClientInv
BY ClientInit, ClientStep, PTL DEF Spec

\* Every field keeps its type, whatever the server sends and however it is cut.
THEOREM ClientTypeCorrect == Spec => []TypeOK
<1>1. ClientInv => TypeOK
  BY DEF ClientInv
<1>2. QED
  BY <1>1, ClientInvHolds, PTL

\* No descriptor leaks and none is closed twice, through any sequence of failed
\* attempts, failed requests and reconnects.
THEOREM NoDescriptorLeaks == Spec => []DescriptorsOwned
<1>1. ClientInv => DescriptorsOwned
  BY DEF ClientInv
<1>2. QED
  BY <1>1, ClientInvHolds, PTL

\* Partial sends lose and repeat nothing of the request.
THEOREM RequestSentOnce == Spec => []RequestIntact
<1>1. ClientInv => RequestIntact
  BY DEF ClientInv
<1>2. QED
  BY <1>1, ClientInvHolds, PTL

\* The bytes after a header always fit into buf, for every size of buf.
THEOREM LeftoverAlwaysFits == Spec => []LeftoverFits
<1>1. ClientInv => LeftoverFits
  BY DEF ClientInv, HeaderBound
<1>2. QED
  BY <1>1, ClientInvHolds, PTL

\* No server makes the client store more than its limits and one recv.
THEOREM MemoryIsBounded == Spec => []MemoryBounded
<1>1. ClientInv => MemoryBounded
  BY DEF ClientInv, HeaderBound
<1>2. QED
  BY <1>1, ClientInvHolds, PTL

\* No stream is ended for being silent.
THEOREM SilenceIsHarmless == Spec => SilenceEndsNoStream
<1>1. ClientInv /\ [Next]_connVars => [pc = "stream" => rc' # "timeout"]_connVars
  <2> SUFFICES ASSUME ClientInv, Next, pc = "stream" PROVE rc' # "timeout"
    OBVIOUS
  <2>1. rc = "ok"
    BY DEF ClientInv, CallShape
  <2>2. ASSUME NEW r \in {"closed", "timeout", "reset"}, recvBody_End(r)
        PROVE  rc' # "timeout"
    BY <2>2, StreamEndStep
  <2>3. CASE \E size \in BodySizes : recvBody_Leftover(size)
    BY <2>1, <2>3 DEF recvBody_Leftover
  <2>4. CASE \E size \in BodySizes, n \in 1..Len(wire) : recvBody_Data(n, size)
    BY <2>1, <2>4 DEF recvBody_Data
  <2>5. CASE shutdown
    BY <2>1, <2>5 DEF shutdown
  <2>6. QED
    BY <2>2, <2>3, <2>4, <2>5, ClientSteps
       DEF connect, connect_Socket, connect_Refused, connect_NoMore, connect_Done,
           disconnect, RecvThread_Start, send, send_Error, send_Done, header_Interim,
           header_Malformed, header_Final, header_Recv, header_Error,
           header_TooLarge, collect_Recv, collect_Limit, collect_End, collect_Error
<1>2. QED
  BY <1>1, ClientInvHolds, PTL DEF Spec, SilenceEndsNoStream

----------------------------------------------------------------------------
(* MirakcConnect implements HttpResponse.                                  *)

\* How much of the answer has been looked at.
At == Len(sent) - Len(acc) - Len(buf) - Len(wire)

\* What is kept of the answer, and what is still to come, are its last bytes.
Placed ==
  /\ At \in Nat
  /\ \A i \in 1..Len(acc)  : acc[i]  = sent[At + i]
  /\ \A i \in 1..Len(buf)  : buf[i]  = sent[At + Len(acc) + i]
  /\ \A i \in 1..Len(wire) : wire[i] = sent[At + Len(acc) + Len(buf) + i]

\* The lengths involved.
LEMMA Lengths ==
  ASSUME TypeOK
  PROVE  /\ Len(sent) \in Nat /\ Len(acc) \in Nat /\ Len(buf) \in Nat
         /\ Len(wire) \in Nat /\ Len(data) \in Nat
         /\ At \in Int
BY LenProperties DEF TypeOK, At

\* Nothing moves.
LEMMA PlacedSame ==
  ASSUME Placed, UNCHANGED <<sent, acc, buf, wire>>
  PROVE  Placed' /\ At' = At
BY DEF Placed, At

\* There is no answer.
LEMMA PlacedEmpty ==
  /\ sent = << >> /\ acc = << >> /\ buf = << >> /\ wire = << >> => Placed /\ At = 0
  /\ sent' = << >> /\ acc' = << >> /\ buf' = << >> /\ wire' = << >>
       => Placed' /\ At' = 0
<1>1. Len(<< >>) = 0
  BY Empties
<1>2. QED
  BY <1>1 DEF Placed, At

\* The variables of HttpResponse, in short.
Phase == IF pc = "header" THEN "header"
         ELSE IF pc \in {"collect", "opened", "stream"} THEN "body" ELSE "idle"
Whole == pc = "idle" /\ call = "body" /\ rc = "ok"
Abstract == <<Phase, sent, At, responceCode, data, Whole>>

\* The steps that the caller of a request does not see.
LEMMA QuietSteps ==
  ASSUME ClientInv, Placed,
         \/ connect_Socket \/ connect_Refused \/ connect_Done \/ shutdown
         \/ RecvThread_Start \/ \E n \in 1..REQUEST : send(n)
         \/ UNCHANGED connVars
  PROVE  Placed' /\ Abstract' = Abstract
<1>1. UNCHANGED <<sent, acc, buf, wire, data, responceCode>>
  BY DEF connect_Socket, connect_Refused, connect_Done, shutdown,
     RecvThread_Start, send, connVars, answer
<1>2. Phase' = Phase /\ Whole' = Whole
  BY DEF connect_Socket, connect_Refused, connect_Done, shutdown,
     RecvThread_Start, send, connVars, Phase, Whole, ClientInv, CallShape
<1>3. QED
  BY <1>1, <1>2, PlacedSame DEF Abstract

\* Failures before there is an answer.
LEMMA EarlyFailures ==
  ASSUME ClientInv, Placed, connect_NoMore \/ send_Error
  PROVE  Placed' /\ Abstract' = Abstract
<1>1. /\ sent = << >> /\ acc = << >> /\ buf = << >> /\ wire = << >> /\ data = << >>
      /\ sent' = << >> /\ acc' = << >> /\ buf' = << >> /\ wire' = << >>
      /\ data' = << >> /\ responceCode' = responceCode
  BY DEF connect_NoMore, send_Error, Fail, Close, ClientInv, AnswerShape
<1>2. Phase' = Phase /\ Whole' = Whole
  BY DEF connect_NoMore, send_Error, Fail, Phase, Whole
<1>3. QED
  BY <1>1, <1>2, PlacedEmpty DEF Abstract

\* A call starts.
LEMMA ForgetStep ==
  ASSUME ClientInv, Placed, NEW kind \in {"connect", "header", "body"}, connect(kind)
  PROVE  Placed' /\ Response!Forget
<1>1. /\ sent = << >> /\ acc = << >> /\ buf = << >> /\ wire = << >>
      /\ sent' = << >> /\ acc' = << >> /\ buf' = << >> /\ wire' = << >>
  BY DEF connect, ClientInv, AnswerShape
<1>2. Placed' /\ At = 0 /\ At' = 0
  BY <1>1, PlacedEmpty
<1>3. QED
  BY <1>1, <1>2 DEF connect, Response!Forget, At

\* The request is out.
LEMMA RequestStepRefines ==
  ASSUME ClientInv, Placed, send_Done
  PROVE  Placed' /\ Response!Request
<1>1. /\ acc' = << >> /\ buf' = << >> /\ wire' = sent' /\ sent' \in Seq(Tokens)
      /\ data = << >> /\ Len(<< >>) = 0
  BY Names, Empties DEF send_Done, ClientInv, AnswerShape
<1>2. Len(sent') \in Nat
  BY <1>1, LenProperties
<1>3. At' = 0
  BY <1>1, <1>2 DEF At
<1>4. Placed'
  BY <1>1, <1>2, <1>3 DEF Placed
<1>5. QED
  BY <1>1, <1>3, <1>4 DEF send_Done, Response!Request, At

\* Whatever ends a call or a stream.
LEMMA StopRefines ==
  ASSUME ClientInv, Placed, pc \in {"header", "collect", "opened", "stream"},
         pc' = "idle", call' = call, responceCode' = responceCode,
         call = "body" => rc' # "ok",
         sent' = << >>, acc' = << >>, buf' = << >>, wire' = << >>,
         data' \in {data, << >>}
  PROVE  Placed' /\ Response!Stop
<1>1. Placed' /\ At' = 0
  BY PlacedEmpty
<1>2. QED
  BY <1>1 DEF Response!Stop, At

\* recvHeader gives up, or the body is given up, or the stream ends.
LEMMA EndSteps ==
  ASSUME ClientInv, Placed,
         \/ \E q \in 1..Len(acc) : header_Malformed(q)
         \/ \E r \in {"large", "closed", "timeout", "reset"} : header_Error(r)
         \/ \E r \in {"limit", "timeout", "reset"} : collect_Error(r)
         \/ \E r \in {"closed", "timeout", "reset"} : recvBody_End(r)
         \/ collect_End /\ rc' # "ok"
  PROVE  Placed' /\ Response!Stop
<1>1. CASE \/ \E q \in 1..Len(acc) : header_Malformed(q)
           \/ \E r \in {"large", "closed", "timeout", "reset"} : header_Error(r)
           \/ \E r \in {"limit", "timeout", "reset"} : collect_Error(r)
  <2>1. PICK r \in {"malformed", "large", "closed", "timeout", "reset", "limit"} :
          Fail(r) /\ UNCHANGED responceCode /\ pc \in {"header", "collect"}
    BY <1>1 DEF header_Malformed, header_Error, header_TooLarge, collect_Error,
       collect_Limit
  <2>2. buf' = << >>
    BY <2>1 DEF Fail, Close, ClientInv, AnswerShape
  <2>3. QED
    BY <2>1, <2>2, StopRefines DEF Fail
<1>2. CASE \E r \in {"closed", "timeout", "reset"} : recvBody_End(r)
  BY <1>2, StopRefines DEF recvBody_End, ClientInv, AnswerShape, CallShape
<1>3. CASE collect_End /\ rc' # "ok"
  BY <1>3, StopRefines DEF collect_End, collect_Limit, Close, ClientInv, AnswerShape
<1>4. QED
  BY <1>1, <1>2, <1>3

\* disconnect(): from "opened" it ends the answer, else it changes nothing.
LEMMA DisconnectRefines ==
  ASSUME ClientInv, Placed, disconnect
  PROVE  Placed' /\ (Response!Stop \/ Abstract' = Abstract)
<1>1. /\ acc' = << >> /\ buf' = << >> /\ sent' = << >> /\ wire' = << >>
      /\ UNCHANGED <<call, data, rc, responceCode>> /\ pc' = "idle"
  BY DEF disconnect, Close, ClientInv, AnswerShape
<1>2. CASE pc = "opened"
  BY <1>1, <1>2, StopRefines DEF ClientInv, CallShape
<1>3. CASE pc = "idle"
  <2>1. sent = << >> /\ acc = << >> /\ buf = << >> /\ wire = << >>
    BY <1>3 DEF ClientInv, AnswerShape
  <2>2. Placed' /\ At' = At
    BY <1>1, <2>1, PlacedEmpty
  <2>3. QED
    BY <1>1, <1>3, <2>1, <2>2 DEF Abstract, Phase, Whole
<1>4. QED
  BY <1>2, <1>3 DEF disconnect

\* A further piece of the header goes from the wire to acc.
LEMMA HeaderRecvRefines ==
  ASSUME ClientInv, Placed, NEW n \in 1..Len(wire), header_Recv(n)
  PROVE  Placed' /\ Abstract' = Abstract
<1>1. /\ Len(sent) \in Nat /\ Len(acc) \in Nat /\ Len(wire) \in Nat /\ Len(buf) = 0
      /\ n \in Nat /\ n <= Len(wire)
  BY Lengths, Empties DEF ClientInv, AnswerShape, header_Recv
<1>2. /\ Len(acc') = Len(acc) + n
      /\ \A i \in 1..Len(acc) : acc'[i] = acc[i]
      /\ \A i \in 1..n : acc'[Len(acc) + i] = wire[i]
  BY AppendPart DEF header_Recv, ClientInv, TypeOK
<1>3. /\ Len(wire') = Len(wire) - n
      /\ \A i \in 1..(Len(wire) - n) : wire'[i] = wire[n + i]
  BY ReceivedPart DEF header_Recv, ClientInv
<1>4. sent' = sent /\ buf' = buf
  BY DEF header_Recv
<1>5. At' = At /\ At \in Nat
  BY <1>1, <1>2, <1>3, <1>4 DEF At, Placed
<1>6. \A i \in 1..Len(acc') : acc'[i] = sent'[At' + i]
  <2> SUFFICES ASSUME NEW i \in 1..Len(acc') PROVE acc'[i] = sent[At + i]
    BY <1>4, <1>5
  <2>1. CASE i <= Len(acc)
    <3>1. i \in 1..Len(acc)
      BY <1>1, <1>2, <2>1
    <3>2. QED
      BY <1>2, <3>1 DEF Placed
  <2>2. CASE ~(i <= Len(acc))
    <3> DEFINE j == i - Len(acc)
    <3>1. /\ j \in 1..n /\ j \in 1..Len(wire) /\ Len(acc) + j = i
          /\ At + Len(acc) + Len(buf) + j = At + i
      BY <1>1, <1>2, <1>5, <2>2
    <3>2. acc'[i] = wire[j] /\ wire[j] = sent[At + Len(acc) + Len(buf) + j]
      BY <1>2, <3>1 DEF Placed
    <3>3. QED
      BY <3>1, <3>2
  <2>3. QED
    BY <2>1, <2>2
<1>7. \A i \in 1..Len(wire') : wire'[i] = sent'[At' + Len(acc') + Len(buf') + i]
  <2> SUFFICES ASSUME NEW i \in 1..Len(wire')
               PROVE  wire'[i] = sent[At + Len(acc') + Len(buf) + i]
    BY <1>4, <1>5
  <2>1. /\ i \in 1..(Len(wire) - n) /\ n + i \in 1..Len(wire)
        /\ At + Len(acc) + Len(buf) + (n + i) = At + Len(acc') + Len(buf) + i
    BY <1>1, <1>2, <1>3, <1>5
  <2>2. wire'[i] = wire[n + i]
    BY <1>3, <2>1
  <2>3. wire[n + i] = sent[At + Len(acc) + Len(buf) + (n + i)]
    BY <2>1 DEF Placed
  <2>4. QED
    BY <2>1, <2>2, <2>3
<1>8. Placed'
  BY <1>1, <1>4, <1>5, <1>6, <1>7 DEF Placed
<1>9. QED
  BY <1>4, <1>5, <1>8 DEF header_Recv, Abstract, Phase, Whole

\* An empty line of acc is one of the answer.
LEMMA HeaderEndPlaced ==
  ASSUME ClientInv, Placed, NEW q \in 1..Len(acc), HeaderEnd(acc, 0, q)
  PROVE  /\ HeaderEnd(sent, At, At + q) /\ sent[At + 1] = acc[1]
         /\ At + q \in 1..Len(sent) /\ Len(sent) \in Nat
<1>1. /\ Len(sent) \in Nat /\ Len(acc) \in Nat /\ Len(wire) \in Nat /\ Len(buf) \in Nat
      /\ At \in Nat /\ At + Len(acc) <= Len(sent)
  BY Lengths DEF ClientInv, Placed, At
<1>2. q \in 2..Len(acc) /\ EmptyLine(acc, q)
      /\ \A r \in 2..(q - 1) : ~EmptyLine(acc, r)
  BY <1>1 DEF HeaderEnd
<1>3. ASSUME NEW r \in (At + 2)..(At + q)
      PROVE  EmptyLine(sent, r) <=> EmptyLine(acc, r - At)
  <2>1. /\ r - At \in 1..Len(acc) /\ (r - At) - 1 \in 1..Len(acc)
        /\ At + (r - At) = r /\ At + ((r - At) - 1) = r - 1
    BY <1>1, <1>2
  <2>2. acc[r - At] = sent[r] /\ acc[(r - At) - 1] = sent[r - 1]
    BY <2>1 DEF Placed
  <2>3. QED
    BY <2>2 DEF EmptyLine
<1>4. At + q \in (At + 2)..Len(sent) /\ EmptyLine(sent, At + q)
  <2>1. At + q \in (At + 2)..(At + q) /\ (At + q) - At = q
    BY <1>1, <1>2
  <2>2. QED
    BY <1>1, <1>2, <1>3, <2>1
<1>5. \A r \in (At + 2)..((At + q) - 1) : ~EmptyLine(sent, r)
  <2> SUFFICES ASSUME NEW r \in (At + 2)..((At + q) - 1) PROVE ~EmptyLine(sent, r)
    OBVIOUS
  <2>1. r \in (At + 2)..(At + q) /\ r - At \in 2..(q - 1)
    BY <1>1, <1>2
  <2>2. QED
    BY <1>2, <1>3, <2>1
<1>6. sent[At + 1] = acc[1]
  BY <1>1, <1>2 DEF Placed
<1>7. QED
  BY <1>1, <1>2, <1>4, <1>5, <1>6 DEF HeaderEnd

\* An interim response is skipped.
LEMMA InterimRefines ==
  ASSUME ClientInv, Placed, NEW q \in 1..Len(acc), header_Interim(q)
  PROVE  Placed' /\ \E p \in 1..Len(sent) : Response!SkipInterim(p)
<1>1. /\ Len(acc') = Len(acc) - q
      /\ \A i \in 1..(Len(acc) - q) : acc'[i] = acc[q + i]
  BY RestOfHeader DEF header_Interim
<1>2. /\ Len(sent) \in Nat /\ Len(acc) \in Nat /\ Len(wire) \in Nat /\ Len(buf) = 0
      /\ At \in Nat /\ q \in Nat /\ q <= Len(acc)
  BY Lengths, Empties DEF ClientInv, AnswerShape, header_Interim, Placed
<1>3. UNCHANGED <<sent, buf, wire, pc, call, rc, data, responceCode>> /\ pc = "header"
  BY DEF header_Interim
<1>4. At' = At + q
  BY <1>1, <1>2, <1>3 DEF At
<1>5. \A i \in 1..Len(acc') : acc'[i] = sent'[At' + i]
  <2> SUFFICES ASSUME NEW i \in 1..Len(acc') PROVE acc'[i] = sent[At' + i]
    BY <1>3
  <2>1. i \in 1..(Len(acc) - q) /\ q + i \in 1..Len(acc) /\ At + (q + i) = At' + i
    BY <1>1, <1>2, <1>4
  <2>2. QED
    BY <1>1, <2>1 DEF Placed
<1>6. At + Len(acc) = At' + Len(acc')
  BY <1>1, <1>2, <1>4
<1>7. Placed'
  <2>1. \A i \in 1..Len(wire') : wire'[i] = sent'[At' + Len(acc') + Len(buf') + i]
    BY <1>3, <1>6 DEF Placed
  <2>2. \A i \in 1..Len(buf') : buf'[i] = sent'[At' + Len(acc') + i]
    BY <1>3, <1>6 DEF Placed
  <2>3. QED
    BY <1>2, <1>4, <1>5, <2>1, <2>2 DEF Placed
<1>8. /\ HeaderEnd(sent, At, At + q) /\ sent[At + 1] \in Interims
      /\ At + q \in 1..Len(sent)
  BY HeaderEndPlaced DEF header_Interim
<1>9. Response!SkipInterim(At + q)
  BY <1>3, <1>4, <1>8 DEF Response!SkipInterim, At, Response!HeaderEnd,
     Response!EmptyLine, HeaderEnd, EmptyLine
<1>10. QED
  BY <1>7, <1>8, <1>9

\* The answer's own header: what came after it is its first bytes.
LEMMA FinalRefines ==
  ASSUME ClientInv, Placed, NEW q \in 1..Len(acc), header_Final(q)
  PROVE  Placed' /\ \E p \in 1..Len(sent), n \in 0..Len(sent) : Response!Answer(p, n)
<1> DEFINE rest == SubSeq(acc, q + 1, Len(acc))
           m == Len(acc) - q
<1>1. /\ rest \in Seq(Tokens) /\ Len(rest) = m /\ m < BUF
      /\ \A i \in 1..m : rest[i] = acc[q + i]
  BY RestOfHeader DEF header_Final
<1>2. /\ Len(sent) \in Nat /\ Len(acc) \in Nat /\ Len(wire) \in Nat /\ Len(buf) = 0
      /\ At \in Nat /\ q \in Nat /\ q <= Len(acc) /\ m \in Nat
      /\ At + Len(acc) <= Len(sent) /\ At + Len(acc) + Len(wire) = Len(sent)
      /\ sent \in Seq(Tokens) /\ BUF \in Nat /\ Len(<< >>) = 0
  BY Lengths, Empties, Sizes
     DEF ClientInv, AnswerShape, header_Final, Placed, At, TypeOK
<1>3. /\ responceCode' = acc[1] /\ acc[1] \in Finals /\ acc' = << >>
      /\ call' = call /\ sent' = sent /\ wire' = wire /\ pc = "header"
      /\ \/ /\ call = "body" /\ pc' = "collect" /\ data' = rest
            /\ buf' = << >> /\ buf = << >>
         \/ /\ call # "body" /\ pc' = "opened" /\ buf' = rest
            /\ data' = << >> /\ data = << >>
  BY <1>1, <1>2 DEF header_Final, ClientInv, AnswerShape
<1>4. \A i \in 1..m : rest[i] = sent[At + q + i]
  <2> SUFFICES ASSUME NEW i \in 1..m PROVE rest[i] = sent[At + q + i]
    OBVIOUS
  <2>1. q + i \in 1..Len(acc) /\ At + (q + i) = At + q + i
    BY <1>2
  <2>2. QED
    BY <1>1, <2>1 DEF Placed
<1>5. /\ HeaderEnd(sent, At, At + q) /\ sent[At + 1] = acc[1]
      /\ At + q \in 1..Len(sent)
  BY HeaderEndPlaced DEF header_Final
<1>6. ASSUME NEW n \in 0..Len(sent), n \in Nat, At' = At + q + n,
             At + q + n <= Len(sent), data' = SubSeq(sent, At + q + 1, At + q + n)
      PROVE  \E p \in 1..Len(sent), k \in 0..Len(sent) : Response!Answer(p, k)
  <2>1. Response!Answer(At + q, n)
    BY <1>3, <1>5, <1>6 DEF Response!Answer, At, Response!HeaderEnd,
       Response!EmptyLine, HeaderEnd, EmptyLine
  <2>2. QED
    BY <1>5, <2>1
<1> HIDE DEF rest
<1>7. CASE call = "body"
  <2>1. /\ data' = rest /\ Len(acc') = 0 /\ Len(buf') = 0 /\ acc' = << >>
        /\ buf' = << >> /\ sent' = sent /\ wire' = wire
    BY <1>2, <1>3, <1>7
  <2>2. At' = At + q + m
    BY <1>2, <2>1 DEF At
  <2>3. rest = SubSeq(sent, At + q + 1, At + q + m)
    <3>1. At + q \in Nat /\ At + q + Len(rest) <= Len(sent)
      BY <1>1, <1>2
    <3>2. \A i \in 1..Len(rest) : rest[i] = sent[At + q + i]
      BY <1>1, <1>4
    <3>3. QED
      BY <1>1, <1>2, <3>1, <3>2, Piece
  <2>4. \A i \in 1..Len(wire') :
          wire'[i] = sent'[At' + Len(acc') + Len(buf') + i]
    <3>1. At' + Len(acc') + Len(buf') = At + Len(acc) + Len(buf)
      BY <1>2, <2>1, <2>2
    <3>2. QED
      BY <2>1, <3>1 DEF Placed
  <2>5. Placed'
    BY <1>2, <2>1, <2>2, <2>4 DEF Placed
  <2>6. m \in 0..Len(sent) /\ At + q + m <= Len(sent)
    BY <1>2
  <2>7. QED
    BY <1>2, <1>6, <2>1, <2>2, <2>3, <2>5, <2>6
<1>8. CASE call # "body"
  <2>1. /\ data' = << >> /\ buf' = rest /\ Len(acc') = 0 /\ Len(buf') = m
        /\ sent' = sent /\ wire' = wire /\ acc' = << >>
    BY <1>1, <1>2, <1>3, <1>8
  <2>2. At' = At + q
    BY <1>2, <2>1 DEF At
  <2>3. \A i \in 1..Len(buf') : buf'[i] = sent'[At' + Len(acc') + i]
    <3>1. At' + Len(acc') = At + q
      BY <1>2, <2>1, <2>2
    <3>2. QED
      BY <1>4, <2>1, <3>1
  <2>4. \A i \in 1..Len(wire') :
          wire'[i] = sent'[At' + Len(acc') + Len(buf') + i]
    <3>1. At' + Len(acc') + Len(buf') = At + Len(acc) + Len(buf)
      BY <1>2, <2>1, <2>2
    <3>2. QED
      BY <2>1, <3>1 DEF Placed
  <2>5. Placed'
    BY <1>2, <2>1, <2>2, <2>3, <2>4 DEF Placed
  <2>6. /\ 0 \in 0..Len(sent) /\ At + q + 0 = At + q /\ At + q <= Len(sent)
        /\ At + q \in Nat
    BY <1>2
  <2>7. SubSeq(sent, At + q + 1, At + q) = << >>
    BY <2>6, SubSeqEmpty
  <2>8. QED
    BY <1>6, <2>1, <2>2, <2>5, <2>6, <2>7
<1>9. QED
  BY <1>7, <1>8

\* Bytes from the front of what is not looked at yet are handed over.
LEMMA DeliverRefines ==
  ASSUME ClientInv, Placed, NEW n \in Nat, n > 0, NEW piece \in Seq(Tokens),
         Len(piece) = n, At + n <= Len(sent),
         \A i \in 1..n : piece[i] = sent[At + i],
         At' = At + n, data' = data \o piece,
         UNCHANGED <<pc, call, rc, sent, responceCode>>,
         pc \in {"collect", "stream"}
  PROVE  \E k \in 1..Len(sent) : Response!Deliver(k)
<1>1. sent \in Seq(Tokens) /\ Len(sent) \in Nat /\ At \in Nat
  BY Lengths DEF ClientInv, TypeOK, Placed
<1>2. piece = SubSeq(sent, At + 1, At + n)
  BY <1>1, Piece
<1>3. Response!Deliver(n)
  BY <1>1, <1>2 DEF Response!Deliver, At
<1>4. n \in 1..Len(sent)
  BY <1>1
<1>5. QED
  BY <1>3, <1>4

\* A piece from the wire, for either caller.
LEMMA WireRefines ==
  ASSUME ClientInv, Placed, NEW n \in 1..Len(wire), NEW max, recv(n, max),
         data' = data \o Received(n),
         UNCHANGED <<pc, call, rc, sent, responceCode, acc, buf>>,
         acc = << >>, buf = << >>, pc \in {"collect", "stream"}
  PROVE  Placed' /\ \E k \in 1..Len(sent) : Response!Deliver(k)
<1>1. /\ Len(sent) \in Nat /\ Len(acc) = 0 /\ Len(buf) = 0 /\ Len(wire) \in Nat
      /\ At \in Nat /\ n \in Nat /\ n > 0 /\ n <= Len(wire)
      /\ At + Len(wire) = Len(sent)
  BY Lengths, Empties DEF ClientInv, Placed, At
<1>2. /\ Received(n) \in Seq(Tokens) /\ Len(Received(n)) = n
      /\ \A i \in 1..n : Received(n)[i] = wire[i]
      /\ Len(wire') = Len(wire) - n
      /\ \A i \in 1..(Len(wire) - n) : wire'[i] = wire[n + i]
  BY ReceivedPart DEF ClientInv
<1>3. At' = At + n
  BY <1>1, <1>2 DEF At
<1>4. \A i \in 1..Len(wire') : wire'[i] = sent'[At' + Len(acc') + Len(buf') + i]
  <2> SUFFICES ASSUME NEW i \in 1..Len(wire')
               PROVE  wire'[i] = sent[At' + Len(acc) + Len(buf) + i]
    OBVIOUS
  <2>1. /\ i \in 1..(Len(wire) - n) /\ n + i \in 1..Len(wire)
        /\ At + Len(acc) + Len(buf) + (n + i) = At' + Len(acc) + Len(buf) + i
    BY <1>1, <1>2, <1>3
  <2>2. wire[n + i] = sent[At + Len(acc) + Len(buf) + (n + i)]
    BY <2>1 DEF Placed
  <2>3. QED
    BY <1>2, <2>1, <2>2
<1>5. Placed'
  BY <1>1, <1>3, <1>4 DEF Placed
<1>6. \A i \in 1..n : Received(n)[i] = sent[At + i]
  <2> SUFFICES ASSUME NEW i \in 1..n PROVE Received(n)[i] = sent[At + i]
    OBVIOUS
  <2>1. i \in 1..Len(wire) /\ At + Len(acc) + Len(buf) + i = At + i
    BY <1>1
  <2>2. QED
    BY <1>2, <2>1 DEF Placed
<1>7. At + n <= Len(sent)
  BY <1>1
<1> HIDE DEF Received
<1>8. QED
  BY <1>1, <1>2, <1>3, <1>5, <1>6, <1>7, DeliverRefines

\* A piece of the body, for either caller.
LEMMA BodyRefines ==
  ASSUME ClientInv, Placed, NEW n \in 1..Len(wire),
         collect_Recv(n) \/ \E size \in BodySizes : recvBody_Data(n, size)
  PROVE  Placed' /\ \E k \in 1..Len(sent) : Response!Deliver(k)
<1>1. PICK max : recv(n, max)
  BY DEF collect_Recv, recvBody_Data
<1>2. /\ data' = data \o Received(n) /\ acc = << >> /\ buf = << >>
      /\ UNCHANGED <<pc, call, rc, sent, responceCode, acc, buf>>
      /\ pc \in {"collect", "stream"}
  BY DEF collect_Recv, collect_Limit, recvBody_Data, ClientInv, AnswerShape
<1>3. QED
  BY <1>1, <1>2, WireRefines

\* What came with the header is handed over.
LEMMA LeftoverRefines ==
  ASSUME ClientInv, Placed, NEW size \in BodySizes, recvBody_Leftover(size)
  PROVE  Placed' /\ \E k \in 1..Len(sent) : Response!Deliver(k)
<1>1. PICK n \in 1..Len(buf) : /\ data' = data \o SubSeq(buf, 1, n)
                               /\ buf' = SubSeq(buf, n + 1, Len(buf))
  BY LeftoverPieces
<1> DEFINE piece == SubSeq(buf, 1, n)
<1>2. /\ Len(sent) \in Nat /\ Len(acc) = 0 /\ Len(buf) \in Nat /\ Len(wire) \in Nat
      /\ At \in Nat /\ n \in Nat /\ n > 0 /\ n <= Len(buf)
      /\ At + Len(buf) + Len(wire) = Len(sent) /\ buf \in Seq(Tokens)
      /\ n \in 0..Len(buf)
  BY Lengths, Empties
     DEF ClientInv, AnswerShape, TypeOK, recvBody_Leftover, Placed, At
<1>3. /\ piece \in Seq(Tokens) /\ Len(piece) = n
      /\ \A i \in 1..n : piece[i] = buf[i]
      /\ Len(buf') = Len(buf) - n
      /\ \A i \in 1..(Len(buf) - n) : buf'[i] = buf[n + i]
  BY <1>1, <1>2, Cut
<1>4. /\ UNCHANGED <<pc, call, rc, sent, responceCode, acc, wire>> /\ pc = "stream"
  BY DEF recvBody_Leftover
<1>5. At' = At + n
  BY <1>2, <1>3, <1>4 DEF At
<1> HIDE DEF piece
<1>6. \A i \in 1..Len(buf') : buf'[i] = sent'[At' + Len(acc') + i]
  <2> SUFFICES ASSUME NEW i \in 1..Len(buf')
               PROVE  buf'[i] = sent[At' + Len(acc) + i]
    BY <1>4
  <2>1. /\ i \in 1..(Len(buf) - n) /\ n + i \in 1..Len(buf)
        /\ At + Len(acc) + (n + i) = At' + Len(acc) + i
    BY <1>2, <1>3, <1>5
  <2>2. QED
    BY <1>3, <2>1 DEF Placed
<1>7. \A i \in 1..Len(wire') : wire'[i] = sent'[At' + Len(acc') + Len(buf') + i]
  <2>1. At' + Len(acc') + Len(buf') = At + Len(acc) + Len(buf)
    BY <1>2, <1>3, <1>4, <1>5
  <2>2. QED
    BY <1>4, <2>1 DEF Placed
<1>8. Placed'
  BY <1>2, <1>4, <1>5, <1>6, <1>7 DEF Placed
<1>9. \A i \in 1..n : piece[i] = sent[At + i]
  <2> SUFFICES ASSUME NEW i \in 1..n PROVE piece[i] = sent[At + i]
    OBVIOUS
  <2>1. i \in 1..Len(buf) /\ At + Len(acc) + i = At + i
    BY <1>2
  <2>2. QED
    BY <1>3, <2>1 DEF Placed
<1>10. At + n <= Len(sent) /\ data' = data \o piece
  BY <1>1, <1>2 DEF piece
<1>11. QED
  BY <1>2, <1>3, <1>4, <1>5, <1>8, <1>9, <1>10, DeliverRefines

\* The body is reported whole when all of it has been read.
LEMMA CompleteRefines ==
  ASSUME ClientInv, Placed, collect_End, rc' = "ok"
  PROVE  Placed' /\ Response!Complete
<1>1. /\ acc = << >> /\ buf = << >> /\ wire = << >> /\ call = "body" /\ pc = "collect"
      /\ acc' = << >> /\ buf' = << >> /\ wire' = << >> /\ sent' = << >>
  BY DEF collect_End, collect_Limit, recv_Eof, Close, ClientInv, AnswerShape,
         CallShape, Waiting
<1>2. Placed' /\ At' = 0
  BY <1>1, PlacedEmpty
<1>3. At = Len(sent)
  BY <1>1, Lengths, Empties DEF At, ClientInv
<1>4. QED
  BY <1>1, <1>2, <1>3 DEF collect_End, Response!Complete, At

\* The client does what HttpResponse says of the uncut answer.
THEOREM ClientImplementsResponse == Spec => ResponseSpec
<1>1. Init => Placed /\ Response!Init
  <2> SUFFICES ASSUME Init PROVE Placed /\ Response!Init
    OBVIOUS
  <2>1. Placed /\ At = 0
    BY PlacedEmpty DEF Init
  <2>2. QED
    BY <2>1 DEF Init, Response!Init, At
<1>2. ClientInv /\ Placed /\ [Next]_connVars
        => Placed' /\ [Response!Next]_Response!responseVars
  <2> SUFFICES ASSUME ClientInv, Placed, [Next]_connVars
               PROVE  Placed' /\ (Response!Next \/ Abstract' = Abstract)
    BY DEF Response!responseVars, Abstract, Phase, Whole, At
  <2>1. CASE UNCHANGED connVars
    BY <2>1, QuietSteps
  <2>2. CASE \/ connect_Socket \/ connect_Refused \/ connect_Done \/ shutdown
             \/ RecvThread_Start \/ \E n \in 1..REQUEST : send(n)
    BY <2>2, QuietSteps
  <2>3. CASE connect_NoMore \/ send_Error
    BY <2>3, EarlyFailures
  <2>4. CASE disconnect
    BY <2>4, DisconnectRefines DEF Response!Next
  <2>5. CASE \/ \E q \in 1..Len(acc) : header_Malformed(q)
             \/ \E r \in {"large", "closed", "timeout", "reset"} : header_Error(r)
             \/ \E r \in {"limit", "timeout", "reset"} : collect_Error(r)
             \/ \E r \in {"closed", "timeout", "reset"} : recvBody_End(r)
    BY <2>5, EndSteps DEF Response!Next
  <2>6. CASE collect_End
    BY <2>6, EndSteps, CompleteRefines DEF Response!Next
  <2>7. CASE \E kind \in {"connect", "header", "body"} : connect(kind)
    BY <2>7, ForgetStep DEF Response!Next
  <2>8. CASE send_Done
    BY <2>8, RequestStepRefines DEF Response!Next
  <2>9. ASSUME NEW q \in 1..Len(acc), header_Interim(q)
        PROVE  Placed' /\ Response!Next
    BY <2>9, InterimRefines DEF Response!Next
  <2>10. ASSUME NEW q \in 1..Len(acc), header_Final(q)
         PROVE  Placed' /\ Response!Next
    BY <2>10, FinalRefines DEF Response!Next
  <2>11. ASSUME NEW n \in 1..Len(wire), header_Recv(n)
         PROVE  Placed' /\ Abstract' = Abstract
    BY <2>11, HeaderRecvRefines
  <2>12. ASSUME NEW n \in 1..Len(wire),
                collect_Recv(n) \/ \E size \in BodySizes : recvBody_Data(n, size)
         PROVE  Placed' /\ Response!Next
    BY <2>12, BodyRefines DEF Response!Next
  <2>13. ASSUME NEW size \in BodySizes, recvBody_Leftover(size)
         PROVE  Placed' /\ Response!Next
    BY <2>13, LeftoverRefines DEF Response!Next
  <2>14. QED
    BY <2>1, <2>2, <2>3, <2>4, <2>5, <2>6, <2>7, <2>8, <2>9, <2>10, <2>11, <2>12,
       <2>13, ClientSteps
<1>3. QED
  BY <1>1, <1>2, ClientInvHolds, PTL DEF Spec, ResponseSpec, Response!Spec

----------------------------------------------------------------------------
(* Why a request returns.                                                  *)

\* Every send and every recv of a request is made on the connection's own
\* descriptor, with the time limits of setIoTimeout set on it: no server can
\* make one of them wait for ever (lines 122, 375, 429).
TimedWaits == pc \in {"send", "header", "collect"} => timeo /\ s # NoFd

\* The parts of a request still to come, and what is left of the present one:
\* addresses to try, bytes to send, bytes to receive and to search.
Stage ==
  CASE pc = "connect" -> 4 [] pc = "send" -> 3 [] pc = "header" -> 2
    [] pc = "collect" -> 1 [] OTHER -> 0

Left ==
  CASE pc = "connect" -> 2 * addrs + (IF fd = NoFd THEN 1 ELSE 0)
    [] pc = "send"    -> REQUEST - nSent
    [] pc = "header"  -> 2 * Len(wire) + Len(acc)
    [] pc = "collect" -> Len(wire)
    [] OTHER          -> 0

GoesOn == Left \in Nat /\ (Stage' < Stage \/ (Stage' = Stage /\ Left' < Left))

\* Every step of a request is a step towards its end.
RequestGoesOn == [][(pc \in Waiting => GoesOn)]_connVars

\* The measures are natural numbers.
LEMMA MeasureIsNat ==
  ASSUME ClientInv
  PROVE  /\ Left \in Nat /\ Len(wire) \in Nat /\ Len(acc) \in Nat
         /\ nSent \in Nat /\ addrs \in Nat /\ REQUEST \in Nat
<1>1. /\ Len(wire) \in Nat /\ Len(acc) \in Nat
      /\ nSent \in 0..REQUEST /\ addrs \in 0..MaxAddrs
  BY LenProperties DEF ClientInv, TypeOK
<1>2. QED
  BY <1>1, Sizes DEF Left

\* A call that fails is over.
LEMMA FailGoesOn ==
  ASSUME ClientInv, pc \in Waiting, NEW r, Fail(r)
  PROVE  GoesOn
BY MeasureIsNat DEF Fail, GoesOn, Stage, Waiting

\* What recv returned is no longer on the wire.
LEMMA RecvShortens ==
  ASSUME ClientInv, NEW n \in 1..Len(wire), NEW max, recv(n, max)
  PROVE  Len(wire') = Len(wire) - n /\ n \in Nat /\ n > 0 /\ Len(Received(n)) = n
<1>1. wire \in Seq(Tokens) /\ n \in 0..Len(wire) /\ Len(wire) \in Nat
  BY MeasureIsNat DEF ClientInv, TypeOK
<1>2. QED
  BY <1>1, Cut DEF recv, Received

\* The steps of connect.
LEMMA ConnectGoesOn ==
  ASSUME ClientInv, connect_Socket \/ connect_Refused \/ connect_NoMore \/ connect_Done
  PROVE  GoesOn
<1>0. addrs \in Nat /\ Left \in Nat /\ NoFd \notin Fds
  BY MeasureIsNat, Names
<1>1. CASE connect_Socket
  BY <1>0, <1>1 DEF connect_Socket, GoesOn, Stage, Left
<1>2. CASE connect_Refused
  BY <1>0, <1>2 DEF connect_Refused, GoesOn, Stage, Left
<1>3. CASE connect_NoMore
  BY <1>3, FailGoesOn DEF connect_NoMore, Waiting
<1>4. CASE connect_Done
  BY <1>0, <1>4 DEF connect_Done, GoesOn, Stage
<1>5. QED
  BY <1>1, <1>2, <1>3, <1>4

\* The steps of sendRequest.
LEMMA SendGoesOn ==
  ASSUME ClientInv, send_Error \/ send_Done \/ \E n \in 1..REQUEST : send(n)
  PROVE  GoesOn
<1>0. nSent \in Nat /\ REQUEST \in Nat /\ Left \in Nat
  BY MeasureIsNat
<1>1. CASE send_Error
  BY <1>1, FailGoesOn DEF send_Error, Waiting
<1>2. CASE send_Done
  BY <1>0, <1>2 DEF send_Done, GoesOn, Stage
<1>3. ASSUME NEW n \in 1..REQUEST, send(n) PROVE GoesOn
  <2>1. pc = "send" /\ pc' = "send" /\ nSent' = nSent + n /\ n \in Nat /\ n > 0
    BY <1>0, <1>3 DEF send
  <2>2. QED
    BY <1>0, <2>1 DEF GoesOn, Stage, Left
<1>4. QED
  BY <1>1, <1>2, <1>3

\* The steps of recvHeader.
LEMMA HeaderGoesOn ==
  ASSUME ClientInv,
         \/ \E q \in 1..Len(acc) :
              header_Interim(q) \/ header_Malformed(q) \/ header_Final(q)
         \/ \E n \in 1..Len(wire) : header_Recv(n)
         \/ \E r \in {"large", "closed", "timeout", "reset"} : header_Error(r)
  PROVE  GoesOn
<1>0. Len(wire) \in Nat /\ Len(acc) \in Nat /\ Left \in Nat /\ acc \in Seq(Tokens)
  BY MeasureIsNat DEF ClientInv, TypeOK
<1>1. ASSUME NEW q \in 1..Len(acc), header_Interim(q) PROVE GoesOn
  <2>1. Len(acc') = Len(acc) - q /\ q \in Nat /\ q > 0
    <3>1. q \in 0..Len(acc)
      BY <1>0
    <3>2. QED
      BY <1>0, <1>1, <3>1, Cut DEF header_Interim
  <2>2. pc = "header" /\ pc' = "header" /\ wire' = wire
    BY <1>1 DEF header_Interim
  <2>3. QED
    BY <1>0, <2>1, <2>2 DEF GoesOn, Stage, Left
<1>2. ASSUME NEW q \in 1..Len(acc), header_Malformed(q) \/ header_Final(q) PROVE GoesOn
  <2>1. pc = "header" /\ pc' \in {"idle", "collect", "opened"}
    BY <1>2 DEF header_Malformed, header_Final, Fail
  <2>2. QED
    BY <1>0, <2>1 DEF GoesOn, Stage
<1>3. ASSUME NEW n \in 1..Len(wire), header_Recv(n) PROVE GoesOn
  <2>1. recv(n, BUF) /\ pc = "header" /\ pc' = "header" /\ acc' = acc \o Received(n)
    BY <1>3 DEF header_Recv
  <2>2. Len(wire') = Len(wire) - n /\ n \in Nat /\ n > 0 /\ Len(Received(n)) = n
    BY <2>1, RecvShortens
  <2>3. Received(n) \in Seq(Tokens)
    <3>1. wire \in Seq(Tokens) /\ n \in 0..Len(wire)
      BY <1>0 DEF ClientInv, TypeOK
    <3>2. QED
      BY <3>1, Cut DEF Received
  <2>4. Len(acc') = Len(acc) + n
    BY <1>0, <2>1, <2>2, <2>3, ConcatProperties
  <2>5. QED
    BY <1>0, <2>1, <2>2, <2>4 DEF GoesOn, Stage, Left
<1>4. ASSUME NEW r \in {"large", "closed", "timeout", "reset"}, header_Error(r)
      PROVE  GoesOn
  BY <1>4, FailGoesOn DEF header_Error, header_TooLarge, Waiting
<1>5. QED
  BY <1>1, <1>2, <1>3, <1>4

\* The steps that collect the body.
LEMMA CollectGoesOn ==
  ASSUME ClientInv,
         \/ \E n \in 1..Len(wire) : collect_Recv(n)
         \/ \E r \in {"limit", "timeout", "reset"} : collect_Error(r)
         \/ collect_End
  PROVE  GoesOn
<1>0. Len(wire) \in Nat /\ Left \in Nat
  BY MeasureIsNat
<1>1. ASSUME NEW n \in 1..Len(wire), collect_Recv(n) PROVE GoesOn
  <2>1. recv(n, BUF) /\ pc = "collect" /\ pc' = "collect"
    BY <1>1 DEF collect_Recv
  <2>2. Len(wire') = Len(wire) - n /\ n \in Nat /\ n > 0
    BY <2>1, RecvShortens
  <2>3. QED
    BY <1>0, <2>1, <2>2 DEF GoesOn, Stage, Left
<1>2. ASSUME NEW r \in {"limit", "timeout", "reset"}, collect_Error(r) PROVE GoesOn
  BY <1>2, FailGoesOn DEF collect_Error, collect_Limit, Waiting
<1>3. CASE collect_End
  BY <1>0, <1>3 DEF collect_End, GoesOn, Stage
<1>4. QED
  BY <1>1, <1>2, <1>3

\* A request waits under a time limit, or not at all.
THEOREM WaitsAreTimed == Spec => []TimedWaits
<1>1. ClientInv => TimedWaits
  BY DEF ClientInv, CallShape, TimedWaits
<1>2. QED
  BY <1>1, ClientInvHolds, PTL

\* A request runs in no circle: every step of it tries one address fewer, sends,
\* receives or erases bytes, or goes on to its next part, however the server cuts
\* its answer and whatever fails.  With WaitsAreTimed this is why it returns.
THEOREM RequestsGetShorter == Spec => RequestGoesOn
<1>1. ASSUME ClientInv, Next, pc \in Waiting PROVE GoesOn
  <2>1. /\ ~disconnect /\ ~shutdown /\ ~RecvThread_Start
        /\ \A kind : ~connect(kind)
        /\ \A size : ~recvBody_Leftover(size) /\ \A n : ~recvBody_Data(n, size)
        /\ \A r : ~recvBody_End(r)
    BY <1>1 DEF Waiting, disconnect, shutdown, RecvThread_Start, connect,
                recvBody_Leftover, recvBody_Data, recvBody_End
  <2>2. QED
    BY <1>1, <2>1, ClientSteps, ConnectGoesOn, SendGoesOn, HeaderGoesOn, CollectGoesOn
<1>2. ClientInv /\ [Next]_connVars => [(pc \in Waiting => GoesOn)]_connVars
  BY <1>1
<1>3. QED
  BY <1>2, ClientInvHolds, PTL DEF Spec, RequestGoesOn

=============================================================================
