---------------------------- MODULE MirakcConnect ----------------------------
(***************************************************************************)
(* class MirakcConnectBase and its two subclasses (src/src/http_proc.hpp): *)
(* one connection to the server, its descriptor, the request, the response *)
(* header that recv may cut anywhere, the bytes that came with it, and the *)
(* body, collected by sendGetRequest_WaitBody or handed piece by piece to  *)
(* the receive thread by recvBody.                                         *)
(*                                                                         *)
(* A call is several actions, one for each system call that may block or   *)
(* fail and one for each turn of recvHeader's inner loop.  Only shutdown   *)
(* runs beside another call (see CBonTuner for who calls when).  EINTR is  *)
(* retried everywhere and is no step.                                      *)
(***************************************************************************)
EXTENDS HttpHeader

CONSTANTS
  Streams,     \* the byte streams a server may send
  NoCode,      \* *responceCode before a final status
  BUF,         \* sizeof(buf) - 1: most that one recv returns
  HEADER_MAX,  \* MIRAKC_HEADER_MAX_TOTAL
  BODY_MAX,    \* bodymax
  REQUEST,     \* the length of the request
  BodySizes,   \* the sizes recvBody is called with
  Fds, NoFd,   \* descriptor numbers, and -1
  MaxAddrs     \* bound: addresses the host name resolves to

ASSUME Sizes ==
  /\ BUF \in Nat \ {0} /\ HEADER_MAX \in Nat /\ BODY_MAX \in Nat \ {0}
  /\ REQUEST \in Nat \ {0} /\ BodySizes \subseteq Nat \ {0}
  /\ MaxAddrs \in Nat

ASSUME Names ==
  /\ NoFd \notin Fds /\ NoCode \notin Tokens
  /\ Streams \subseteq Seq(Tokens)

VARIABLES
  pc,            \* "idle", "opened" (header read), "stream" (receive thread
                 \* runs), or where the call in progress is
  call,          \* "connect", "header" (..._WaitHeader), "body" (..._WaitBody)
  addrs,         \* addresses connect has still to try
  fd, s,         \* connect's local descriptor; the connection's
  open,          \* history: descriptors this code has open
  timeo,         \* SO_RCVTIMEO and SO_SNDTIMEO are set on s
  shut,          \* shutdown was called on s
  nSent, asked,  \* sendRequest's sent; history: what the server has got
  sent, closes,  \* history: the server's answer; it closes after it
  wire,          \* the part of the answer recv has not returned yet
  acc, buf,      \* recvHeader's acc; the first bufsize bytes of buf
  data,          \* the body: collected so far, or handed out by recvBody
  rc, responceCode  \* the call's result

descriptors == <<addrs, fd, s, open>>
request     == <<nSent, asked>>
answer      == <<sent, closes, wire, acc, buf, data>>
connVars    == <<pc, call, descriptors, timeo, shut, request, answer, rc, responceCode>>

----------------------------------------------------------------------------
(* Descriptors.                                                            *)

\* disconnect(): close, and forget the bytes that came with the header.
Close ==
  /\ open' = open \ {s} /\ s' = NoFd /\ buf' = << >>
  /\ UNCHANGED <<addrs, fd>>

disconnect ==
  /\ pc \in {"idle", "opened"} /\ s # NoFd
  /\ Close
  /\ pc' = "idle" /\ sent' = << >> /\ wire' = << >>
  /\ UNCHANGED <<call, timeo, shut, request, closes, acc, data, rc, responceCode>>

\* A call that fails returns r.  sendGetRequest_WaitBody closes the connection,
\* ..._WaitHeader leaves that to its caller.  Nothing more of the answer is read.
Fail(r) ==
  /\ pc' = "idle" /\ rc' = r
  /\ sent' = << >> /\ wire' = << >> /\ acc' = << >> /\ data' = << >>
  /\ IF call = "body" THEN Close ELSE UNCHANGED <<descriptors, buf>>
  /\ UNCHANGED <<call, timeo, shut, request, closes>>

\* connect() first closes what is open.  No address: getaddrinfo failed, or the
\* socket's path is empty or too long.
connect(kind) ==
  /\ pc = "idle"
  /\ pc' = "connect" /\ call' = kind
  /\ open' = open \ {s} /\ s' = NoFd /\ buf' = << >> /\ UNCHANGED fd
  /\ addrs' \in 0..MaxAddrs
  /\ nSent' = 0 /\ asked' = << >>
  /\ data' = << >> /\ rc' = "none" /\ responceCode' = NoCode
  /\ timeo' = FALSE /\ shut' = FALSE
  /\ UNCHANGED <<sent, closes, wire, acc>>

\* socket() for the next address; it may fail.
connect_Socket ==
  /\ pc = "connect" /\ fd = NoFd /\ addrs > 0
  /\ \/ \E n \in Fds \ open : fd' = n /\ open' = open \cup {n} /\ UNCHANGED addrs
     \/ addrs' = addrs - 1 /\ UNCHANGED <<fd, open>>
  /\ UNCHANGED <<pc, call, s, timeo, shut, request, answer, rc, responceCode>>

\* connectFd failed, within its time limit.
connect_Refused_KeepFd ==
  /\ pc = "connect" /\ fd # NoFd
  /\ fd' = NoFd /\ addrs' = addrs - 1
  /\ UNCHANGED <<pc, call, s, open, timeo, shut, request, answer, rc, responceCode>>
connect_Refused ==
  /\ pc = "connect" /\ fd # NoFd
  /\ open' = open \ {fd} /\ fd' = NoFd /\ addrs' = addrs - 1
  /\ UNCHANGED <<pc, call, s, timeo, shut, request, answer, rc, responceCode>>

connect_NoMore ==
  /\ pc = "connect" /\ fd = NoFd /\ addrs = 0
  /\ Fail("connect") /\ UNCHANGED responceCode

\* setIoTimeout follows in the two requests; OpenTuner only tries to connect.
connect_Done_NoTimeout ==
  /\ pc = "connect" /\ fd # NoFd
  /\ s' = fd /\ fd' = NoFd
  /\ IF call = "connect" THEN pc' = "idle" /\ rc' = "ok"
                         ELSE pc' = "send" /\ UNCHANGED rc
  /\ UNCHANGED <<call, addrs, open, timeo, shut, request, answer, responceCode>>
connect_Done ==
  /\ pc = "connect" /\ fd # NoFd
  /\ s' = fd /\ fd' = NoFd
  /\ IF call = "connect" THEN pc' = "idle" /\ rc' = "ok" /\ UNCHANGED timeo
                         ELSE pc' = "send" /\ timeo' = TRUE /\ UNCHANGED rc
  /\ UNCHANGED <<call, addrs, open, shut, request, answer, responceCode>>

----------------------------------------------------------------------------
(* sendRequest.                                                            *)

\* send() took n bytes.
send_FromStart(n) ==
  /\ pc = "send" /\ nSent + n <= REQUEST
  /\ asked' = asked \o [i \in 1..n |-> i]
  /\ nSent' = nSent + n
  /\ UNCHANGED <<pc, call, descriptors, timeo, shut, answer, rc, responceCode>>
send_All(n) ==
  /\ pc = "send" /\ nSent < REQUEST /\ n <= REQUEST
  /\ asked' = asked \o [i \in 1..n |-> nSent + i]
  /\ nSent' = nSent + n
  /\ UNCHANGED <<pc, call, descriptors, timeo, shut, answer, rc, responceCode>>
send(n) ==
  /\ pc = "send" /\ nSent + n <= REQUEST
  /\ asked' = asked \o [i \in 1..n |-> nSent + i]
  /\ nSent' = nSent + n
  /\ UNCHANGED <<pc, call, descriptors, timeo, shut, answer, rc, responceCode>>

send_Error ==
  /\ pc = "send" /\ nSent < REQUEST
  /\ Fail("send") /\ UNCHANGED responceCode

\* The request is out; recvHeader is entered, and the server answers.
send_Done ==
  /\ pc = "send" /\ nSent = REQUEST
  /\ pc' = "header"
  /\ sent' \in Streams /\ wire' = sent' /\ closes' \in BOOLEAN
  /\ UNCHANGED <<call, descriptors, timeo, shut, request, acc, buf, data, rc,
                 responceCode>>

----------------------------------------------------------------------------
(* recv: some of the next bytes, the end, or an error.                     *)

Received(n) == SubSeq(wire, 1, n)
recv(n, max) == n <= max /\ n <= Len(wire) /\ wire' = SubSeq(wire, n + 1, Len(wire))
recv_Eof_Write == wire = << >> /\ closes
recv_Eof       == shut \/ (wire = << >> /\ closes)
recv_Fails(r)  ==
  \/ recv_Eof /\ r = "closed"
  \/ timeo /\ wire = << >> /\ ~closes /\ r = "timeout"
  \/ r = "reset"

----------------------------------------------------------------------------
(* recvHeader.                                                             *)

\* acc.find("\r\n\r\n") finds nothing.
NoHeader_Tail == \A q \in {Len(acc)} \ {0, 1} : ~EmptyLine(acc, q)
NoHeader == \A q \in 2..Len(acc) : ~EmptyLine(acc, q)

\* 1xx: erased, and the search goes on in what is left.
header_Interim_EraseAll(q) ==
  /\ pc = "header" /\ HeaderEnd(acc, 0, q) /\ acc[1] \in Interims
  /\ acc' = << >>
  /\ UNCHANGED <<pc, call, descriptors, timeo, shut, request, sent, closes,
                 wire, buf, data, rc, responceCode>>
header_Interim(q) ==
  /\ pc = "header" /\ HeaderEnd(acc, 0, q) /\ acc[1] \in Interims
  /\ acc' = SubSeq(acc, q + 1, Len(acc))
  /\ UNCHANGED <<pc, call, descriptors, timeo, shut, request, sent, closes,
                 wire, buf, data, rc, responceCode>>

header_Malformed(q) ==
  /\ pc = "header" /\ HeaderEnd(acc, 0, q) /\ acc[1] \notin Interims \cup Finals
  /\ Fail("malformed") /\ UNCHANGED responceCode

\* The answer's own header.  What came after it is kept in buf, if it fits;
\* ..._WaitHeader ends the time limit of the socket, ..._WaitBody moves it on.
header_Final_KeepTimeout(q) ==
  /\ pc = "header" /\ HeaderEnd(acc, 0, q) /\ acc[1] \in Finals
  /\ Len(acc) - q <= BUF
  /\ responceCode' = acc[1] /\ acc' = << >>
  /\ LET rest == SubSeq(acc, q + 1, Len(acc)) IN
     IF call = "body"
     THEN pc' = "collect" /\ data' = rest /\ UNCHANGED <<buf, rc>>
     ELSE pc' = "opened" /\ buf' = rest /\ rc' = "ok" /\ UNCHANGED data
  /\ UNCHANGED <<call, descriptors, timeo, shut, request, sent, closes, wire>>
header_Final(q) ==
  /\ pc = "header" /\ HeaderEnd(acc, 0, q) /\ acc[1] \in Finals
  /\ responceCode' = acc[1]
  /\ IF Len(acc) - q > BUF THEN Fail("rest")
     ELSE /\ acc' = << >>
          /\ LET rest == SubSeq(acc, q + 1, Len(acc)) IN
             IF call = "body"
             THEN pc' = "collect" /\ data' = rest /\ UNCHANGED <<buf, rc, timeo>>
             ELSE /\ pc' = "opened" /\ buf' = rest /\ rc' = "ok"
                  /\ timeo' = FALSE /\ UNCHANGED data
          /\ UNCHANGED <<call, descriptors, shut, request, sent, closes, wire>>

header_TooLarge_Never == FALSE
header_TooLarge == pc = "header" /\ NoHeader /\ Len(acc) > HEADER_MAX

header_Recv(n) ==
  /\ pc = "header" /\ NoHeader /\ ~header_TooLarge
  /\ recv(n, BUF) /\ acc' = acc \o Received(n)
  /\ UNCHANGED <<pc, call, descriptors, timeo, shut, request, sent, closes, buf,
                 data, rc, responceCode>>

header_Error(r) ==
  /\ \/ header_TooLarge /\ r = "large"
     \/ pc = "header" /\ NoHeader /\ ~header_TooLarge /\ recv_Fails(r)
  /\ Fail(r) /\ UNCHANGED responceCode

----------------------------------------------------------------------------
(* The body in sendGetRequest_WaitBody.                                    *)

collect_Limit_Never == FALSE
collect_Limit == pc = "collect" /\ Len(data) > BODY_MAX

collect_Recv(n) ==
  /\ pc = "collect" /\ ~collect_Limit
  /\ recv(n, BUF) /\ data' = data \o Received(n)
  /\ UNCHANGED <<pc, call, descriptors, timeo, shut, request, sent, closes, acc,
                 buf, rc, responceCode>>

\* The server closed: that is the end of the body, which malloc may refuse.
collect_End ==
  /\ pc = "collect" /\ ~collect_Limit /\ recv_Eof
  /\ Close
  /\ pc' = "idle" /\ sent' = << >> /\ wire' = << >>
  /\ \/ rc' = "ok" /\ UNCHANGED data
     \/ rc' = "memory" /\ data' = << >>
  /\ UNCHANGED <<call, timeo, shut, request, closes, acc, responceCode>>

collect_Error(r) ==
  /\ \/ collect_Limit /\ r = "limit"
     \/ pc = "collect" /\ ~collect_Limit /\ recv_Fails(r) /\ r # "closed"
  /\ Fail(r) /\ UNCHANGED responceCode

----------------------------------------------------------------------------
(* The stream after sendGetRequest_WaitHeader.                             *)

\* SetChannel creates the receive thread, or calls disconnect.
RecvThread_Start ==
  /\ pc = "opened" /\ pc' = "stream"
  /\ UNCHANGED <<call, descriptors, timeo, shut, request, answer, rc, responceCode>>

\* recvBody(size) takes what came with the header first.
recvBody_Leftover_Drop(size) ==
  /\ pc = "stream" /\ buf # << >>
  /\ LET n == IF size < Len(buf) THEN size ELSE Len(buf) IN
     data' = data \o SubSeq(buf, 1, n) /\ buf' = << >>
  /\ UNCHANGED <<pc, call, descriptors, timeo, shut, request, sent, closes,
                 wire, acc, rc, responceCode>>
recvBody_Leftover(size) ==
  /\ pc = "stream" /\ buf # << >>
  /\ LET n == IF size < Len(buf) THEN size ELSE Len(buf) IN
     data' = data \o SubSeq(buf, 1, n) /\ buf' = SubSeq(buf, n + 1, Len(buf))
  /\ UNCHANGED <<pc, call, descriptors, timeo, shut, request, sent, closes,
                 wire, acc, rc, responceCode>>

recvBody_Data(n, size) ==
  /\ pc = "stream" /\ buf = << >>
  /\ recv(n, size) /\ data' = data \o Received(n)
  /\ UNCHANGED <<pc, call, descriptors, timeo, shut, request, sent, closes, acc,
                 buf, rc, responceCode>>

\* recvBody returns 0 or an error, and the receive thread ends.
recvBody_End(r) ==
  /\ pc = "stream" /\ buf = << >>
  /\ IF s = NoFd THEN r = "closed" ELSE recv_Fails(r)
  /\ pc' = "idle" /\ rc' = r
  /\ sent' = << >> /\ wire' = << >>
  /\ UNCHANGED <<call, descriptors, timeo, shut, request, closes, acc, buf,
                 data, responceCode>>

\* By the thread that wants to stop the receive thread.
shutdown ==
  /\ pc = "stream" /\ s # NoFd
  /\ shut' = TRUE
  /\ UNCHANGED <<pc, call, descriptors, timeo, request, answer, rc, responceCode>>

----------------------------------------------------------------------------
Init ==
  /\ pc = "idle" /\ call = "connect" /\ rc = "none" /\ responceCode = NoCode
  /\ addrs = 0 /\ fd = NoFd /\ s = NoFd /\ open = {}
  /\ timeo = FALSE /\ shut = FALSE
  /\ nSent = 0 /\ asked = << >>
  /\ sent = << >> /\ closes = FALSE /\ wire = << >>
  /\ acc = << >> /\ buf = << >> /\ data = << >>

RequestStep ==
  \/ connect_Socket \/ connect_Refused \/ connect_NoMore \/ connect_Done
  \/ send_Done
  \/ \E q \in 1..Len(acc) :
       header_Interim(q) \/ header_Malformed(q) \/ header_Final(q)
  \/ \E n \in 1..Len(wire) : header_Recv(n) \/ collect_Recv(n)
  \/ \E r \in {"large", "closed", "timeout"} : header_Error(r)
  \/ collect_End
  \/ \E r \in {"limit", "timeout"} : collect_Error(r)

StreamStep ==
  \/ \E size \in BodySizes : recvBody_Leftover(size)
  \/ \E size \in BodySizes : \E n \in 1..Len(wire) : recvBody_Data(n, size)
  \/ \E r \in {"closed", "timeout"} : recvBody_End(r)

Next ==
  \/ \E kind \in {"connect", "header", "body"} : connect(kind)
  \/ disconnect \/ shutdown \/ RecvThread_Start
  \/ \E n \in 1..REQUEST : send(n)
  \/ send_Error
  \/ RequestStep \/ header_Error("reset") \/ collect_Error("reset")
  \/ StreamStep \/ recvBody_End("reset")

Spec == Init /\ [][Next]_connVars

\* A system call that can return does.  That a server takes the request is not
\* assumed, only that send gives up after SO_SNDTIMEO; nor that it answers: a
\* stream that does not close may stop anywhere and stay silent.  Every
\* recvBody follows a put_TsStream that has returned.
FairSpec ==
  /\ Spec
  /\ WF_connVars(RequestStep \/ (timeo /\ send_Error))
  /\ WF_connVars(StreamStep)

----------------------------------------------------------------------------
(* Properties.                                                             *)

Waiting == {"connect", "send", "header", "collect"}

TypeOK ==
  /\ pc \in Waiting \cup {"idle", "opened", "stream"}
  /\ call \in {"connect", "header", "body"}
  /\ addrs \in 0..MaxAddrs
  /\ fd \in Fds \cup {NoFd} /\ s \in Fds \cup {NoFd} /\ open \subseteq Fds
  /\ timeo \in BOOLEAN /\ shut \in BOOLEAN /\ closes \in BOOLEAN
  /\ nSent \in 0..REQUEST /\ asked \in Seq(1..REQUEST)
  /\ sent \in Seq(Tokens) /\ wire \in Seq(Tokens)
  /\ acc \in Seq(Tokens) /\ buf \in Seq(Tokens) /\ data \in Seq(Tokens)
  /\ responceCode \in Finals \cup {NoCode}
  /\ rc \in {"none", "ok", "connect", "send", "malformed", "rest", "large",
             "closed", "timeout", "reset", "limit", "memory"}

\* Over failed attempts, failed requests, reconnects and closes, every
\* descriptor that is open is the one an attempt is using or the connection's
\* own (lines 175, 207, 246, 269): none leaks, none is closed twice.
DescriptorsOwned ==
  /\ open = {s, fd} \ {NoFd}
  /\ s = NoFd \/ fd = NoFd

\* However send cuts the request, the server gets its bytes once each and in
\* order (lines 283-291), and all of them before the answer is awaited.
RequestIntact ==
  /\ Len(asked) = nSent /\ \A i \in 1..nSent : asked[i] = i
  /\ pc \in {"header", "opened", "collect", "stream"} => nSent = REQUEST

\* Whatever came together with the end of a header fits into buf with room to
\* spare: the test on line 334 is never true, after any number of interim
\* responses and however recv cuts the header.
LeftoverFits == Len(buf) < BUF /\ rc # "rest"

\* What a server can make the client store: an endless header is cut off within
\* one recv of the limit (line 345), a body likewise (line 393), and a body that
\* is returned is within its limit.
MemoryBounded ==
  /\ Len(acc) <= HEADER_MAX + BUF
  /\ pc = "collect" => Len(data) <= BODY_MAX + BUF
  /\ pc = "idle" /\ call = "body" /\ rc = "ok" => Len(data) <= BODY_MAX

\* A stream may be silent for as long as it likes: the time limit of the header
\* (line 429) is over before recvBody reads (line 442), on every path.
SilenceEndsNoStream == [][pc = "stream" => rc' # "timeout"]_connVars

Response == INSTANCE HttpResponse WITH
  phase <- IF pc = "header" THEN "header"
           ELSE IF pc \in {"collect", "opened", "stream"} THEN "body" ELSE "idle",
  at    <- Len(sent) - Len(acc) - Len(buf) - Len(wire),
  code  <- responceCode,
  body  <- data,
  whole <- pc = "idle" /\ call = "body" /\ rc = "ok"

\* However recv cuts the answer, and through recvHeader's erasing, the bytes kept
\* in buf and the pieces recvBody hands out, the client does what HttpResponse
\* says of the uncut answer (lines 298-363, 389-406, 446-468).
ResponseSpec == Response!Spec

\* A request returns to its caller whatever the server does or stops doing: the
\* time limits (lines 122, 375, 429) and the limits of size (345, 393) leave it no
\* place to wait in.  What the server sends is finite here.  A server that sends
\* interim responses for ever is outside: line 317 skips them without a bound.
RequestReturns == pc \in Waiting ~> pc \notin Waiting

\* After shutdown() the receive thread leaves recvBody's loop (line 263).
ShutdownEndsStream == (pc = "stream" /\ shut) ~> pc # "stream"

=============================================================================
