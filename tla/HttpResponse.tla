---------------------------- MODULE HttpResponse ----------------------------
(***************************************************************************)
(* What a request over MirakcConnectBase promises its caller, with no      *)
(* buffers and no recv: the answer depends on the bytes the server sends   *)
(* and not on the pieces they arrive in.  Interim responses are skipped,   *)
(* the first other status is the answer's, and the body is the bytes right *)
(* after that header, each once and in order.  A request may fail at any   *)
(* point; it is never reported whole when it is not.  Module MirakcConnect *)
(* is shown to implement this specification.                               *)
(***************************************************************************)
EXTENDS HttpHeader

CONSTANTS
  Streams,   \* the byte streams a server may send
  NoCode     \* no status yet

VARIABLES
  phase,     \* "idle", or what is being read: "header", "body"
  sent,      \* what the server sends in answer to the request
  at,        \* how much of it has been read
  code,      \* the status of the answer
  body,      \* the body handed to the caller so far
  whole      \* the caller was told that this is all of it

responseVars == <<phase, sent, at, code, body, whole>>

Init ==
  /\ phase = "idle" /\ sent = << >> /\ at = 0
  /\ code = NoCode /\ body = << >> /\ whole = FALSE

\* A new call forgets the last answer.
Forget ==
  /\ phase = "idle"
  /\ code' = NoCode /\ body' = << >> /\ whole' = FALSE
  /\ UNCHANGED <<phase, sent, at>>

Request ==
  /\ phase = "idle" /\ body = << >> /\ ~whole
  /\ phase' = "header" /\ sent' \in Streams /\ at' = 0
  /\ UNCHANGED <<code, body, whole>>

SkipInterim(q) ==
  /\ phase = "header" /\ HeaderEnd(sent, at, q) /\ sent[at + 1] \in Interims
  /\ at' = q
  /\ UNCHANGED <<phase, sent, code, body, whole>>

\* Body bytes that came with the header may be handed over at once.
Answer(q, n) ==
  /\ phase = "header" /\ HeaderEnd(sent, at, q) /\ sent[at + 1] \in Finals
  /\ phase' = "body" /\ code' = sent[at + 1]
  /\ q + n <= Len(sent) /\ at' = q + n /\ body' = SubSeq(sent, q + 1, q + n)
  /\ UNCHANGED <<sent, whole>>

Deliver(n) ==
  /\ phase = "body" /\ at + n <= Len(sent)
  /\ at' = at + n
  /\ body' = body \o SubSeq(sent, at + 1, at + n)
  /\ UNCHANGED <<phase, sent, code, whole>>

Complete ==
  /\ phase = "body" /\ at = Len(sent)
  /\ phase' = "idle" /\ sent' = << >> /\ at' = 0 /\ whole' = TRUE
  /\ UNCHANGED <<code, body>>

\* The request failed, or the stream ended or was ended.
Stop ==
  /\ phase # "idle"
  /\ phase' = "idle" /\ sent' = << >> /\ at' = 0
  /\ body' \in {body, << >>}
  /\ UNCHANGED <<code, whole>>

Next ==
  \/ Forget \/ Request \/ Complete \/ Stop
  \/ \E q \in 1..Len(sent) : SkipInterim(q)
  \/ \E q \in 1..Len(sent), n \in 0..Len(sent) : Answer(q, n)
  \/ \E n \in 1..Len(sent) : Deliver(n)

Spec == Init /\ [][Next]_responseVars

=============================================================================
