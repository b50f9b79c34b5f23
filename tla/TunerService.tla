---------------------------- MODULE TunerService ----------------------------
(***************************************************************************)
(* What a tuner promises the host, with no threads, no socket and no ring: *)
(* control calls that are made one at a time and may fail, a channel, and  *)
(* the bounded FIFO of TsFifo, which bytes enter only while a stream is    *)
(* received.  A stream begins on an empty queue and under a channel, is    *)
(* never received twice at once, and is over before the channel changes or *)
(* the tuner is closed.  Module CBonTuner is shown to implement this       *)
(* specification.                                                          *)
(***************************************************************************)
EXTENDS TsFifo

CONSTANTS
  Channels,  \* what SetChannel accepts
  None       \* no channel

VARIABLES
  call,       \* the control call in progress
  open,       \* the tuner is open, its channel list loaded
  channel,    \* the current channel
  receiving,  \* a stream is being received
  since       \* nPut when the latest stream began

control == <<call, open, channel, receiving, since>>
serviceVars == <<fifoVars, control>>

ServiceInit ==
  /\ Init
  /\ call = "none" /\ open = FALSE /\ channel = None
  /\ receiving = FALSE /\ since = 0

----------------------------------------------------------------------------
(* The control calls.                                                      *)

\* Both give the channel up at once; the stream may go on for a while.
OpenOrClose(op) ==
  /\ call = "none" /\ call' = op
  /\ channel' = None
  /\ UNCHANGED <<fifoVars, open, receiving, since>>

\* The old channel stays current until the new stream is there.
Tune ==
  /\ call = "none" /\ open /\ call' = "set"
  /\ UNCHANGED <<fifoVars, open, channel, receiving, since>>

\* CloseTuner is done, or OpenTuner has closed what was open before.
Closed ==
  /\ call \in {"open", "close"} /\ ~receiving
  /\ open' = FALSE
  /\ call' = IF call = "open" THEN "open" ELSE "none"
  /\ UNCHANGED <<fifoVars, channel, receiving, since>>

Opened ==
  /\ call = "open" /\ ~open
  /\ open' = TRUE /\ call' = "none"
  /\ UNCHANGED <<fifoVars, channel, receiving, since>>

\* An OpenTuner that failed closes the tuner.
OpenFailed ==
  /\ call = "open" /\ ~open
  /\ call' = "close"
  /\ UNCHANGED <<fifoVars, open, channel, receiving, since>>

Select(ch) ==
  /\ call = "set" /\ ~receiving
  /\ channel' = ch
  /\ UNCHANGED <<fifoVars, call, open, receiving, since>>

Tuned ==
  /\ call = "set" /\ channel # None
  /\ ~receiving /\ queue = << >>
  /\ call' = "none" /\ receiving' = TRUE /\ since' = nPut
  /\ UNCHANGED <<fifoVars, open, channel>>

TuneFailed ==
  /\ call = "set" /\ ~receiving
  /\ call' = "none" /\ channel' = None
  /\ UNCHANGED <<fifoVars, open, receiving, since>>

----------------------------------------------------------------------------
(* The stream, and the callers that take from it.                          *)

Receive(n) == receiving /\ Put(n) /\ UNCHANGED control

\* The server closed the stream, or a control call stopped it.
StreamEnds ==
  /\ receiving /\ receiving' = FALSE
  /\ UNCHANGED <<fifoVars, call, open, channel, since>>

Take(r) ==
  /\ Refuse(r) \/ \E n \in 0..MaxBlock : Get(r, n)
  /\ UNCHANGED control

Empty == Purge /\ UNCHANGED control

ServiceNext ==
  \/ \E op \in {"open", "close"} : OpenOrClose(op)
  \/ Tune \/ Closed \/ Opened \/ OpenFailed
  \/ \E ch \in Channels : Select(ch)
  \/ Tuned \/ TuneFailed
  \/ \E n \in 1..MaxBlock : Receive(n)
  \/ StreamEnds
  \/ \E r \in Readers : Take(r)
  \/ Empty

ServiceSpec == ServiceInit /\ [][ServiceNext]_serviceVars

=============================================================================
