--------------------------- MODULE CBonTunerProofs ---------------------------
(***************************************************************************)
(* Theorems about a tuner session, for every buffer size, every set of     *)
(* channels and of host threads, and every bound.                          *)
(***************************************************************************)
EXTENDS CBonTuner, GrabTsDataProofs

----------------------------------------------------------------------------
(* A tuner step is a step of the ring, or leaves the ring alone.           *)

\* Every step of a session is a step of the ring or leaves it unchanged.
LEMMA RingStep ==
  ASSUME ControlTypeOK, [TunerNext]_tunerVars
  PROVE  [Next]_vars
<1>1. CASE UNCHANGED vars
  BY <1>1
<1>2. CASE stop_Interrupt \/ stop_Reset \/ set_Purge
  BY <1>2 DEF stop_Interrupt, stop_Reset, set_Purge, Next
<1>3. CASE set_Create
  BY <1>3 DEF set_Create, Next
<1>4. CASE recvBody_Leftover
  <2>1. bufsize \in 1..DATA_BUF_SIZE
    BY <1>4, BufSizes DEF recvBody_Leftover, ControlTypeOK
  <2>2. QED
    BY <1>4, <2>1 DEF recvBody_Leftover, Next
<1>5. ASSUME NEW n \in 1..DATA_BUF_SIZE, recvBody_Data(n) PROVE [Next]_vars
  BY <1>5 DEF recvBody_Data, Next
<1>6. CASE recvBody_End \/ RecvThread_Resume \/ PurgeTsStream
  BY <1>6 DEF recvBody_End, RecvThread_Resume, PurgeTsStream, Next
<1>7. ASSUME NEW r \in Readers,
             GetTsStream_Enter(r) \/ GetTsStream_Copy(r) \/ GetTsStream_Leave(r)
      PROVE  [Next]_vars
  BY <1>7 DEF GetTsStream_Enter, GetTsStream_Copy, GetTsStream_Leave, Next
<1>8. QED
  BY <1>1, <1>2, <1>3, <1>4, <1>5, <1>6, <1>7
     DEF TunerNext, tunerVars, OpenTuner, CloseTuner, Close, SetChannel,
         stop_Shutdown, stop_Join, close_Free, open_Connect, set_Request,
         set_Update, GetTsStream_Closed, GetTsStream_Call, GetTsStream_Return

\* Every step that is not one of the control calls' leaves their state alone;
\* it may end the receive thread but starts none, and takes no decision on
\* the shutdown request.
DataStep ==
  \/ recvBody_Leftover \/ recvBody_End
  \/ \E n \in 1..DATA_BUF_SIZE : recvBody_Data(n)
  \/ RecvThread_Resume
  \/ \E r \in Readers :
       \/ GetTsStream_Closed(r) \/ GetTsStream_Call(r) \/ GetTsStream_Enter(r)
       \/ GetTsStream_Copy(r) \/ GetTsStream_Leave(r) \/ GetTsStream_Return(r)
  \/ PurgeTsStream

CallStep ==
  \/ OpenTuner \/ CloseTuner \/ \E ch \in Channels : SetChannel(ch)
  \/ stop_Shutdown \/ stop_Interrupt \/ stop_Join \/ stop_Reset
  \/ close_Free \/ open_Connect
  \/ set_Request \/ set_Update \/ set_Purge \/ set_Create

\* A step is one of a control call, or one of the data threads.
LEMMA TwoKinds == TunerNext <=> DataStep \/ CallStep
BY DEF TunerNext, DataStep, CallStep

\* A turn of the wait loop ends with the sender running, blocked or gone.
LEMMA PutTurnEnds ==
  ASSUME NEW n, PutTurn(n)
  PROVE  snd' \in {Running, Gone, [pc |-> "blocked", size |-> n]}
BY DEF PutTurn, Store

\* What the data threads leave alone.
LEMMA DataStepFrame ==
  ASSUME ThreadTypeOK, DataStep \/ UNCHANGED tunerVars
  PROVE  /\ UNCHANGED <<ctl, calls, conn, s, shut, session, m_bShutdown>>
         /\ bufsize' \in {0, bufsize}
         /\ snd'.pc # "gone" => snd.pc # "gone"
<1> USE DEF ThreadTypeOK
<1>1. CASE recvBody_Leftover \/ \E n \in 1..DATA_BUF_SIZE : recvBody_Data(n)
  BY <1>1 DEF recvBody_Leftover, recvBody_Data, put_TsStream, socket
<1>2. CASE recvBody_End
  BY <1>2 DEF recvBody_End, RecvThread_End, socket, Gone
<1>3. CASE RecvThread_Resume
  BY <1>3 DEF RecvThread_Resume, put_Resume, put_SpuriousWake, socket
<1>4. ASSUME NEW r \in Readers,
             GetTsStream_Enter(r) \/ GetTsStream_Copy(r) \/ GetTsStream_Leave(r)
      PROVE  /\ UNCHANGED <<ctl, calls, conn, s, shut, session, m_bShutdown, bufsize>>
             /\ snd'.pc # "gone" => snd.pc # "gone"
  <2>1. snd' = snd \/ snd' = SignalGet(snd)
    BY <1>4 DEF GetTsStream_Enter, GetTsStream_Copy, GetTsStream_Leave, get_Enter,
                get_Copy, get_Leave
  <2>2. snd'.pc # "gone" => snd.pc # "gone"
    BY <2>1 DEF SignalGet
  <2>3. QED
    BY <1>4, <2>2 DEF GetTsStream_Enter, GetTsStream_Copy, GetTsStream_Leave,
                      get_Enter, get_Copy, get_Leave, socket
<1>5. CASE PurgeTsStream
  BY <1>5 DEF PurgeTsStream, purge_TsStream, SignalGet, socket
<1>6. ASSUME NEW r \in Readers, GetTsStream_Closed(r) \/ GetTsStream_Call(r)
                                  \/ GetTsStream_Return(r)
      PROVE  /\ UNCHANGED <<ctl, calls, conn, s, shut, session, m_bShutdown, bufsize>>
             /\ snd' = snd
  BY <1>6 DEF GetTsStream_Closed, GetTsStream_Call, GetTsStream_Return, tunerVars,
              vars, socket
<1>7. CASE UNCHANGED tunerVars
  BY <1>7 DEF tunerVars, vars, socket
<1>8. QED
  BY <1>1, <1>2, <1>3, <1>4, <1>5, <1>6, <1>7 DEF DataStep

----------------------------------------------------------------------------
(* The control calls.                                                      *)

\* The receive thread exists only while the control thread is outside a call
\* or on its way to join it, and over an open connection; a shutdown request
\* exists only on that way.
ReceiverOwned ==
  /\ joinable <=> m_bRecvThreadValid
  /\ snd.pc # "gone" => joinable
  /\ joinable => /\ s # 0 /\ conn /\ g_pType
                 /\ ctl.pc \in {"idle", "stop", "interrupt", "join"}
  /\ ctl.pc \in {"interrupt", "join"} => joinable
  /\ m_bShutdown => ctl.pc \in {"join", "reset"}

\* Which call each place belongs to, and what the call has done on its way.
CallShape ==
  /\ ctl.pc = "idle" <=> ctl.op = "none"
  /\ ctl.pc \in {"request", "update", "purge", "create"} => ctl.op = "set"
  /\ ctl.pc \in {"free", "connect"} => ctl.op \in {"open", "close"}
  /\ ctl.pc = "connect" => ctl.op = "open" /\ ~conn /\ ~g_pType
  /\ ctl.op = "set" => conn /\ g_pType /\ ctl.ch \in Channels /\ calls # 0
  /\ ctl.op \in {"open", "close"} => m_dwCurChannel = None
  /\ ctl.pc \in {"update", "purge", "create"} => s # 0 /\ ~shut
  /\ ctl.pc \in {"purge", "create"} => m_dwCurChannel # None

ControlInv == ControlTypeOK /\ ReceiverOwned /\ CallShape /\ IdleConsistent

\* Where a call may go next is a place.
LEMMA CallTypes ==
  ASSUME NEW c \in CallStates
  PROVE  /\ \A pc \in CallPlaces : [c EXCEPT !.pc = pc] \in CallStates
         /\ [c EXCEPT !.pc = "stop", !.op = "close"] \in CallStates
         /\ Idle \in CallStates
         /\ \A op \in {"open", "close", "set"}, ch \in Channels \cup {None} :
              [pc |-> "stop", op |-> op, ch |-> ch] \in CallStates
         /\ {"stop", "interrupt", "join", "reset", "free", "connect", "request",
             "update", "purge", "create"} \subseteq CallPlaces
BY DEF CallStates, CallPlaces, Idle

\* A tuner that was just constructed satisfies the control invariant.
LEMMA ControlInit == TunerInit => ControlInv
<1> SUFFICES ASSUME TunerInit PROVE ControlInv
  OBVIOUS
<1>1. ControlTypeOK
  <2>1. 0 \in 0..MaxCalls /\ 0 \in 0..DATA_BUF_SIZE
    BY BufSizes, TunerBounds
  <2>2. QED
    BY <2>1 DEF TunerInit, ControlTypeOK, CallStates, CallPlaces, Idle
<1>2. ReceiverOwned
  BY DEF TunerInit, Init, ReceiverOwned, Gone, Idle
<1>3. CallShape /\ IdleConsistent
  BY DEF TunerInit, CallShape, IdleConsistent, Idle
<1>4. QED
  BY <1>1, <1>2, <1>3 DEF ControlInv

\* The values that the control calls assign have the types of their variables.
LEMMA ControlTypeStep ==
  ASSUME ControlTypeOK, CallStep
  PROVE  ControlTypeOK'
<1> USE DEF ControlTypeOK
<1>0. 0 \in 0..MaxCalls /\ 0 \in 0..DATA_BUF_SIZE /\ None \in Channels \cup {None}
  BY BufSizes, TunerBounds
<1>1. CASE OpenTuner \/ CloseTuner
  <2>1. PICK op \in {"open", "close", "set"} : Close(op)
    BY <1>1 DEF OpenTuner, CloseTuner
  <2>2. ctl' \in CallStates
    BY <1>0, <2>1, CallTypes DEF Close, Begin
  <2>3. calls' \in 0..MaxCalls
    BY <2>1, TunerBounds DEF Close, Begin
  <2>4. QED
    BY <1>0, <2>1, <2>2, <2>3 DEF Close, socket
<1>2. ASSUME NEW ch \in Channels, SetChannel(ch) PROVE ControlTypeOK'
  <2>1. ctl' = [pc |-> "stop", op |-> "set", ch |-> ch]
    BY <1>2 DEF SetChannel, Begin
  <2>2. ctl' \in CallStates
    BY <2>1, CallTypes
  <2>3. calls' \in 0..MaxCalls
    BY <1>2, TunerBounds DEF SetChannel, Begin
  <2>4. QED
    BY <1>2, <2>2, <2>3 DEF SetChannel, socket, session
<1>3. CASE stop_Shutdown \/ stop_Interrupt \/ stop_Join \/ stop_Reset
  <2>1. ctl' \in CallStates /\ shut' \in BOOLEAN
    BY <1>3, CallTypes
       DEF stop_Shutdown, stop_Interrupt, stop_Join, stop_Reset, Goto, AfterStop, socket
  <2>2. /\ UNCHANGED <<calls, s, conn, bufsize, g_pType, m_dwCurChannel>>
        /\ m_bRecvThreadValid' \in BOOLEAN /\ joinable' \in BOOLEAN
    BY <1>3 DEF stop_Shutdown, stop_Interrupt, stop_Join, stop_Reset, Goto, socket, session
  <2>3. QED
    BY <2>1, <2>2
<1>4. CASE close_Free
  <2>1. ctl' \in CallStates /\ UNCHANGED calls
    BY <1>4, CallTypes DEF close_Free, Goto, Return
  <2>2. QED
    BY <1>0, <1>4, <2>1 DEF close_Free
<1>5. CASE open_Connect
  <2>1. ctl' \in CallStates /\ UNCHANGED calls
    BY <1>5, CallTypes DEF open_Connect, Return
  <2>2. g_pType' \in BOOLEAN /\ conn' \in BOOLEAN
    BY <1>5 DEF open_Connect
  <2>3. QED
    BY <1>5, <2>1, <2>2 DEF open_Connect
<1>6. CASE set_Request
  <2>1. ctl' \in CallStates /\ UNCHANGED calls
    BY <1>6, CallTypes DEF set_Request, Goto, Return
  <2>2. /\ s' \in {0, calls} /\ shut' = FALSE /\ bufsize' \in 0..DATA_BUF_SIZE
        /\ m_dwCurChannel' \in {m_dwCurChannel, None}
    BY <1>0, <1>6 DEF set_Request
  <2>3. QED
    BY <1>0, <1>6, <2>1, <2>2 DEF set_Request
<1>7. CASE set_Update \/ set_Purge
  <2>1. ctl' \in CallStates /\ UNCHANGED calls
    BY <1>7, CallTypes DEF set_Update, set_Purge, Goto
  <2>2. m_dwCurChannel' \in Channels \cup {None}
    BY <1>7 DEF set_Update, set_Purge, session, CallStates
  <2>3. UNCHANGED <<s, conn, shut, bufsize, g_pType, m_bRecvThreadValid, joinable>>
    BY <1>7 DEF set_Update, set_Purge, session, socket
  <2>4. QED
    BY <2>1, <2>2, <2>3
<1>8. CASE set_Create
  <2>1. ctl' \in CallStates /\ UNCHANGED <<calls, g_pType>>
    BY <1>8, CallTypes DEF set_Create, Return
  <2>2. /\ s' \in {0, s} /\ conn' = conn /\ shut' \in {FALSE, shut}
        /\ bufsize' \in {0, bufsize} /\ m_dwCurChannel' \in {m_dwCurChannel, None}
        /\ m_bRecvThreadValid' \in {TRUE, m_bRecvThreadValid}
        /\ joinable' \in {TRUE, joinable}
    BY <1>8 DEF set_Create, socket
  <2>3. QED
    BY <1>0, <2>1, <2>2
<1>9. QED
  BY <1>1, <1>2, <1>3, <1>4, <1>5, <1>6, <1>7, <1>8 DEF CallStep

\* A call begins, or what a call does to the ring.
LEMMA GotoKeeps ==
  ASSUME ControlTypeOK, NEW pc, Goto(pc)
  PROVE  ctl'.pc = pc /\ ctl'.op = ctl.op /\ ctl'.ch = ctl.ch /\ calls' = calls
BY DEF ControlTypeOK, CallStates, Goto

\* Each step of a control call keeps the owner of the receive thread, the shape
\* of the call, and what holds between calls.
LEMMA ControlStepInv ==
  ASSUME ThreadTypeOK, ControlInv, CallStep
  PROVE  ReceiverOwned' /\ CallShape' /\ IdleConsistent'
<1> DEFINE Goal == ReceiverOwned' /\ CallShape' /\ IdleConsistent'
<1> SUFFICES Goal
  OBVIOUS
<1> USE DEF ControlInv, Return, Idle
<1>0. /\ ControlTypeOK /\ ReceiverOwned /\ CallShape /\ IdleConsistent
      /\ ctl.pc \in CallPlaces /\ ctl.op \in {"none", "open", "close", "set"}
  BY DEF ControlTypeOK, CallStates
<1>1. CASE OpenTuner \/ CloseTuner
  <2>1. PICK op \in {"open", "close"} : Close(op)
    BY <1>1 DEF OpenTuner, CloseTuner
  <2>2. /\ ctl.pc = "idle" /\ ctl'.pc = "stop" /\ ctl'.op = op /\ m_dwCurChannel' = None
        /\ UNCHANGED <<snd, m_bShutdown, conn, s, g_pType, m_bRecvThreadValid, joinable>>
    BY <2>1 DEF Close, Begin, socket, vars
  <2>3. QED
    BY <2>2 DEF ReceiverOwned, CallShape, IdleConsistent
<1>2. ASSUME NEW ch \in Channels, SetChannel(ch) PROVE Goal
  <2>1. /\ ctl.pc = "idle" /\ ctl'.pc = "stop" /\ ctl'.op = "set" /\ ctl'.ch \in Channels
        /\ calls' # 0 /\ conn /\ g_pType
        /\ UNCHANGED <<snd, m_bShutdown, conn, s, g_pType, m_bRecvThreadValid, joinable>>
    BY <1>2, TunerBounds DEF SetChannel, Begin, socket, session, vars, ControlTypeOK
  <2>2. QED
    BY <2>1 DEF ReceiverOwned, CallShape, IdleConsistent
<1>3. CASE stop_Shutdown
  <2>1. /\ ctl.pc = "stop" /\ ctl'.op = ctl.op /\ ctl'.ch = ctl.ch /\ calls' = calls
        /\ ctl'.pc = IF m_bRecvThreadValid THEN "interrupt" ELSE AfterStop
        /\ UNCHANGED <<snd, m_bShutdown, conn, s, g_pType, m_bRecvThreadValid, joinable,
                       m_dwCurChannel>>
    BY <1>0, <1>3, GotoKeeps DEF stop_Shutdown, session, vars
  <2>2. QED
    BY <1>0, <2>1 DEF AfterStop, ReceiverOwned, CallShape, IdleConsistent
<1>4. CASE stop_Interrupt
  <2>1. /\ ctl.pc = "interrupt" /\ ctl'.pc = "join" /\ ctl'.op = ctl.op
        /\ ctl'.ch = ctl.ch /\ calls' = calls
        /\ UNCHANGED <<conn, s, g_pType, m_bRecvThreadValid, joinable, m_dwCurChannel>>
    BY <1>0, <1>4, GotoKeeps DEF stop_Interrupt, socket, session
  <2>2. snd'.pc # "gone" => snd.pc # "gone"
    BY <1>4 DEF stop_Interrupt, RequestShutdown, SignalGet, ThreadTypeOK
  <2>3. QED
    BY <2>1, <2>2 DEF ReceiverOwned, CallShape, IdleConsistent
<1>5. CASE stop_Join
  <2>1. /\ ctl.pc = "join" /\ ctl'.pc = "reset" /\ ctl'.op = ctl.op /\ snd.pc = "gone"
        /\ ctl'.ch = ctl.ch /\ calls' = calls /\ ~joinable' /\ ~m_bRecvThreadValid'
        /\ UNCHANGED <<snd, m_bShutdown, conn, s, g_pType, m_dwCurChannel>>
    BY <1>0, <1>5, GotoKeeps DEF stop_Join, socket, vars
  <2>2. QED
    BY <2>1 DEF ReceiverOwned, CallShape, IdleConsistent
<1>6. CASE stop_Reset
  <2>1. /\ ctl.pc = "reset" /\ ctl'.pc = AfterStop /\ ctl'.op = ctl.op
        /\ ctl'.ch = ctl.ch /\ calls' = calls /\ ~m_bShutdown'
        /\ UNCHANGED <<snd, conn, s, g_pType, m_bRecvThreadValid, joinable,
                       m_dwCurChannel>>
    BY <1>0, <1>6, GotoKeeps DEF stop_Reset, ResetShutdown, socket, session
  <2>2. QED
    BY <1>0, <2>1 DEF AfterStop, ReceiverOwned, CallShape, IdleConsistent
<1>7. CASE close_Free
  <2>1. /\ ctl.pc = "free" /\ ~conn' /\ ~g_pType' /\ ctl.op \in {"open", "close"}
        /\ m_dwCurChannel = None /\ ~joinable
        /\ UNCHANGED <<snd, m_bShutdown, m_bRecvThreadValid, joinable, m_dwCurChannel>>
    BY <1>0, <1>7 DEF close_Free, vars, CallShape, ReceiverOwned
  <2>2. \/ ctl'.pc = "connect" /\ ctl'.op = "open"
        \/ ctl'.pc = "idle" /\ ctl'.op = "none"
    BY <1>0, <1>7, GotoKeeps DEF close_Free
  <2>3. QED
    BY <1>0, <2>1, <2>2 DEF ReceiverOwned, CallShape, IdleConsistent
<1>8. CASE open_Connect
  <2>1. /\ ctl.pc = "connect" /\ m_dwCurChannel = None /\ ~joinable
        /\ UNCHANGED <<snd, m_bShutdown, m_bRecvThreadValid, joinable, m_dwCurChannel>>
    BY <1>0, <1>8 DEF open_Connect, vars, CallShape, ReceiverOwned
  <2>2. \/ ctl'.pc = "idle" /\ ctl'.op = "none" /\ conn' /\ g_pType'
        \/ ctl'.pc = "stop" /\ ctl'.op = "close"
    <3>1. CASE conn' = TRUE /\ g_pType' = TRUE /\ ctl' = Idle
      BY <3>1
    <3>2. CASE ctl' = [ctl EXCEPT !.pc = "stop", !.op = "close"]
      BY <1>0, <3>2 DEF ControlTypeOK, CallStates
    <3>3. QED
      BY <1>8, <3>1, <3>2 DEF open_Connect
  <2>3. QED
    BY <1>0, <2>1, <2>2 DEF ReceiverOwned, CallShape, IdleConsistent
<1>9. CASE set_Request
  <2>1. /\ ctl.pc = "request" /\ ~joinable /\ ctl.op = "set" /\ calls # 0
        /\ UNCHANGED <<snd, m_bShutdown, conn, g_pType, m_bRecvThreadValid, joinable>>
    BY <1>0, <1>9 DEF set_Request, ReceiverOwned, CallShape, vars
  <2>2. \/ /\ s' # 0 /\ ~shut' /\ m_dwCurChannel' = m_dwCurChannel /\ calls' = calls
           /\ ctl'.pc = "update" /\ ctl'.op = ctl.op /\ ctl'.ch = ctl.ch
        \/ m_dwCurChannel' = None /\ ctl'.pc = "idle" /\ ctl'.op = "none"
    BY <1>0, <1>9, <2>1, GotoKeeps DEF set_Request
  <2>3. QED
    BY <1>0, <2>1, <2>2 DEF ReceiverOwned, CallShape, IdleConsistent
<1>10. CASE set_Update
  <2>1. /\ ctl.pc = "update" /\ ctl'.pc = "purge" /\ ctl'.op = ctl.op /\ ctl'.ch = ctl.ch
        /\ calls' = calls /\ m_dwCurChannel' # None
        /\ UNCHANGED <<snd, m_bShutdown, conn, s, shut, g_pType, m_bRecvThreadValid,
                       joinable>>
    BY <1>0, <1>10, GotoKeeps, TunerBounds DEF set_Update, CallShape, socket, vars
  <2>2. QED
    BY <1>0, <2>1 DEF ReceiverOwned, CallShape, IdleConsistent
<1>11. CASE set_Purge
  <2>1. /\ ctl.pc = "purge" /\ ctl'.pc = "create" /\ ctl'.op = ctl.op
        /\ ctl'.ch = ctl.ch /\ calls' = calls
        /\ UNCHANGED <<m_bShutdown, conn, s, shut, g_pType, m_bRecvThreadValid, joinable,
                       m_dwCurChannel>>
    BY <1>0, <1>11, GotoKeeps DEF set_Purge, purge_TsStream, socket, session
  <2>2. snd'.pc # "gone" => snd.pc # "gone"
    BY <1>11 DEF set_Purge, purge_TsStream, SignalGet, ThreadTypeOK
  <2>3. QED
    BY <1>0, <2>1, <2>2 DEF ReceiverOwned, CallShape, IdleConsistent
<1>12. CASE set_Create
  <2>1. /\ ctl.pc = "create" /\ ctl'.pc = "idle" /\ ctl'.op = "none" /\ ~joinable
        /\ snd.pc = "gone" /\ ~m_bShutdown /\ conn /\ g_pType /\ s # 0
        /\ m_dwCurChannel # None /\ g_pType' = g_pType
    BY <1>0, <1>12 DEF set_Create, ReceiverOwned, CallShape
  <2>2. /\ conn' = conn /\ m_bShutdown' = m_bShutdown
        /\ \/ /\ joinable' = TRUE /\ m_bRecvThreadValid' = TRUE
              /\ UNCHANGED <<s, m_dwCurChannel>>
           \/ /\ m_dwCurChannel' = None
              /\ UNCHANGED <<snd, m_bRecvThreadValid, joinable>>
    BY <1>12 DEF set_Create, RecvThread_Start, socket, vars
  <2>3. QED
    BY <1>0, <2>1, <2>2 DEF ReceiverOwned, CallShape, IdleConsistent
<1>13. QED
  BY <1>1, <1>2, <1>3, <1>4, <1>5, <1>6, <1>7, <1>8, <1>9, <1>10, <1>11, <1>12
     DEF CallStep

\* Every step keeps the control invariant.
LEMMA ControlInvStep ==
  ASSUME ThreadTypeOK, ControlInv, [TunerNext]_tunerVars
  PROVE  ControlInv'
<1>1. CASE CallStep
  BY <1>1, ControlTypeStep, ControlStepInv DEF ControlInv
<1>2. CASE DataStep \/ UNCHANGED tunerVars
  BY <1>2, DataStepFrame, BufSizes
     DEF ControlInv, ControlTypeOK, ReceiverOwned, CallShape, IdleConsistent, session
<1>3. QED
  BY <1>1, <1>2, TwoKinds

----------------------------------------------------------------------------
(* With any number of host threads.                                        *)

TunerInv == TypeInv /\ ControlInv

\* A tuner that was just constructed satisfies the invariant.
LEMMA TunerInvInit == TunerInit => TunerInv
BY TypeInit, ControlInit DEF TunerInit, TunerInv

\* Every step keeps the invariant, and is one the ring allows.
LEMMA TunerInvStep == TunerInv /\ [TunerNext]_tunerVars => TunerInv' /\ [Next]_vars
<1> SUFFICES ASSUME TunerInv, [TunerNext]_tunerVars
             PROVE  TunerInv' /\ [Next]_vars
  OBVIOUS
<1>1. [Next]_vars
  BY RingStep DEF TunerInv, ControlInv
<1>2. TypeInv'
  BY <1>1, TypeStep DEF TunerInv
<1>3. ControlInv'
  BY ControlInvStep DEF TunerInv, TypeInv, TypeOK
<1>4. QED
  BY <1>1, <1>2, <1>3 DEF TunerInv

\* A tuner uses its ring buffer only as module GrabTsData allows: whatever is
\* proved there holds of the ring inside every session.
THEOREM TunerImplementsRing == TunerSpec => Spec
<1>1. TunerInit => Init
  BY DEF TunerInit
<1>2. QED
  BY <1>1, TunerInvInit, TunerInvStep, PTL DEF TunerSpec, Spec

\* Which steps move data or start and end a receive thread, seen from a caller.
LEMMA CallerStep ==
  ASSUME CallerTypeOK, RingTypeOK, [TunerNext]_tunerVars
  PROVE  /\ first' \in {first, nPut}
         /\ \A r \in Readers :
              app'[r].from \in {app[r].from, first, 0}
         /\ app' \in [Readers -> [pc : {"idle", "called", "inside", "holding"},
                                  from : 0..MaxBytes]]
<1> USE DEF CallerTypeOK, RingTypeOK
<1>0. 0 \in 0..MaxBytes
  BY Bounds
<1>1. CASE CallStep \/ UNCHANGED tunerVars
  <2>1. app' = app /\ first' \in {first, nPut}
    BY <1>1 DEF CallStep, tunerVars, OpenTuner, CloseTuner, Close, SetChannel,
         stop_Shutdown, stop_Interrupt, stop_Join, stop_Reset, close_Free,
         open_Connect, set_Request, set_Update, set_Purge, set_Create, session
  <2>2. QED
    BY <2>1
<1>2. CASE DataStep
  <2>1. first' = first
    BY <1>2 DEF DataStep, recvBody_Leftover, recvBody_End, recvBody_Data,
         RecvThread_Resume, GetTsStream_Closed, GetTsStream_Call, GetTsStream_Enter,
         GetTsStream_Copy, GetTsStream_Leave, GetTsStream_Return, PurgeTsStream,
         session, tunerVars
  <2>2. \/ app' = app
        \/ \E r \in Readers :
             \/ app' = [app EXCEPT ![r] = [pc |-> "called", from |-> first]]
             \/ app' = [app EXCEPT ![r].pc = "inside"]
             \/ app' = [app EXCEPT ![r].pc = "holding"]
             \/ app' = [app EXCEPT ![r] = NotCalling]
    BY <1>2 DEF DataStep, recvBody_Leftover, recvBody_End, recvBody_Data,
         RecvThread_Resume, GetTsStream_Closed, GetTsStream_Call, GetTsStream_Enter,
         GetTsStream_Copy, GetTsStream_Leave, GetTsStream_Return, PurgeTsStream,
         session, tunerVars
  <2>3. QED
    BY <1>0, <2>1, <2>2 DEF NotCalling
<1>3. QED
  BY <1>1, <1>2, TwoKinds

\* Every variable of a session keeps its type.
THEOREM TunerTypeCorrect == TunerSpec => []TunerTypeOK
<1>1. TunerInit => CallerTypeOK
  <2>1. 0 \in 0..MaxBytes
    BY Bounds
  <2>2. QED
    BY <2>1 DEF TunerInit, CallerTypeOK, NotCalling
<1>2. TunerInv /\ CallerTypeOK /\ [TunerNext]_tunerVars => CallerTypeOK'
  BY CallerStep DEF TunerInv, TypeInv, TypeOK, RingTypeOK, CallerTypeOK
<1>3. TunerInv /\ CallerTypeOK => TunerTypeOK
  BY DEF TunerInv, TypeInv, ControlInv, TunerTypeOK
<1>4. QED
  BY <1>1, <1>2, <1>3, TunerInvInit, TunerInvStep, PTL DEF TunerSpec

\* Between control calls the tuner is either closed, open and idle, or tuned
\* with a receive thread to join, and its fields agree on which.
THEOREM IdleIsConsistent == TunerSpec => []IdleConsistent
<1>1. TunerInv => IdleConsistent
  BY DEF TunerInv, ControlInv
<1>2. QED
  BY <1>1, TunerInvInit, TunerInvStep, PTL DEF TunerSpec

\* The descriptor of the stream is closed or replaced only while no receive
\* thread exists, whatever fails in OpenTuner and SetChannel: the rule at
\* http_proc.hpp:36-42.
THEOREM SocketOwned == TunerSpec => CloseOnlyWhenNoReceiver
<1>1. ASSUME TunerInv, TunerNext, s # 0, s' # s PROVE snd.pc = "gone" /\ ~joinable
  <2>1. CASE DataStep
    BY <1>1, <2>1, DataStepFrame DEF TunerInv, TypeInv, TypeOK
  <2>2. CASE CallStep
    <3>1. close_Free \/ set_Request \/ set_Create
      BY <1>1, <2>2 DEF CallStep, OpenTuner, CloseTuner, Close, SetChannel,
           stop_Shutdown, stop_Interrupt, stop_Join, stop_Reset, open_Connect,
           set_Update, set_Purge, socket
    <3>2. ctl.pc \in {"free", "request", "create"}
      BY <3>1 DEF close_Free, set_Request, set_Create
    <3>3. QED
      BY <1>1, <3>2 DEF TunerInv, ControlInv, ReceiverOwned
  <2>3. QED
    BY <1>1, <2>1, <2>2, TwoKinds
<1>2. TunerInv /\ [TunerNext]_tunerVars
        => [s # 0 /\ s' # s => snd.pc = "gone" /\ ~joinable]_tunerVars
  BY <1>1
<1>3. QED
  BY <1>2, TunerInvInit, TunerInvStep, PTL DEF TunerSpec, CloseOnlyWhenNoReceiver

----------------------------------------------------------------------------
(* With one thread in GetTsStream at a time: what a new session finds, and   *)
(* which session a block belongs to.                                         *)

\* The counts of bytes are natural numbers.
LEMMA CountsAreNat == TypeInv => Used \in Nat /\ nPut \in Nat
BY StreamFacts

\* Whatever happens to the ring, the byte at its front only gets newer; and
\* with no receive thread the ring does not fill.
LEMMA FrontMoves ==
  ASSUME StreamInv, SingleReader, [Next]_vars
  PROVE  /\ nPut - Used <= nPut' - Used'
         /\ snd.pc = "gone" => Used' <= Used
         /\ Used \in Nat /\ Used' \in Nat /\ nPut \in Nat /\ nPut' \in Nat
<1>1. Used \in Nat /\ nPut \in Nat /\ m_nPush \in Cells /\ m_nPull \in Cells
  BY StreamFacts DEF StreamInv
<1>2. Used' \in Nat /\ nPut' \in Nat
  <2>1. TypeInv'
    BY TypeStep DEF StreamInv
  <2>2. (TypeInv => Used \in Nat /\ nPut \in Nat)'
    BY CountsAreNat, PTL
  <2>3. QED
    BY <2>1, <2>2
<1> DEFINE Goal == nPut - Used <= nPut' - Used' /\ (snd.pc = "gone" => Used' <= Used)
<1> SUFFICES Goal
  BY <1>1, <1>2
<1>3. CASE UNCHANGED <<m_nPush, m_nPull, nPut>>
  BY <1>1, <1>3 DEF Used
<1>4. ASSUME NEW n \in 1..DATA_BUF_SIZE, PutTurn(n), snd.pc # "gone" PROVE Goal
  <2>1. CASE Avail >= n /\ Store(n)
    <3>1. n \in Cells /\ n \in Nat
      BY BufSizes DEF Cells
    <3>2. nPut' = nPut + n /\ m_nPush' = Cell(m_nPush, n) /\ m_nPull' = m_nPull
      BY <1>1, <2>1, <3>1, NextIsCell DEF Store
    <3>3. Used' = Used + n
      BY <1>1, <2>1, <3>1, <3>2, PushGrows DEF Used, Avail
    <3>4. QED
      BY <1>1, <1>4, <3>1, <3>2, <3>3
  <2>2. CASE ~(Avail >= n /\ Store(n))
    BY <1>3, <1>4, <2>2 DEF PutTurn, ring
  <2>3. QED
    BY <2>1, <2>2
<1>5. ASSUME NEW n \in 1..DATA_BUF_SIZE, put_TsStream(n) PROVE Goal
  BY <1>4, <1>5 DEF put_TsStream
<1>6. CASE put_Resume
  BY <1>4, <1>6 DEF put_Resume, StreamInv, TypeInv, PutFits
<1>7. ASSUME NEW r \in Readers, get_Leave(r) PROVE Goal
  <2>1. CASE m_bPurge
    BY <1>3, <1>7, <2>1 DEF get_Leave, PurgedMeanwhile
  <2>2. CASE ~m_bPurge
    <3>1. Used' = Used - BlockSize(r) /\ nPut' = nPut
      BY <1>7, <2>2, LeaveTakes DEF get_Leave
    <3>2. BlockSize(r) \in Nat
      BY StreamFacts DEF StreamInv
    <3>3. QED
      BY <1>1, <3>1, <3>2
  <2>3. QED
    BY <2>1, <2>2
<1>8. CASE purge_TsStream
  <2>1. Used' = 0 /\ nPut' = nPut
    BY <1>8, BufSizes DEF purge_TsStream, Used, Dist
  <2>2. QED
    BY <1>1, <2>1
<1>9. QED
  BY <1>3, <1>5, <1>6, <1>7, <1>8
     DEF Next, put_SpuriousWake, RecvThread_End, RecvThread_Start, get_Enter,
         get_Copy, RequestShutdown, ResetShutdown, Wait_TsStream, Wait_Return,
         get_Bitrate_Sample, get_Bitrate_Update, Tick, vars, ring

\* SetChannel purges before it creates the receive thread, and nothing is put
\* between the two.
PurgedFirst == ctl.pc = "create" => Used = 0

\* Every step keeps the ring empty between the purge and pthread_create.
LEMMA PurgedFirstStep ==
  ASSUME TunerInv, StreamInv, SingleReader, PurgedFirst, [TunerNext]_tunerVars
  PROVE  PurgedFirst'
<1>1. [Next]_vars
  BY TunerInvStep
<1>2. CASE set_Purge
  BY <1>2, BufSizes DEF set_Purge, purge_TsStream, Used, Dist, PurgedFirst
<1>3. CASE ctl' = ctl
  <2>1. ctl.pc = "create" => snd.pc = "gone" /\ Used = 0
    BY DEF TunerInv, ControlInv, ReceiverOwned, PurgedFirst
  <2>2. ctl.pc = "create" => Used' = 0
    BY <1>1, <2>1, FrontMoves
  <2>3. QED
    BY <1>3, <2>2 DEF PurgedFirst
<1>4. CASE ctl'.pc # "create"
  BY <1>4 DEF PurgedFirst
<1>5. CASE DataStep \/ UNCHANGED tunerVars
  BY <1>3, <1>5, DataStepFrame DEF TunerInv, TypeInv, TypeOK
<1>6. CASE CallStep /\ ~set_Purge
  <2>0. ControlTypeOK
    BY DEF TunerInv, ControlInv
  <2>1. CASE OpenTuner \/ CloseTuner \/ \E ch \in Channels : SetChannel(ch)
    BY <1>4, <2>1 DEF OpenTuner, CloseTuner, Close, SetChannel, Begin
  <2>2. CASE stop_Shutdown \/ stop_Interrupt \/ stop_Join \/ stop_Reset \/ set_Update
    <3>1. \E pc \in {"interrupt", "join", "reset", "request", "free", "purge"} : Goto(pc)
      BY <2>2 DEF stop_Shutdown, stop_Interrupt, stop_Join, stop_Reset, set_Update,
                  AfterStop
    <3>2. QED
      BY <1>4, <2>0, <3>1, GotoKeeps
  <2>3. CASE close_Free \/ set_Request \/ set_Create
    <3>1. (\E pc \in {"connect", "update"} : Goto(pc)) \/ ctl' = Idle
      BY <2>3 DEF close_Free, set_Request, set_Create, Return
    <3>2. QED
      BY <1>4, <2>0, <3>1, GotoKeeps DEF Idle
  <2>4. CASE open_Connect
    <3>1. ctl' = Idle \/ ctl' = [ctl EXCEPT !.pc = "stop", !.op = "close"]
      BY <2>4 DEF open_Connect, Return
    <3>2. CASE ctl' = Idle
      BY <1>4, <3>2 DEF Idle
    <3>3. CASE ctl' = [ctl EXCEPT !.pc = "stop", !.op = "close"]
      BY <1>4, <2>0, <3>3 DEF ControlTypeOK, CallStates
    <3>4. QED
      BY <3>1, <3>2, <3>3
  <2>5. QED
    BY <1>6, <2>1, <2>2, <2>3, <2>4 DEF CallStep
<1>7. QED
  BY <1>2, <1>5, <1>6, TwoKinds

\* A receive thread starts on an empty ring, over a socket nobody shut down,
\* with no request to stop left over from the session before.
THEOREM SessionStartsClean ==
  ASSUME SingleReader
  PROVE  TunerSpec => StartsClean
<1> DEFINE Clean == snd.pc = "gone" /\ snd'.pc = "run" =>
                      ~m_bShutdown /\ Used = 0 /\ s # 0 /\ ~shut /\ ~joinable
<1>1. TunerInit => PurgedFirst
  BY DEF TunerInit, PurgedFirst, Idle
<1>2. TunerInv /\ StreamInv /\ PurgedFirst /\ [TunerNext]_tunerVars
        => StreamInv' /\ PurgedFirst'
  BY PurgedFirstStep, TunerInvStep, StreamStep
<1>3. ASSUME TunerInv, PurgedFirst, [TunerNext]_tunerVars PROVE Clean
  <2> SUFFICES ASSUME snd.pc = "gone", snd'.pc = "run"
               PROVE  ctl.pc = "create"
    BY <1>3 DEF TunerInv, ControlInv, ReceiverOwned, CallShape, PurgedFirst
  <2>1. CallStep
    BY <1>3, DataStepFrame, TwoKinds DEF TunerInv, TypeInv, TypeOK
  <2>2. snd # snd'
    OBVIOUS
  <2>3. set_Create
    BY <2>1, <2>2 DEF CallStep, OpenTuner, CloseTuner, Close, SetChannel,
         stop_Shutdown, stop_Interrupt, stop_Join, stop_Reset, close_Free,
         open_Connect, set_Request, set_Update, set_Purge, RequestShutdown,
         ResetShutdown, purge_TsStream, SignalGet, vars
  <2>4. QED
    BY <2>3 DEF set_Create
<1>4. TunerInv /\ PurgedFirst /\ [TunerNext]_tunerVars => [Clean]_tunerVars
  BY <1>3
<1>5. TunerInit => StreamInv
  BY StreamInit DEF TunerInit
<1>6. QED
  BY <1>1, <1>2, <1>4, <1>5, TunerInvInit, TunerInvStep, PTL DEF TunerSpec, StartsClean

\* A caller's block is newer than the session it called in is old.
CallerMarks ==
  /\ first <= nPut - Used
  /\ \A r \in Readers : /\ app[r].from <= first
                        /\ rd[r].pc = "copy" => app[r].pc = "inside"

SessionInv ==
  TunerInv /\ StreamInv /\ CallerTypeOK /\ PurgedFirst /\ CallerMarks /\ NoStaleChannel

\* A mark below the front stays below it.
LEMMA MarkBelowFront ==
  ASSUME NEW p \in Nat, NEW u \in Nat, NEW p1 \in Nat, NEW u1 \in Nat, NEW f \in Nat,
         p - u <= p1 - u1, f <= p - u
  PROVE  f <= p1 - u1
OBVIOUS

\* Every step keeps the marks of the callers of GetTsStream.
LEMMA CallerMarksStep ==
  ASSUME SessionInv, SingleReader, [TunerNext]_tunerVars
  PROVE  CallerMarks'
<1>1. [Next]_vars
  BY TunerInvStep DEF SessionInv
<1>2. /\ nPut - Used <= nPut' - Used' /\ Used \in Nat /\ Used' \in Nat
      /\ nPut \in Nat /\ nPut' \in Nat /\ first \in Nat /\ first <= nPut - Used
  <2>1. first \in Nat
    BY Bounds DEF SessionInv, CallerTypeOK
  <2>2. StreamInv /\ CallerMarks
    BY DEF SessionInv
  <2>3. QED
    BY <1>1, <2>1, <2>2, FrontMoves DEF CallerMarks
<1>3. first' = first \/ (first' = nPut /\ Used = 0)
  <2>1. CASE set_Create
    BY <2>1 DEF set_Create, SessionInv, PurgedFirst
  <2>2. CASE DataStep \/ UNCHANGED tunerVars
    BY <2>2, DataStepFrame DEF SessionInv, TunerInv, TypeInv, TypeOK, session
  <2>3. CASE CallStep /\ ~set_Create
    BY <2>3 DEF CallStep, OpenTuner, CloseTuner, Close, SetChannel, stop_Shutdown,
         stop_Interrupt, stop_Join, stop_Reset, close_Free, open_Connect,
         set_Request, set_Update, set_Purge, session
  <2>4. QED
    BY <2>1, <2>2, <2>3, TwoKinds
<1>4. first' <= nPut' - Used' /\ first <= first'
  <2>1. first' \in Nat /\ first' <= nPut - Used /\ first <= first'
    BY <1>2, <1>3
  <2>2. first' <= nPut' - Used'
    BY <1>2, <2>1, MarkBelowFront
  <2>3. QED
    BY <2>1, <2>2
<1>5. \A r \in Readers : app'[r].from <= first'
  <2>1. \A r \in Readers : app'[r].from \in {app[r].from, first, 0}
    BY CallerStep DEF SessionInv, TunerInv, TypeInv, TypeOK
  <2>2. \A r \in Readers : app[r].from \in Nat /\ app[r].from <= first
    BY Bounds DEF SessionInv, CallerTypeOK, CallerMarks
  <2>3. first \in Nat /\ first' \in Nat /\ first <= first'
    BY <1>2, <1>3, <1>4
  <2>4. QED
    BY <2>1, <2>2, <2>3
<1>6. \A r \in Readers : rd'[r].pc = "copy" => app'[r].pc = "inside"
  <2>0. /\ app \in [Readers -> [pc : {"idle", "called", "inside", "holding"},
                               from : 0..MaxBytes]]
        /\ \A r \in Readers : rd[r].pc = "copy" => app[r].pc = "inside"
        /\ rd \in [Readers -> [pc : {"idle", "copy"}, push : Cells, pull : Cells,
                               k : 0..DATA_BUF_SIZE, epoch : 0..MaxPurges]]
    BY DEF SessionInv, CallerMarks, CallerTypeOK, TunerInv, TypeInv, TypeOK, BlockTypeOK
  <2>1. ASSUME NEW r \in Readers, GetTsStream_Enter(r)
        PROVE  \A q \in Readers : rd'[q].pc = "copy" => app'[q].pc = "inside"
    <3>1. \A q \in Readers : q = r
      BY DEF SingleReader
    <3>2. CASE rd'[r].pc = "copy"
      <4>1. app' = [app EXCEPT ![r].pc = "inside"]
        BY <2>1, <3>2 DEF GetTsStream_Enter
      <4>2. QED
        BY <2>0, <3>1, <4>1
    <3>3. CASE rd'[r].pc # "copy"
      BY <3>1, <3>3
    <3>4. QED
      BY <3>2, <3>3
  <2>2. ASSUME NEW r \in Readers, GetTsStream_Copy(r)
        PROVE  \A q \in Readers : rd'[q].pc = "copy" => app'[q].pc = "inside"
    <3>1. app' = app /\ \A q \in Readers : rd'[q].pc = rd[q].pc
      BY <2>0, <2>2 DEF GetTsStream_Copy, get_Copy
    <3>2. QED
      BY <2>0, <3>1
  <2>3. ASSUME NEW r \in Readers, GetTsStream_Leave(r)
        PROVE  \A q \in Readers : rd'[q].pc = "copy" => app'[q].pc = "inside"
    <3>1. rd'[r].pc = "idle" /\ \A q \in Readers : q = r
      BY <2>0, <2>3 DEF GetTsStream_Leave, get_Leave, NotReading, SingleReader
    <3>2. QED
      BY <3>1
  <2>4. ASSUME NEW r \in Readers, GetTsStream_Call(r) \/ GetTsStream_Return(r)
        PROVE  \A q \in Readers : rd'[q].pc = "copy" => app'[q].pc = "inside"
    <3>1. rd' = rd /\ app[r].pc # "inside" /\ \A q \in Readers : q = r
      BY <2>4 DEF GetTsStream_Call, GetTsStream_Return, vars, SingleReader
    <3>2. QED
      BY <2>0, <3>1
  <2>5. CASE UNCHANGED <<rd, app>>
    BY <2>0, <2>5
  <2>6. QED
    BY <2>1, <2>2, <2>3, <2>4, <2>5
       DEF TunerNext, tunerVars, vars, OpenTuner, CloseTuner, Close, SetChannel,
           stop_Shutdown, stop_Interrupt, RequestShutdown, stop_Join, stop_Reset,
           ResetShutdown, close_Free, open_Connect, set_Request, set_Update, set_Purge,
           purge_TsStream, set_Create, RecvThread_Start, recvBody_Leftover,
           recvBody_Data, put_TsStream, recvBody_End, RecvThread_End,
           RecvThread_Resume, put_Resume, put_SpuriousWake, GetTsStream_Closed,
           PurgeTsStream
<1>7. QED
  BY <1>4, <1>5, <1>6 DEF CallerMarks

\* No step hands a caller a byte from before the session it began in.
LEMMA NoStaleStep ==
  ASSUME SessionInv, SingleReader, [TunerNext]_tunerVars
  PROVE  NoStaleChannel'
<1>1. /\ app \in [Readers -> [pc : {"idle", "called", "inside", "holding"},
                             from : 0..MaxBytes]]
      /\ got \in [Readers -> [ok : BOOLEAN, data : Seq(0..MaxBytes)]]
      /\ NoStaleChannel
  BY DEF SessionInv, CallerTypeOK, TunerInv, TypeInv, TypeOK, BlockTypeOK
<1>2. CASE UNCHANGED <<app, got>>
  BY <1>1, <1>2 DEF NoStaleChannel
<1>3. ASSUME NEW r \in Readers, app'[r].pc # "holding" PROVE NoStaleChannel'
  BY <1>3 DEF NoStaleChannel, SingleReader
<1>4. ASSUME NEW r \in Readers,
             GetTsStream_Call(r) \/ GetTsStream_Enter(r) \/ GetTsStream_Return(r)
      PROVE  NoStaleChannel'
  <2>1. app'[r].pc # "holding"
    BY <1>1, <1>4
       DEF GetTsStream_Call, GetTsStream_Enter, GetTsStream_Return, NotCalling
  <2>2. QED
    BY <1>3, <2>1
<1>5. ASSUME NEW r \in Readers, GetTsStream_Leave(r) PROVE NoStaleChannel'
  <2>1. CASE m_bPurge
    <3>1. got'[r] = Refused
      BY <1>1, <1>5, <2>1 DEF GetTsStream_Leave, get_Leave, PurgedMeanwhile
    <3>2. app'[r].pc # "holding"
      BY <1>1, <1>5, <3>1 DEF GetTsStream_Leave, Refused, NotCalling
    <3>3. QED
      BY <1>3, <3>2
  <2>2. CASE ~m_bPurge
    <3> DEFINE n == BlockSize(r)
               block == [i \in 1..n |-> m_pDst[i - 1]]
    <3>1. got'[r] = [ok |-> TRUE, data |-> block]
      BY <1>1, <1>5, <2>2 DEF GetTsStream_Leave, get_Leave, PurgedMeanwhile
    <3>2. \A i \in 1..n : m_pDst[i - 1] = (nPut - Used) + i
      BY <1>5, <2>2, LeaveTakes DEF GetTsStream_Leave, SessionInv
    <3>3. /\ app[r].from <= nPut - Used /\ app[r].from \in Nat /\ n \in Nat
          /\ nPut \in Nat /\ Used \in Nat
      <4>1. TypeInv /\ app[r].from \in Nat /\ first \in Nat
        BY <1>1, Bounds DEF SessionInv, CallerTypeOK, TunerInv
      <4>2. n \in Nat /\ nPut \in Nat /\ Used \in Nat
        BY <4>1, StreamFacts
      <4>3. app[r].from <= first /\ first <= nPut - Used
        BY DEF SessionInv, CallerMarks
      <4>4. QED
        BY <4>1, <4>2, <4>3
    <3>4. app'[r].pc = "holding" => app'[r].from = app[r].from
      BY <1>1, <1>5 DEF GetTsStream_Leave, NotCalling
    <3> HIDE DEF n
    <3>5. Len(block) = n /\ \A i \in 1..n : block[i] > app[r].from
      BY <3>2, <3>3
    <3> HIDE DEF block
    <3>6. app'[r].pc = "holding" =>
            \A i \in 1..Len(got'[r].data) : got'[r].data[i] > app'[r].from
      BY <3>1, <3>4, <3>5
    <3>7. QED
      BY <3>6 DEF NoStaleChannel, SingleReader
  <2>3. QED
    BY <2>1, <2>2
<1>6. QED
  BY <1>2, <1>4, <1>5
     DEF TunerNext, tunerVars, vars, OpenTuner, CloseTuner, Close, SetChannel,
         stop_Shutdown, stop_Interrupt, RequestShutdown, stop_Join, stop_Reset,
         ResetShutdown, close_Free, open_Connect, set_Request, set_Update, set_Purge,
         purge_TsStream, set_Create, RecvThread_Start, recvBody_Leftover,
         recvBody_Data, put_TsStream, recvBody_End, RecvThread_End,
         RecvThread_Resume, put_Resume, put_SpuriousWake, GetTsStream_Closed,
         GetTsStream_Copy, get_Copy, PurgeTsStream

\* After SetChannel has returned TRUE, a call of GetTsStream never returns a
\* byte of the channel before, wherever the calls of a get and the steps of the
\* channel change fall among each other.
THEOREM NoStaleChannelBytes ==
  ASSUME SingleReader
  PROVE  TunerSpec => []NoStaleChannel
<1>1. TunerInit => SessionInv
  <2> SUFFICES ASSUME TunerInit PROVE SessionInv
    OBVIOUS
  <2>1. TunerInv /\ StreamInv
    BY TunerInvInit, StreamInit DEF TunerInit
  <2>2. 0 \in 0..MaxBytes /\ nPut = 0 /\ Used = 0
    BY Bounds, BufSizes DEF TunerInit, Init, Used, Dist
  <2>3. CallerTypeOK /\ PurgedFirst /\ NoStaleChannel
    BY <2>2 DEF TunerInit, CallerTypeOK, NotCalling, PurgedFirst, Idle, NoStaleChannel
  <2>4. CallerMarks
    BY <2>2 DEF TunerInit, Init, NotCalling, NotReading, CallerMarks
  <2>5. QED
    BY <2>1, <2>3, <2>4 DEF SessionInv
<1>2. SessionInv /\ [TunerNext]_tunerVars => SessionInv'
  <2> SUFFICES ASSUME SessionInv, [TunerNext]_tunerVars PROVE SessionInv'
    OBVIOUS
  <2>1. TunerInv' /\ [Next]_vars
    BY TunerInvStep DEF SessionInv
  <2>2. StreamInv'
    BY <2>1, StreamStep DEF SessionInv
  <2>3. CallerTypeOK'
    BY CallerStep DEF SessionInv, TunerInv, TypeInv, TypeOK, RingTypeOK, CallerTypeOK
  <2>4. PurgedFirst'
    BY PurgedFirstStep DEF SessionInv
  <2>5. QED
    BY <2>1, <2>2, <2>3, <2>4, CallerMarksStep, NoStaleStep DEF SessionInv
<1>3. SessionInv => NoStaleChannel
  BY DEF SessionInv
<1>4. QED
  BY <1>1, <1>2, <1>3, PTL DEF TunerSpec

----------------------------------------------------------------------------
(* The session implements the service.  The ring's part is FifoStep; here   *)
(* is which of its steps belong to which state of the control calls.        *)

\* What the host sees of the queue.
FifoState == <<Contents, nPut, got>>

\* The control calls' share of the service's state.
ControlState == <<ctl.op, g_pType, m_dwCurChannel, first>>

\* A step of the ring that stores nothing takes from the queue or empties it.
LEMMA TakesOnly ==
  ASSUME TunerInv, StreamInv, SingleReader, [Next]_vars, nPut' = nPut
  PROVE  \/ UNCHANGED FifoState
         \/ \E r \in Readers : Fifo!Refuse(r) \/ \E n \in 0..DATA_BUF_SIZE : Fifo!Get(r, n)
         \/ Fifo!Purge
<1>1. [Fifo!Next]_Fifo!fifoVars
  BY FifoStep
<1>2. ASSUME NEW n \in 1..DATA_BUF_SIZE PROVE ~Fifo!Put(n)
  <2>1. nPut \in Nat /\ n \in Nat /\ n > 0
    BY StreamFacts, BufSizes DEF StreamInv
  <2>2. Fifo!Put(n) => nPut' = nPut + n
    BY DEF Fifo!Put
  <2>3. QED
    BY <2>1, <2>2
<1>3. QED
  BY <1>1, <1>2 DEF Fifo!Next, Fifo!fifoVars, FifoState

\* Only the receive thread stores, and the step that ends it stores nothing.
LEMMA OnlyReceiverStores ==
  ASSUME ThreadTypeOK, DataStep
  PROVE  /\ snd.pc = "gone" => nPut' = nPut
         /\ snd.pc # "gone" /\ snd'.pc = "gone" => UNCHANGED <<ring, got>>
<1>1. ASSUME NEW n, PutTurn(n), snd'.pc = "gone" PROVE UNCHANGED ring
  BY <1>1 DEF PutTurn, Store, Running
<1>2. CASE recvBody_Leftover \/ \E n \in 1..DATA_BUF_SIZE : recvBody_Data(n)
  BY <1>1, <1>2 DEF recvBody_Leftover, recvBody_Data, put_TsStream
<1>3. CASE RecvThread_Resume \/ recvBody_End
  BY <1>1, <1>3 DEF RecvThread_Resume, put_Resume, put_SpuriousWake, recvBody_End,
                    RecvThread_End, ThreadTypeOK
<1>4. ASSUME NEW r \in Readers,
             GetTsStream_Closed(r) \/ GetTsStream_Call(r) \/ GetTsStream_Enter(r)
               \/ GetTsStream_Copy(r) \/ GetTsStream_Return(r)
      PROVE  UNCHANGED <<nPut, snd>>
  BY <1>4 DEF GetTsStream_Closed, GetTsStream_Call, GetTsStream_Enter, get_Enter,
       GetTsStream_Copy, get_Copy, GetTsStream_Return, tunerVars, vars, ring
<1>5. ASSUME NEW r \in Readers, GetTsStream_Leave(r)
      PROVE  nPut' = nPut /\ (snd' = snd \/ snd' = SignalGet(snd))
  BY <1>5 DEF GetTsStream_Leave, get_Leave
<1>6. CASE PurgeTsStream
  BY <1>6 DEF PurgeTsStream, purge_TsStream, SignalGet, ThreadTypeOK
<1>7. QED
  BY <1>2, <1>3, <1>4, <1>5, <1>6 DEF DataStep, SignalGet, ThreadTypeOK

\* A step of the data threads that the control calls do not notice: bytes enter
\* only while there is a receive thread.
LEMMA DataStepServes ==
  ASSUME TunerInv, StreamInv, SingleReader, DataStep
  PROVE  [Service!ServiceNext]_Service!serviceVars
<1>1. /\ [Next]_vars /\ UNCHANGED ControlState
      /\ (snd'.pc # "gone" => snd.pc # "gone")
  <2>1. TunerNext
    BY TwoKinds
  <2>2. ThreadTypeOK
    BY DEF TunerInv, TypeInv, TypeOK
  <2>3. QED
    BY <2>1, <2>2, TunerInvStep, DataStepFrame DEF ControlState, session
<1>2. UNCHANGED FifoState /\ (snd.pc # "gone" <=> snd'.pc # "gone")
        => UNCHANGED Service!serviceVars
  BY <1>1 DEF ControlState, FifoState, Service!serviceVars, Service!fifoVars, Service!control
<1>3. CASE snd.pc # "gone" /\ snd'.pc = "gone"
  <2>1. UNCHANGED <<ring, got>>
    BY <1>3, OnlyReceiverStores DEF TunerInv, TypeInv, TypeOK
  <2>2. UNCHANGED FifoState
    BY <2>1 DEF FifoState, Contents, Used, ring
  <2>3. Service!StreamEnds
    BY <1>1, <1>3, <2>2 DEF ControlState, FifoState, Service!StreamEnds, Service!fifoVars
  <2>4. QED
    BY <2>3 DEF Service!ServiceNext
<1>4. CASE nPut' = nPut /\ (snd.pc # "gone" <=> snd'.pc # "gone")
  <2>1. UNCHANGED Service!control
    BY <1>1, <1>4 DEF ControlState, Service!control
  <2>2. QED
    BY <1>1, <1>2, <1>4, <2>1, TakesOnly
       DEF Service!ServiceNext, Service!Take, Service!Empty, Service!Refuse, Service!Get,
           Service!Purge, Fifo!Refuse, Fifo!Get, Fifo!Purge, Service!Refused, Fifo!Refused
<1>5. CASE snd.pc # "gone" /\ snd'.pc # "gone"
  <2>1. UNCHANGED Service!control
    BY <1>1, <1>5 DEF ControlState, Service!control
  <2>2. [Fifo!Next]_Fifo!fifoVars
    BY <1>1, FifoStep
  <2>3. CASE \E n \in 1..DATA_BUF_SIZE : Fifo!Put(n)
    BY <1>5, <2>1, <2>3 DEF Service!ServiceNext, Service!Receive, Service!Put, Fifo!Put
  <2>4. CASE UNCHANGED Fifo!fifoVars
    BY <1>2, <1>5, <2>4 DEF Fifo!fifoVars, FifoState
  <2>5. QED
    BY <2>1, <2>2, <2>3, <2>4
       DEF Fifo!Next, Service!ServiceNext, Service!Take, Service!Empty, Service!Refuse,
           Service!Get, Service!Purge, Fifo!Refuse, Fifo!Get, Fifo!Purge,
           Service!Refused, Fifo!Refused
<1>6. CASE snd.pc = "gone" /\ snd'.pc = "gone"
  <2>1. nPut' = nPut
    BY <1>6, OnlyReceiverStores DEF TunerInv, TypeInv, TypeOK
  <2>2. QED
    BY <1>4, <1>6, <2>1
<1>7. QED
  BY <1>1, <1>3, <1>5, <1>6

\* A step of a control call that leaves the queue alone, seen by the host.
LEMMA QuietCallServes ==
  ASSUME TunerInv, PurgedFirst, StreamInv, CallStep, ~set_Purge
  PROVE  [Service!ServiceNext]_Service!serviceVars
<1> USE DEF Service!ServiceNext, Service!serviceVars, Service!control
<1>0. /\ UNCHANGED <<ring, got>>
      /\ ControlTypeOK /\ ThreadTypeOK /\ ReceiverOwned /\ CallShape
      /\ ctl.op \in {"none", "open", "close", "set"}
  <2>1. UNCHANGED <<ring, got>>
    BY DEF CallStep, OpenTuner, CloseTuner, Close, SetChannel, stop_Shutdown,
           stop_Interrupt, stop_Join, stop_Reset, close_Free, open_Connect, set_Request,
           set_Update, set_Create, RequestShutdown, ResetShutdown, RecvThread_Start,
           vars
  <2>2. QED
    BY <2>1 DEF TunerInv, TypeInv, TypeOK, ControlInv, ControlTypeOK, CallStates
<1>1. UNCHANGED Service!fifoVars
  BY <1>0 DEF Service!fifoVars, Contents, Used, ring
<1>2. CASE OpenTuner \/ CloseTuner
  <2>1. PICK op \in {"open", "close"} : Close(op)
    BY <1>2 DEF OpenTuner, CloseTuner
  <2>2. /\ ctl.op = "none" /\ ctl'.op = op /\ m_dwCurChannel' = None
        /\ UNCHANGED <<g_pType, snd, first>>
    BY <1>0, <2>1 DEF Close, Begin, vars, CallShape
  <2>3. Service!OpenOrClose(op)
    BY <1>1, <2>2 DEF Service!OpenOrClose
  <2>4. QED
    BY <2>3
<1>3. ASSUME NEW ch \in Channels, SetChannel(ch) PROVE Service!Tune
  <2>1. /\ ctl.op = "none" /\ ctl'.op = "set" /\ g_pType
        /\ UNCHANGED <<g_pType, m_dwCurChannel, snd, first>>
    BY <1>0, <1>3 DEF SetChannel, Begin, session, vars, CallShape
  <2>2. QED
    BY <1>1, <2>1 DEF Service!Tune
<1>4. CASE stop_Shutdown \/ stop_Interrupt \/ stop_Join \/ stop_Reset
  <2>1. ctl'.op = ctl.op
    BY <1>0, <1>4, GotoKeeps DEF stop_Shutdown, stop_Interrupt, stop_Join, stop_Reset
  <2>2. UNCHANGED <<g_pType, m_dwCurChannel, first>> /\ (snd'.pc # "gone" <=> snd.pc # "gone")
    BY <1>0, <1>4 DEF stop_Shutdown, stop_Interrupt, stop_Join, stop_Reset, session, vars,
                      RequestShutdown, ResetShutdown, SignalGet, ThreadTypeOK
  <2>3. QED
    BY <1>1, <2>1, <2>2
<1>5. CASE close_Free
  <2>1. /\ ctl.op \in {"open", "close"} /\ snd.pc = "gone" /\ snd' = snd
        /\ ~g_pType' /\ UNCHANGED <<m_dwCurChannel, first>>
    BY <1>0, <1>5 DEF close_Free, CallShape, ReceiverOwned, vars
  <2>2. ctl'.op = IF ctl.op = "open" THEN "open" ELSE "none"
    BY <1>0, <1>5, GotoKeeps DEF close_Free, Return, Idle
  <2>3. Service!Closed
    BY <1>1, <2>1, <2>2 DEF Service!Closed
  <2>4. QED
    BY <2>3
<1>6. CASE open_Connect
  <2>1. /\ ctl.op \in {"open", "close"} /\ ~g_pType
        /\ UNCHANGED <<snd, m_dwCurChannel, first>>
    BY <1>0, <1>6 DEF open_Connect, CallShape, vars
  <2>2. ctl.op = "open"
    BY <1>0, <1>6 DEF open_Connect, CallShape
  <2>3. \/ g_pType' /\ ctl'.op = "none"
        \/ g_pType' = g_pType /\ ctl'.op = "close"
    <3>1. ctl' = [ctl EXCEPT !.pc = "stop", !.op = "close"] => ctl'.op = "close"
      BY <1>0 DEF ControlTypeOK, CallStates
    <3>2. QED
      BY <1>6, <3>1 DEF open_Connect, Return, Idle
  <2>4. Service!Opened \/ Service!OpenFailed
    BY <1>1, <2>1, <2>2, <2>3 DEF Service!Opened, Service!OpenFailed
  <2>5. QED
    BY <2>4
<1>7. CASE set_Request
  <2>1. ctl.op = "set" /\ snd.pc = "gone" /\ UNCHANGED <<g_pType, first, snd>>
    BY <1>0, <1>7 DEF set_Request, CallShape, ReceiverOwned, vars
  <2>2. \/ ctl'.op = ctl.op /\ m_dwCurChannel' = m_dwCurChannel
        \/ ctl'.op = "none" /\ m_dwCurChannel' = None
    BY <1>0, <1>7, GotoKeeps DEF set_Request, Return, Idle
  <2>3. UNCHANGED Service!serviceVars \/ Service!TuneFailed
    BY <1>1, <2>1, <2>2 DEF Service!TuneFailed
  <2>4. QED
    BY <2>3
<1>8. CASE set_Update
  <2>1. /\ ctl.op = "set" /\ snd.pc = "gone" /\ UNCHANGED <<g_pType, first, snd>>
        /\ m_dwCurChannel' = ctl.ch /\ ctl.ch \in Channels
    BY <1>0, <1>8 DEF set_Update, CallShape, ReceiverOwned, vars
  <2>2. ctl'.op = ctl.op
    BY <1>0, <1>8, GotoKeeps DEF set_Update
  <2>3. Service!Select(ctl.ch)
    BY <1>1, <2>1, <2>2 DEF Service!Select
  <2>4. QED
    BY <2>1, <2>3
<1>9. CASE set_Create
  <2>1. /\ ctl.op = "set" /\ snd.pc = "gone" /\ ctl'.op = "none" /\ Used = 0
        /\ m_dwCurChannel # None /\ g_pType' = g_pType
    BY <1>0, <1>9 DEF set_Create, Return, Idle, CallShape, ReceiverOwned, PurgedFirst
  <2>2. Contents = << >>
    BY <2>1 DEF Contents
  <2>3. \/ snd' = Running /\ first' = nPut /\ m_dwCurChannel' = m_dwCurChannel
        \/ snd' = snd /\ first' = first /\ m_dwCurChannel' = None
    BY <1>9 DEF set_Create, RecvThread_Start, vars
  <2>4. Service!Tuned \/ Service!TuneFailed
    BY <1>1, <2>1, <2>2, <2>3 DEF Service!Tuned, Service!TuneFailed, Running
  <2>5. QED
    BY <2>4
<1>10. QED
  BY <1>2, <1>3, <1>4, <1>5, <1>6, <1>7, <1>8, <1>9 DEF CallStep

\* Every step of a session is a step of the service or leaves it unchanged.
LEMMA ServiceStep ==
  ASSUME TunerInv, PurgedFirst, StreamInv, SingleReader, [TunerNext]_tunerVars
  PROVE  [Service!ServiceNext]_Service!serviceVars
<1>1. CASE UNCHANGED tunerVars
  BY <1>1 DEF tunerVars, vars, ring, session, Contents, Used, Service!serviceVars,
              Service!fifoVars, Service!control
<1>2. CASE set_Purge
  <2>1. Used' = 0 /\ UNCHANGED <<nPut, got>>
    BY <1>2, BufSizes DEF set_Purge, purge_TsStream, Used, Dist
  <2>2. Contents' = << >>
    BY <2>1 DEF Contents
  <2>3. ctl'.op = ctl.op /\ UNCHANGED <<g_pType, m_dwCurChannel, first>>
    BY <1>2, GotoKeeps DEF set_Purge, session, TunerInv, ControlInv
  <2>4. snd'.pc # "gone" <=> snd.pc # "gone"
    BY <1>2 DEF set_Purge, purge_TsStream, SignalGet, TunerInv, TypeInv, TypeOK, ThreadTypeOK
  <2>5. Service!Empty
    BY <2>1, <2>2, <2>3, <2>4 DEF Service!Empty, Service!Purge, Service!control
  <2>6. QED
    BY <2>5 DEF Service!ServiceNext
<1>3. QED
  BY <1>1, <1>2, DataStepServes, QuietCallServes, TwoKinds

\* With one reader, a session keeps what the tuner promises the host: whatever
\* fails in OpenTuner and SetChannel, and wherever the steps of the receive
\* thread, of a get and of purges fall among those of the control calls, bytes
\* enter the queue only from a stream that began on an empty queue under a
\* current channel, no two streams are received at once, and a stream is over
\* before the channel list goes or another channel is current.
THEOREM SessionIsService ==
  ASSUME SingleReader
  PROVE  TunerSpec => ServiceSpec
<1>1. TunerInit => Service!ServiceInit
  <2> SUFFICES ASSUME TunerInit PROVE Service!ServiceInit
    OBVIOUS
  <2>1. Used = 0
    BY BufSizes DEF TunerInit, Init, Used, Dist
  <2>2. Contents = << >>
    BY <2>1 DEF Contents
  <2>3. QED
    BY <2>2 DEF TunerInit, Init, Idle, Gone, Refused, Service!ServiceInit, Service!Init,
                Service!Refused
<1>2. TunerInit => TunerInv /\ StreamInv /\ PurgedFirst
  BY TunerInvInit, StreamInit DEF TunerInit, PurgedFirst, Idle
<1>3. TunerInv /\ StreamInv /\ PurgedFirst /\ [TunerNext]_tunerVars
        => TunerInv' /\ StreamInv' /\ PurgedFirst'
  BY PurgedFirstStep, TunerInvStep, StreamStep
<1>4. TunerInv /\ StreamInv /\ PurgedFirst /\ [TunerNext]_tunerVars
        => [Service!ServiceNext]_Service!serviceVars
  BY ServiceStep
<1>5. QED
  BY <1>1, <1>2, <1>3, <1>4, PTL DEF TunerSpec, ServiceSpec, Service!ServiceSpec

----------------------------------------------------------------------------
(* Why a control call cannot hang in pthread_join.                          *)

\* Before the join the socket was shut down, then the put interrupted.
StopRequested ==
  /\ ctl.pc \in {"interrupt", "join"} => shut
  /\ ctl.pc = "join" => m_bShutdown

\* pthread_join waits only for a thread that can run: it is not blocked in
\* put_TsStream, finds the request to stop at the next turn of its wait loop,
\* and is over a socket on which recv no longer waits.
JoinEnds ==
  ctl.pc = "join" =>
    snd.pc = "gone" \/ (snd.pc \in {"run", "woken"} /\ shut /\ m_bShutdown)

\* Every step of a call keeps both requests until the thread is joined.
LEMMA StopRequestedStep ==
  ASSUME TunerInv, StopRequested, [TunerNext]_tunerVars
  PROVE  StopRequested'
<1>0. /\ ControlTypeOK /\ ReceiverOwned /\ CallShape /\ ThreadTypeOK
      /\ ctl.op \in {"none", "open", "close", "set"}
  BY DEF TunerInv, TypeInv, TypeOK, ControlInv, ControlTypeOK, CallStates
<1>1. CASE DataStep \/ UNCHANGED tunerVars
  BY <1>0, <1>1, DataStepFrame DEF StopRequested
<1>2. CASE ctl'.pc \notin {"interrupt", "join"}
  BY <1>2 DEF StopRequested
<1>3. CASE OpenTuner \/ CloseTuner \/ \E ch \in Channels : SetChannel(ch)
  BY <1>2, <1>3 DEF OpenTuner, CloseTuner, Close, SetChannel, Begin
<1>4. CASE stop_Shutdown
  <2>1. CASE m_bRecvThreadValid
    <3>1. ctl'.pc = "interrupt" /\ shut'
      BY <1>0, <1>4, <2>1, GotoKeeps DEF stop_Shutdown, ReceiverOwned
    <3>2. QED
      BY <3>1 DEF StopRequested
  <2>2. CASE ~m_bRecvThreadValid
    BY <1>0, <1>2, <1>4, <2>2, GotoKeeps DEF stop_Shutdown, AfterStop
  <2>3. QED
    BY <2>1, <2>2
<1>5. CASE stop_Interrupt
  <2>1. ctl.pc = "interrupt" /\ shut' = shut /\ m_bShutdown'
    BY <1>5 DEF stop_Interrupt, socket, RequestShutdown
  <2>2. QED
    BY <2>1 DEF StopRequested
<1>6. CASE stop_Join \/ stop_Reset \/ set_Update \/ set_Purge
  <2>1. \E pc \in {"reset", "request", "free", "purge", "create"} : Goto(pc)
    BY <1>6 DEF stop_Join, stop_Reset, set_Update, set_Purge, AfterStop
  <2>2. QED
    BY <1>0, <1>2, <2>1, GotoKeeps
<1>7. CASE close_Free \/ open_Connect \/ set_Request \/ set_Create
  <2>1. \/ \E pc \in {"connect", "update"} : Goto(pc)
        \/ ctl' = Idle
        \/ ctl' = [ctl EXCEPT !.pc = "stop", !.op = "close"]
    BY <1>7 DEF close_Free, open_Connect, set_Request, set_Create, Return
  <2>2. ctl' = [ctl EXCEPT !.pc = "stop", !.op = "close"] => ctl'.pc = "stop"
    BY <1>0 DEF ControlTypeOK, CallStates
  <2>3. QED
    BY <1>0, <1>2, <2>1, <2>2, GotoKeeps DEF Idle
<1>8. QED
  BY <1>1, <1>3, <1>4, <1>5, <1>6, <1>7, TwoKinds DEF CallStep

\* A control call that joins the receive thread never waits for one that is
\* blocked, with any number of host threads: the ring is full and nobody takes
\* from it, or a get or a purge signals at any moment of the call, and still the
\* thread is running, over a socket already shut down.
THEOREM JoinNeverWaitsForBlocked == TunerSpec => []JoinEnds
<1>1. TunerInit => StopRequested
  BY DEF TunerInit, Idle, StopRequested
<1>2. TunerInv /\ StopRequested /\ [TunerNext]_tunerVars => StopRequested'
  BY StopRequestedStep
<1>3. TunerInv /\ StopRequested /\ NoLostRoomSignal => JoinEnds
  BY DEF TunerInv, TypeInv, TypeOK, ThreadTypeOK, StopRequested, NoLostRoomSignal, JoinEnds
<1>4. QED
  BY <1>1, <1>2, <1>3, TunerInvInit, TunerInvStep, TunerImplementsRing, RoomSignalKept, PTL
     DEF TunerSpec

\* How many steps of its own the call in progress has still to make, at most.
StepsLeft ==
  (IF ctl.op = "open" THEN 9 ELSE 0)
    + (CASE ctl.pc = "stop"      -> 8 [] ctl.pc = "interrupt" -> 7
         [] ctl.pc = "join"      -> 6 [] ctl.pc = "reset"     -> 5
         [] ctl.pc = "free"      -> 4 [] ctl.pc = "connect"   -> 3
         [] ctl.pc = "request"   -> 4 [] ctl.pc = "update"    -> 3
         [] ctl.pc = "purge"     -> 2 [] ctl.pc = "create"    -> 1
         [] ctl.pc = "idle"      -> 0)

\* Each step of a call leaves fewer to make: an OpenTuner that fails closes the
\* tuner once and not again and again, and no thread sends a call back to a wait
\* it has passed.
CallGoesOn == [][ctl.pc # "idle" => ctl' = ctl \/ StepsLeft' < StepsLeft]_tunerVars

\* A control call is at most 17 steps long, whatever fails in it and whatever the
\* other threads do meanwhile.  With JoinNeverWaitsForBlocked this is why it
\* returns: besides the network's time limits it waits in the join only, for a
\* thread that can end.
THEOREM CallsGetShorter == TunerSpec => CallGoesOn
<1> DEFINE Shorter == ctl.pc # "idle" => ctl' = ctl \/ StepsLeft' < StepsLeft
<1>1. ASSUME TunerInv, [TunerNext]_tunerVars PROVE Shorter
  <2>0. /\ ControlTypeOK /\ CallShape /\ ThreadTypeOK
        /\ ctl.op \in {"none", "open", "close", "set"}
    BY <1>1 DEF TunerInv, TypeInv, TypeOK, ControlInv, ControlTypeOK, CallStates
  <2>1. CASE DataStep \/ UNCHANGED tunerVars
    BY <2>0, <2>1, DataStepFrame
  <2>2. CASE OpenTuner \/ CloseTuner \/ \E ch \in Channels : SetChannel(ch)
    BY <2>2 DEF OpenTuner, CloseTuner, Close, SetChannel, Begin
  <2>3. ASSUME NEW pc, Goto(pc)
        PROVE  ctl'.pc = pc /\ ctl'.op = ctl.op
    BY <2>0, <2>3, GotoKeeps
  <2>4. CASE stop_Shutdown \/ stop_Interrupt \/ stop_Join \/ stop_Reset
    <3>1. \/ ctl.pc = "stop" /\ ctl'.pc \in {"interrupt", "request", "free"}
          \/ ctl.pc = "interrupt" /\ ctl'.pc = "join"
          \/ ctl.pc = "join" /\ ctl'.pc = "reset"
          \/ ctl.pc = "reset" /\ ctl'.pc \in {"request", "free"}
      BY <2>3, <2>4 DEF stop_Shutdown, stop_Interrupt, stop_Join, stop_Reset, AfterStop
    <3>2. ctl'.op = ctl.op
      BY <2>3, <2>4 DEF stop_Shutdown, stop_Interrupt, stop_Join, stop_Reset
    <3>3. QED
      BY <3>1, <3>2 DEF StepsLeft
  <2>5. CASE close_Free
    <3>1. /\ ctl.pc = "free"
          /\ \/ ctl'.pc = "connect" /\ ctl'.op = ctl.op
             \/ ctl'.pc = "idle" /\ ctl'.op = "none"
      BY <2>3, <2>5 DEF close_Free, Return, Idle
    <3>2. QED
      BY <3>1 DEF StepsLeft
  <2>6. CASE open_Connect
    <3>1. /\ ctl.pc = "connect" /\ ctl.op = "open"
          /\ \/ ctl'.pc = "idle" /\ ctl'.op = "none"
             \/ ctl'.pc = "stop" /\ ctl'.op = "close"
      <4>1. ctl' = [ctl EXCEPT !.pc = "stop", !.op = "close"]
              => ctl'.pc = "stop" /\ ctl'.op = "close"
        BY <2>0 DEF ControlTypeOK, CallStates
      <4>2. ctl' = Idle => ctl'.pc = "idle" /\ ctl'.op = "none"
        BY DEF Idle
      <4>3. ctl.pc = "connect" /\ ctl.op = "open"
        BY <2>0, <2>6 DEF open_Connect, CallShape
      <4>4. QED
        BY <2>6, <4>1, <4>2, <4>3 DEF open_Connect, Return
    <3>2. QED
      BY <3>1 DEF StepsLeft
  <2>7. CASE set_Request \/ set_Update \/ set_Purge \/ set_Create
    <3>1. \/ ctl.pc = "request" /\ ctl'.pc = "update" /\ ctl'.op = ctl.op
          \/ ctl.pc = "update" /\ ctl'.pc = "purge" /\ ctl'.op = ctl.op
          \/ ctl.pc = "purge" /\ ctl'.pc = "create" /\ ctl'.op = ctl.op
          \/ ctl.pc \in {"request", "create"} /\ ctl'.pc = "idle" /\ ctl'.op = "none"
      BY <2>3, <2>7 DEF set_Request, set_Update, set_Purge, set_Create, Return, Idle
    <3>2. QED
      BY <3>1 DEF StepsLeft
  <2>8. QED
    BY <1>1, <2>1, <2>2, <2>4, <2>5, <2>6, <2>7, TwoKinds DEF CallStep
<1>2. TunerInv /\ [TunerNext]_tunerVars => [Shorter]_tunerVars
  BY <1>1
<1>3. QED
  BY <1>2, TunerInvInit, TunerInvStep, PTL DEF TunerSpec, CallGoesOn

\* What the ring promises one reader, it promises in every session: the FIFO,
\* and the purge that wins over a get it overtakes.
THEOREM RingInSession ==
  ASSUME SingleReader
  PROVE  TunerSpec => FifoSpec /\ PurgeWins /\ []BlockStable
BY TunerImplementsRing, RingIsFifo, PurgeAlwaysWins, BlockIsStable, PTL

----------------------------------------------------------------------------
(* What is proved of the service, said of a session.                        *)

Promised == INSTANCE TunerServiceProofs WITH
  queue <- Contents, Capacity <- RING_BUF_SIZE - 1, MaxBlock <- DATA_BUF_SIZE,
  call <- ctl.op, open <- g_pType, channel <- m_dwCurChannel,
  receiving <- snd.pc # "gone", since <- first

\* In a session, and over any number of them: every block that get_TsStream
\* returns is the stretch of the stream right after what was taken or purged
\* before, whenever the channel changes and whatever fails; while no call is in
\* progress a receive thread exists only for a current channel of an open
\* tuner; and what the ring holds was put by the latest one.
THEOREM SessionBlocksInOrder ==
  ASSUME SingleReader
  PROVE  TunerSpec => /\ Promised!OnceInOrder
                      /\ [](Promised!StreamHasChannel /\ Promised!QueueIsThisStream)
<1>1. Service!ServiceInit => Promised!ServiceInit
  BY DEF Service!ServiceInit, Promised!ServiceInit, Service!Init, Promised!Init,
         Service!Refused, Promised!Refused
<1>2. [Service!ServiceNext]_Service!serviceVars => [Promised!ServiceNext]_Promised!serviceVars
  BY Zenon
     DEF Service!ServiceNext, Promised!ServiceNext, Service!serviceVars,
     Promised!serviceVars, Service!fifoVars, Promised!fifoVars, Service!control, Promised!control,
     Service!OpenOrClose, Promised!OpenOrClose, Service!Tune, Promised!Tune,
     Service!Closed, Promised!Closed, Service!Opened, Promised!Opened,
     Service!OpenFailed, Promised!OpenFailed, Service!Select, Promised!Select,
     Service!Tuned, Promised!Tuned, Service!TuneFailed, Promised!TuneFailed,
     Service!Receive, Promised!Receive, Service!StreamEnds, Promised!StreamEnds,
     Service!Take, Promised!Take, Service!Empty, Promised!Empty, Service!Put, Promised!Put,
     Service!Get, Promised!Get, Service!Refuse, Promised!Refuse, Service!Purge,
     Promised!Purge, Service!Refused, Promised!Refused
<1>3. Promised!Limits
  BY BufSizes DEF Promised!Limits
<1>4. Promised!ServiceSpec =>
        /\ Promised!OnceInOrder
        /\ [](Promised!StreamHasChannel /\ Promised!QueueIsThisStream)
  BY <1>3, Promised!BlocksOnceInOrder, Promised!OneStreamAtATime, PTL
<1>5. QED
  BY <1>1, <1>2, <1>4, SessionIsService, PTL
     DEF ServiceSpec, Service!ServiceSpec, Promised!ServiceSpec

=============================================================================
