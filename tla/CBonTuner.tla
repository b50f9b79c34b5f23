----------------------------- MODULE CBonTuner -----------------------------
(***************************************************************************)
(* class CBonTuner (src/src/BonDriver_LinuxMirakc.cpp): one tuner, from    *)
(* OpenTuner to CloseTuner.  It composes the ring buffer of GrabTsData     *)
(* with the thread of the host that opens, tunes and closes (the control   *)
(* calls, which a host makes one at a time), the receive thread that       *)
(* SetChannel creates, the socket they share, and the host's threads in    *)
(* GetTsStream and PurgeTsStream.                                          *)
(*                                                                         *)
(* A control call is several actions, one for each stretch that another    *)
(* thread can observe or must wait for.  Every step is a step of the ring  *)
(* or leaves it unchanged, so this specification implements GrabTsData's.  *)
(***************************************************************************)
EXTENDS GrabTsData

CONSTANTS
  Channels,  \* the (space, channel) pairs SetChannel accepts
  None,      \* 0xffffffff
  MaxCalls   \* bound: OpenTuner, SetChannel and CloseTuner calls

ASSUME TunerBounds ==
  /\ None \notin Channels
  /\ MaxCalls \in Nat
  /\ MaxPurges > MaxCalls   \* each SetChannel purges once

VARIABLES
  ctl,       \* the control call in progress: where it is, which, and its channel
  calls,     \* history: control calls so far; also numbers the sockets
  conn,      \* conn # NULL
  s,         \* conn->s: 0 for -1, else the number of the socket
  shut,      \* shutdown(SHUT_RDWR) was called on it
  bufsize,   \* conn->bufsize: body bytes that came with the response header
  g_pType,   \* the channel list is loaded (g_Max_Type >= 0)
  m_dwCurChannel,      \* m_dwCurSpace and m_dwCurChannel, always set together
  m_bRecvThreadValid,
  joinable,  \* history: a receive thread exists that has not been joined
  first,     \* history: nPut when the current session's receive thread started
  app        \* app[r]: caller r of CBonTuner::GetTsStream

socket == <<conn, s, shut, bufsize>>
session == <<g_pType, m_dwCurChannel, m_bRecvThreadValid, joinable, first>>
tunerVars == <<vars, ctl, calls, socket, session, app>>

----------------------------------------------------------------------------
(* The control calls.                                                      *)

Idle == [pc |-> "idle", op |-> "none", ch |-> None]

Begin(op, ch) ==
  /\ ctl.pc = "idle" /\ calls < MaxCalls
  /\ ctl' = [pc |-> "stop", op |-> op, ch |-> ch]
  /\ calls' = calls + 1

Goto(pc) == ctl' = [ctl EXCEPT !.pc = pc] /\ UNCHANGED calls
Return   == ctl' = Idle /\ UNCHANGED calls

\* OpenTuner first closes what is open; CloseTuner first forgets the channel.
Close(op) ==
  /\ Begin(op, None)
  /\ m_dwCurChannel' = None
  /\ UNCHANGED <<vars, socket, g_pType, m_bRecvThreadValid, joinable, first, app>>

OpenTuner  == Close("open")
CloseTuner == Close("close")

\* A call on a closed tuner or with a channel that is not in the list returns
\* FALSE and changes nothing: it is not a step.
SetChannel(ch) ==
  /\ conn /\ g_pType
  /\ Begin("set", ch)
  /\ UNCHANGED <<vars, socket, session, app>>

(* waitForRecvThreadFinish: shut the socket down, interrupt a put that waits *)
(* for room, join, clear the interruption.                                   *)

AfterStop == IF ctl.op = "set" THEN "request" ELSE "free"

stop_Shutdown_Never ==
  /\ ctl.pc = "stop" /\ Goto(AfterStop)
  /\ UNCHANGED <<vars, socket, session, app>>
stop_Shutdown ==
  /\ ctl.pc = "stop"
  /\ IF m_bRecvThreadValid
     THEN Goto("interrupt") /\ shut' = (s # 0)
     ELSE Goto(AfterStop) /\ UNCHANGED shut
  /\ UNCHANGED <<vars, conn, s, bufsize, session, app>>

stop_Interrupt_Skip ==
  /\ ctl.pc = "interrupt" /\ Goto("join")
  /\ UNCHANGED <<vars, socket, session, app>>
stop_Interrupt ==
  /\ ctl.pc = "interrupt" /\ Goto("join")
  /\ RequestShutdown
  /\ UNCHANGED <<socket, session, app>>

stop_Join ==
  /\ ctl.pc = "join" /\ snd.pc = "gone" /\ Goto("reset")
  /\ joinable' = FALSE /\ m_bRecvThreadValid' = FALSE
  /\ UNCHANGED <<vars, socket, g_pType, m_dwCurChannel, first, app>>

stop_Reset_Skip ==
  /\ ctl.pc = "reset" /\ Goto(AfterStop)
  /\ UNCHANGED <<vars, socket, session, app>>
stop_Reset ==
  /\ ctl.pc = "reset" /\ Goto(AfterStop)
  /\ ResetShutdown
  /\ UNCHANGED <<socket, session, app>>

\* The rest of CloseTuner: the channel list and the connection are freed.
close_Free ==
  /\ ctl.pc = "free"
  /\ IF ctl.op = "open" THEN Goto("connect") ELSE Return
  /\ g_pType' = FALSE
  /\ conn' = FALSE /\ s' = 0 /\ shut' = FALSE /\ bufsize' = 0
  /\ UNCHANGED <<vars, m_dwCurChannel, m_bRecvThreadValid, joinable, first, app>>

\* The rest of OpenTuner: a connection is tried and closed, the channel list is
\* fetched over another.  On a failure, CloseTuner again.
open_Connect ==
  /\ ctl.pc = "connect"
  /\ \/ conn' = TRUE /\ g_pType' = TRUE /\ Return
     \/ /\ conn' \in BOOLEAN /\ UNCHANGED g_pType
        /\ ctl' = [ctl EXCEPT !.pc = "stop", !.op = "close"] /\ UNCHANGED calls
  /\ UNCHANGED <<vars, s, shut, bufsize, m_dwCurChannel, m_bRecvThreadValid,
                 joinable, first, app>>

\* sendGetRequest_WaitHeader: connect() closes the old socket and opens a new
\* one; body bytes may come with the header.  Without a 200 the socket is
\* closed and no channel is current.
set_Request ==
  /\ ctl.pc = "request"
  /\ \/ /\ s' = calls /\ shut' = FALSE
        /\ bufsize' \in {n \in 0..DATA_BUF_SIZE : nPut + n <= MaxBytes}
        /\ Goto("update") /\ UNCHANGED m_dwCurChannel
     \/ /\ s' = 0 /\ shut' = FALSE /\ bufsize' = 0
        /\ m_dwCurChannel' = None /\ Return
  /\ UNCHANGED <<vars, conn, g_pType, m_bRecvThreadValid, joinable, first, app>>

set_Update ==
  /\ ctl.pc = "update" /\ Goto("purge")
  /\ m_dwCurChannel' = ctl.ch
  /\ UNCHANGED <<vars, socket, g_pType, m_bRecvThreadValid, joinable, first, app>>

set_Purge_Skip ==
  /\ ctl.pc = "purge" /\ Goto("create")
  /\ UNCHANGED <<vars, socket, session, app>>
set_Purge ==
  /\ ctl.pc = "purge" /\ Goto("create")
  /\ purge_TsStream
  /\ UNCHANGED <<socket, session, app>>

\* pthread_create, and what is taken back when it fails.
set_Create_KeepChannel ==
  /\ ctl.pc = "create" /\ Return
  /\ \/ /\ RecvThread_Start
        /\ joinable' = TRUE /\ m_bRecvThreadValid' = TRUE /\ first' = nPut
        /\ UNCHANGED <<socket, m_dwCurChannel>>
     \/ /\ s' = 0 /\ shut' = FALSE /\ bufsize' = 0
        /\ UNCHANGED <<vars, conn, m_bRecvThreadValid, joinable, first,
                       m_dwCurChannel>>
  /\ UNCHANGED <<g_pType, app>>
set_Create ==
  /\ ctl.pc = "create" /\ Return
  /\ \/ /\ RecvThread_Start
        /\ joinable' = TRUE /\ m_bRecvThreadValid' = TRUE /\ first' = nPut
        /\ UNCHANGED <<socket, m_dwCurChannel>>
     \/ /\ m_dwCurChannel' = None
        /\ s' = 0 /\ shut' = FALSE /\ bufsize' = 0
        /\ UNCHANGED <<vars, conn, m_bRecvThreadValid, joinable, first>>
  /\ UNCHANGED <<g_pType, app>>

ControlStep ==
  \/ stop_Shutdown \/ stop_Interrupt \/ stop_Join \/ stop_Reset
  \/ close_Free \/ open_Connect
  \/ set_Request \/ set_Update \/ set_Purge \/ set_Create

----------------------------------------------------------------------------
(* RecvThread.  recvBody returns the bytes that came with the header first,  *)
(* then what the socket has; put_TsStream follows at once, since what recv   *)
(* returned is the thread's own until then.                                  *)

recvBody_Leftover ==
  /\ bufsize > 0
  /\ put_TsStream(bufsize)
  /\ bufsize' = 0
  /\ UNCHANGED <<ctl, calls, conn, s, shut, session, app>>

\* After a shutdown the bytes already in the socket can still be received.
recvBody_Data(n) ==
  /\ bufsize = 0 /\ s # 0
  /\ put_TsStream(n)
  /\ UNCHANGED <<ctl, calls, socket, session, app>>

\* recv returned 0 or failed: the server closed, or stop_Shutdown was called.
recvBody_End ==
  /\ bufsize = 0
  /\ RecvThread_End
  /\ UNCHANGED <<ctl, calls, socket, session, app>>

RecvThread_Resume ==
  /\ put_Resume \/ put_SpuriousWake
  /\ UNCHANGED <<ctl, calls, socket, session, app>>

----------------------------------------------------------------------------
(* The host's data threads.                                                *)

NotCalling == [pc |-> "idle", from |-> 0]

\* The test of m_dwCurChannel, made before and apart from get_TsStream.
GetTsStream_Closed(r) ==
  /\ app[r].pc = "idle" /\ m_dwCurChannel = None
  /\ UNCHANGED tunerVars

GetTsStream_Call(r) ==
  /\ app[r].pc = "idle" /\ m_dwCurChannel # None
  /\ app' = [app EXCEPT ![r] = [pc |-> "called", from |-> first]]
  /\ UNCHANGED <<vars, ctl, calls, socket, session>>

GetTsStream_Enter(r) ==
  /\ app[r].pc = "called"
  /\ get_Enter(r)
  /\ app' = IF rd'[r].pc = "copy" THEN [app EXCEPT ![r].pc = "inside"]
                                  ELSE [app EXCEPT ![r] = NotCalling]
  /\ UNCHANGED <<ctl, calls, socket, session>>

GetTsStream_Copy(r) ==
  /\ get_Copy(r)
  /\ UNCHANGED <<ctl, calls, socket, session, app>>

\* The caller gets a pointer to m_pDst and copies from it, in the BYTE*
\* variant inside GetTsStream.
GetTsStream_Leave(r) ==
  /\ get_Leave(r)
  /\ app' = IF got'[r].ok /\ got'[r].data # << >>
            THEN [app EXCEPT ![r].pc = "holding"]
            ELSE [app EXCEPT ![r] = NotCalling]
  /\ UNCHANGED <<ctl, calls, socket, session>>

GetTsStream_Return(r) ==
  /\ app[r].pc = "holding"
  /\ app' = [app EXCEPT ![r] = NotCalling]
  /\ UNCHANGED <<vars, ctl, calls, socket, session>>

\* The bound leaves a purge for each SetChannel still to come.
PurgeTsStream ==
  /\ epoch + (MaxCalls - calls) + 1 < MaxPurges
  /\ purge_TsStream
  /\ UNCHANGED <<ctl, calls, socket, session, app>>

----------------------------------------------------------------------------

TunerInit ==
  /\ Init
  /\ ctl = Idle /\ calls = 0
  /\ conn = FALSE /\ s = 0 /\ shut = FALSE /\ bufsize = 0
  /\ g_pType = FALSE /\ m_dwCurChannel = None
  /\ m_bRecvThreadValid = FALSE /\ joinable = FALSE /\ first = 0
  /\ app = [r \in Readers |-> NotCalling]

Receive ==
  recvBody_Leftover \/ recvBody_End \/ \E n \in 1..DATA_BUF_SIZE : recvBody_Data(n)

TunerNext ==
  \/ OpenTuner \/ CloseTuner \/ \E ch \in Channels : SetChannel(ch)
  \/ stop_Shutdown \/ stop_Interrupt \/ stop_Join \/ stop_Reset
  \/ close_Free \/ open_Connect
  \/ set_Request \/ set_Update \/ set_Purge \/ set_Create
  \/ recvBody_Leftover \/ recvBody_End
  \/ \E n \in 1..DATA_BUF_SIZE : recvBody_Data(n)
  \/ RecvThread_Resume
  \/ \E r \in Readers :
       \/ GetTsStream_Closed(r) \/ GetTsStream_Call(r) \/ GetTsStream_Enter(r)
       \/ GetTsStream_Copy(r) \/ GetTsStream_Leave(r) \/ GetTsStream_Return(r)
  \/ PurgeTsStream

TunerSpec == TunerInit /\ [][TunerNext]_tunerVars

\* A control call goes on until it has to wait (connect and the header have
\* time limits); a thread that was woken gets the mutex; recv returns once the
\* socket is shut down.  Not assumed: that the server sends anything, or that
\* the host ever calls again.
FairTunerSpec ==
  /\ TunerSpec
  /\ WF_tunerVars(ControlStep)
  /\ WF_tunerVars(put_Resume /\ RecvThread_Resume)
  /\ WF_tunerVars(shut /\ Receive)

----------------------------------------------------------------------------
(* Properties.                                                             *)

CallPlaces == {"idle", "stop", "interrupt", "join", "reset", "free", "connect",
               "request", "update", "purge", "create"}

CallStates == [pc : CallPlaces, op : {"none", "open", "close", "set"},
               ch : Channels \cup {None}]

ControlTypeOK ==
  /\ ctl \in CallStates
  /\ calls \in 0..MaxCalls /\ s \in 0..MaxCalls
  /\ conn \in BOOLEAN /\ shut \in BOOLEAN /\ bufsize \in 0..DATA_BUF_SIZE
  /\ g_pType \in BOOLEAN /\ m_dwCurChannel \in Channels \cup {None}
  /\ m_bRecvThreadValid \in BOOLEAN /\ joinable \in BOOLEAN

CallerTypeOK ==
  /\ first \in 0..MaxBytes
  /\ app \in [Readers -> [pc : {"idle", "called", "inside", "holding"},
                          from : 0..MaxBytes]]

\* Every variable has its type, the ring's included.
TunerTypeOK == TypeOK /\ ControlTypeOK /\ CallerTypeOK

\* A socket is closed, or replaced, only while no receive thread runs, so that
\* no thread uses a descriptor number the system has given to somebody else:
\* the rule at http_proc.hpp:36-42.
CloseOnlyWhenNoReceiver ==
  [][s # 0 /\ s' # s => snd.pc = "gone" /\ ~joinable]_tunerVars

\* A block returned by a GetTsStream that began after SetChannel had returned
\* TRUE holds no byte of an earlier channel.
NoStaleChannel ==
  \A r \in Readers : app[r].pc = "holding" =>
    \A i \in 1..Len(got[r].data) : got[r].data[i] > app[r].from

\* A new receive thread finds an empty ring, a live socket and no left-over
\* shutdown request, and pthread_create overwrites no unjoined thread handle.
StartsClean ==
  [][snd.pc = "gone" /\ snd'.pc = "run" =>
       ~m_bShutdown /\ Used = 0 /\ s # 0 /\ ~shut /\ ~joinable]_tunerVars

\* Between control calls, a channel is current exactly when there is a receive
\* thread to join, with an open connection under it; and the tuner counts as
\* open exactly when its channel list is loaded.
IdleConsistent ==
  ctl.pc = "idle" =>
    /\ (m_dwCurChannel # None) <=> m_bRecvThreadValid
    /\ m_bRecvThreadValid <=> joinable
    /\ m_bRecvThreadValid => conn /\ s # 0
    /\ conn <=> g_pType

\* The block a caller is copying out of m_pDst is still the one it was given.
HeldBlockIntact ==
  \A r \in Readers : app[r].pc = "holding" =>
    \A i \in 1..Len(got[r].data) : m_pDst[i - 1] = got[r].data[i]

\* The session implements the service: whatever fails and however the threads
\* interleave, bytes enter the queue only from a stream that began on an empty
\* queue, under the current channel, and was the only one; and it is over before
\* the channel list goes or another channel is current.
Service == INSTANCE TunerService WITH
  queue <- Contents, Capacity <- RING_BUF_SIZE - 1, MaxBlock <- DATA_BUF_SIZE,
  call <- ctl.op, open <- g_pType, channel <- m_dwCurChannel,
  receiving <- snd.pc # "gone", since <- first

ServiceSpec == Service!ServiceSpec

\* Every control call returns, even when the ring is full, nobody takes blocks
\* and the server is silent.
CallReturns == ctl.pc # "idle" ~> ctl.pc = "idle"

=============================================================================
