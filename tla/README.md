# Specifications of BonDriver_LinuxMirakc

BonDriver_LinuxMirakc is a BonDriver: a shared library that a recording host
(EDCB on Linux) loads to watch the streams of a mirakc or Mirakurun server. This
directory holds TLA+ models of it, the TLC configurations that check them, and
proofs that TLAPS checks. Source paths are relative to the repository.

    tlc -config ring_stream.cfg MCGrabTsData.tla     # one run
    tlapm GrabTsDataProofs.tla                       # one module of proofs

## Inventory

| Component | Code | State | Operations |
|---|---|---|---|
| TS ring buffer | `src/GrabTsData.cpp`, `.hpp` | `m_pBuf`, `m_nPush`, `m_nPull`; `m_pDst`, `m_bReading`; `m_bPurge`, `m_bShutdown`; the bit-rate counters; one mutex, two condition variables | `put_TsStream`, `get_TsStream`, `purge_TsStream`, `Wait_TsStream`, `get_ReadyCount`, `get_Bitrate`, `RequestShutdown`, `ResetShutdown` |
| Tuner session | `src/BonDriver_LinuxMirakc.cpp` (`CBonTuner`) | `conn`, `m_dwCurSpace/Channel`, `m_hRecvThread`, `m_bRecvThreadValid` | `OpenTuner`, `SetChannel`, `CloseTuner`, `RecvThread`, `GetTsStream`, `PurgeTsStream` and the calls that only pass on to the ring |
| Tuning spaces | same file, `InitChannel` and the `Enum*` calls | `g_Channel_JSON`, `g_pType[]`, `g_Channel_Base[]`, `g_Max_Type` | the scan of the list; (space, channel) to entry |
| HTTP client | `src/http_proc.hpp` | the descriptor `s`, `buf`/`bufsize` | `connect`, `sendRequest`, `recvHeader`, `sendGetRequest_Wait*`, `recvBody`, `shutdown`, `disconnect` |
| Instance lifetime | `CreateBonDriver`, `Release`, constructor and destructor | `m_pThis`, `m_refCount`, the instance's memory and its ring | create or share, release |
| Settings | `src/config.cpp`, `src/util.cpp`, `Init` | the static `g_` settings; during a load `sections_` and the section that is open | `Load`, `Get`, `Trim`, `RTrim`, `Init` for every new instance |
| Character conversion, logging, interfaces | `char_code_conv.*`, `logoutput.hpp`, `include/` | none that outlives a call | - |

How they interact. A host has a *control* thread, which opens, tunes and closes,
and one or more *data* threads, which wait, read, purge and ask for the signal
level. `SetChannel` opens a stream over the HTTP client and creates the
*receive thread*, which loops over `recvBody` and `put_TsStream`. Control and
receive thread share the socket; receive and data threads share the ring. To stop
the receive thread, the control thread must end both of the waits it can be in:
`shutdown()` for the socket, `RequestShutdown()` for the ring; then it joins.

What is hard. A block is copied out of the ring **without** the mutex. A purge may
fall into that copy. The sender blocks on a condition that three other operations
can make true. The descriptor may be closed only when nobody uses it. A channel
change must not let bytes of the old channel through. Every step of `OpenTuner` and
`SetChannel` may fail half-way. `send` and `recv` cut requests and headers anywhere,
and the server may stop at any byte. Clients share one instance by a pointer that
is tested in one step and used in others. And the settings are static: they outlive
the instance they were read for.

What makes each component correct:

* ring: indices in range; a FIFO, whatever interleaves with the unlocked copy; a
  purge wins over a get in progress; no lost signal; a shutdown request always
  frees the sender; each byte counted once in the bit rate;
* session: close only without a receiver; each session starts clean; no stale
  bytes; the fields agree between calls, whatever failed; every call returns;
* tuning spaces: tables not overrun, names neither leaked nor dangling, every
  entry reachable by exactly one pair and listed under its own type;
* HTTP client: descriptors neither leak nor are closed twice; the request arrives
  whole; the caller gets the bytes after the final header, each once; limits hold;
  a silent server holds up no request and ends no stream;
* lifetime: nobody's instance is deleted; never two instances; the count is the
  number of references; nothing is left when the last client goes;
* settings: after each load they are those of that file alone; each value is what
  its line says; a decimal number has its decimal value.

`PROJECT.json` lists the hazards behind these, each at its line.

## Modules

| Module | Models | Composes |
|---|---|---|
| `TsFifo` | what the ring promises: a bounded FIFO with purge | |
| `GrabTsData` | the ring buffer, all operations | instantiates `TsFifo` |
| `TunerService` | what a tuner promises the host: calls that may fail, a channel, one stream at a time | extends `TsFifo` |
| `CBonTuner` | a tuner session, the receive thread, the socket's life, the data callers | extends `GrabTsData`, instantiates `TunerService` |
| `TuningSpaces` | the channel list, the spaces, DWORD channel numbers | |
| `HttpHeader` | what a response header is | |
| `HttpResponse` | what a request promises: the answer does not depend on the pieces it comes in | extends `HttpHeader` |
| `MirakcConnect` | one connection: addresses, descriptors, request, header, body, stream | extends `HttpHeader`, instantiates `HttpResponse` |
| `Lifetime` | the one instance and its clients | |
| `Config` | the INI loader and `Init` | |
| `MCGrabTsData`, `MCCBonTuner`, `MCTuningSpaces`, `MCMirakcConnect`, `MCLifetime`, `MCConfig` | the instances TLC checks | extend the above |
| `GrabTsDataProofs`, `TunerServiceProofs`, `CBonTunerProofs`, `TuningSpacesProofs`, `MirakcConnectProofs`, `LifetimeProofs`, `ConfigProofs`, `NumberProofs` | the proofs | extend the above; `CBonTunerProofs` instantiates `TunerServiceProofs`, `NumberProofs` extends `ConfigProofs` |

### GrabTsData

Everything in the ring is accessed under `m_pRingMutex`, so a critical section is
one action; the mutex itself is not a variable. That it is recursive matters in
one place: `Wait_TsStream` calls `get_ReadyCount` with it held, which makes the
test and the wait one critical section. `get_TsStream` is `get_Enter`, one
`get_Copy` per byte with the mutex released, and `get_Leave`. A condition wait is
a place where the thread is blocked, a wakeup (signal or spurious), and the next
turn of the loop. `get_Bitrate` reads the clock before it locks, so it is two
actions.

Bytes are numbered in the order they are stored; the content of a cell says which
byte it is, and nothing else about a byte matters. `nPut`, `epoch` and `got` are
history variables that no guard of the code's reads, except where they are
bounded. The clamp of `nAvail` (lines 41-43) is left out: it cannot fire when the
indices are in range, which `TypeOK` states and `TypeCorrect` proves. All sums
are below `2 * RING_BUF_SIZE`, far from the width of DWORD. The bit rate is kept
as the pair (bytes, ticks) that it is the quotient of. `pdwRemain` is left out.

`put_TsStream` with size 0 is never called: `RecvThread` leaves its loop first.

### CBonTuner

A control call is a chain of actions, `ctl.pc` naming the place:

    OpenTuner   stop [interrupt join reset] free connect
    CloseTuner  stop [interrupt join reset] free
    SetChannel  stop [interrupt join reset] request update purge create

The bracket is `waitForRecvThreadFinish` with a thread to stop. A failing
`OpenTuner` goes through `CloseTuner` again. A `SetChannel` whose arguments are
rejected is no step: it returns before its first assignment. Which pairs are
accepted is the business of `TuningSpaces`; here `Channels` is the accepted set,
and `m_dwCurSpace` with `m_dwCurChannel` is one variable because the code always
sets both.

The socket is numbered by the call that opened it. The copy inside
`GetTsStream(BYTE*)` is the place `"holding"` of a caller. `recvBody` and the
`put_TsStream` after it are one action: until it is put, what was received is the
thread's own. Data already in the socket can still be received after `shutdown()`.

Control calls come one at a time, as hosts make them and as the code, which has
no lock around them, requires; data calls come at any moment. `WaitTsStream` and
`GetSignalLevel` do not touch the session's state and are checked with the ring
alone, so the runs of this module have no waiters and no meters; nor does the
clock tick in it.

### TunerService

What all of this amounts to for a host, with no threads, no socket and no ring. A
control call begins and ends, at most one is in progress; the channel list is there
(`open`) or not; a stream is received or not; and what is received goes through the
FIFO of `TsFifo`. `OpenTuner` and `CloseTuner` give the channel up first and end the
stream later; `SetChannel` keeps the old channel until the new stream's header is
there, and fails by giving it up. `Tuned` is the promise of `SetChannel`: the new
stream begins on an empty queue, after the old one is over.

`CBonTuner`'s `Service` maps `call` to `ctl.op`, `open` to `g_pType`, `channel` to
`m_dwCurChannel`, `receiving` to whether a thread is running `RecvThread`, `since` to
the first byte of the session, and the FIFO to that of the ring. A step of
`waitForRecvThreadFinish`, the wait for the server and the unlocked copy are
stutters.

### TuningSpaces

One turn of `InitChannel`'s loop is one action. An entry of the list is its type
(or none, in which case reading it throws) and whether it has the fields that are
read later. `malloc` may fail for any name. `Accepts` is what `EnumChannelName`
and `SetChannel` both check, with DWORD addition modulo `DWORD`.
`SetChannel(BYTE)` is `SetChannel(0, bCh - 13)`, which the quantifier over all
channel numbers covers.

### MirakcConnect

A stream of bytes is a sequence of tokens: a status line of an interim or a final
response, a line end, or other text. `"\r\n\r\n"` is two line ends, which `recv` can
separate. One action is one system call that can block or fail, or one turn of
`recvHeader`'s inner loop:

    connect      connect_Socket / connect_Refused / connect_Done per address
    sendRequest  send(n) for any n up to what is left, send_Error, send_Done
    recvHeader   header_Interim, header_Malformed, header_Final on what is in acc,
                 else header_TooLarge or header_Recv
    ..._WaitBody collect_Limit, collect_Recv, collect_End
    recvBody     recvBody_Leftover, recvBody_Data, recvBody_End

`shutdown` comes at any moment beside them; who calls when is `CBonTuner`'s. HTTP
and Unix sockets differ in the number of addresses, which is chosen anew for every
call. `acc` is what `recvHeader` has and not yet used, `buf` the bytes that came
with the header, `wire` what the server has sent and nobody has read. `EINTR` is
retried in every place and is no step. A server that does not close may stop at
any byte and stay silent. The limit of the header is tested before a `recv`, so up
to `HEADER_MAX` and one `recv` may be stored: `MemoryBounded` states what holds.

`HttpResponse` is the promise without buffers: interim responses are skipped, the
first other status is the answer's, and the body is the bytes right behind its
header. Under the mapping, the place reached in the answer is what was sent less
what is still in `acc`, `buf` and `wire`.

### Lifetime

Each access to `m_pThis`, to the atomic count and to the memory of an instance is
an action, and clients interleave: the test in `CreateBonDriver`, the increment,
the read for the return; `Init`, `new`, the constructor's body and its last line;
`--m_refCount`; and the four steps of `delete this`. Memory that was freed is used
again by any later `new`. `Init`, `new` and the constructor may fail.

The code has no lock between the test of `m_pThis` and its use, nor between the
count reaching 0 and `m_pThis = NULL`. Two first creates at once would make two
instances, and a create beside the last release would share a dying one. That
cannot be blamed on the count alone: the BonDriver interface leaves it to the host
to create and release in turn. `MayBegin` is that rule, as weak as it can be: a
create or release may overlap with anything while some *other* client holds the
driver and is not about to give it back, and otherwise waits its turn. All five
invariants are about what the code does within this rule; without it they are
false.

### Config

A line is a sequence of characters, of which the loader tells a few kinds apart;
the digits are 0 to 15 so that the conversion of numbers is by value. The lexical
rules (`Stripped`, `NameOf`, `KeyOf`, `ValueOf`) are operators on lines that follow
the pointer arithmetic of `Load` with `Trim` and `RTrim`; one turn of the loop is
one action, and so is a call's beginning and its end. `Number` is `Section::Get`
with `stoi`: white space, a sign, 0x, digits up to the first other character, the
range of an int, and the default for what is no number; `Horner` and `PowerOf10` are
recursive functions. `Init` is called again for
every new instance and finds any file of `Files`, or none.

A tab is a blank. A NUL inside a line, where `Load` would end the line, and the
white space that `stoi` skips beside blanks and `'\r'` are left out. A file name
that does not fit is a file that is not found. `util::Separate` has no caller.

## Runs

| Run | Bounds | States | Shows |
|---|---|---|---|
| `ring_stream` | ring of 4 cells, blocks of 2, 7 bytes, 2 purges, one reader, one waiter | 863,382 | FIFO, stable block, no lost signal, purge wins, shutdown ends the put |
| `ring_two_readers` | ring of 3, blocks of 2, 4 bytes, 1 purge, two readers, one meter, 3 ticks | 1,227,128 | exclusive `m_pDst`, clock, bytes counted once |
| `session` | ring of 3, 3 bytes, 4 control calls, 5 purges, one reader | 440,856 | the session's properties, the refinement of `TunerService`, and that every call returns |
| `spaces` | lists of 0 to 4 entries of 2 types, 3 spaces, DWORD of 6 values | 40,048 | the properties of the tuning spaces |
| `http` | recv of up to 3 tokens, header limit 5, body limit 2, request of 2 bytes, 2 descriptors, up to 2 addresses; every stream of up to 4 tokens, answers with 0 to 2 interim responses, headers without end | 99,963 | the client's properties, the refinement of `HttpResponse`, that requests return and an interrupted stream ends |
| `lifetime` | 5 clients, 2 addresses | 8,500 | the lifetime's invariants under the host's rule |
| `settings` | every file of up to 4 headings and pairs; one pair with every text of up to 4 characters, or with a number; an int of 8 bits | 157,267 | the settings are those of the last file; values and numbers as written |
| `ring_stale_pull` | two readers, one purge | violation | finding 1 |
| `bitrate_two_callers` | two meters | violation | finding 2 |
| `session_two_holders` | two readers, blocks of 1 | violation | finding 3 |
| `spaces_last` | lists of 0 to 3 entries, 2 spaces | violation | finding 4 |
| `settings_remark` | as `settings` | violation | finding 5 |

Why the bounds are enough. A ring of 4 cells with blocks of 2 fills up, empties,
wraps in the middle of a put and of a get, and ends a put and a get exactly at the
end of the buffer; 7 bytes are nearly two times around. Two purges give a purge in
a get that began after a purge. Four control calls are open, tune, retune, close,
and every other order, with failures in each. Five purges let every `SetChannel`
purge and leave the host one of its own. Two types and four entries give the lists
A B A B and A B A, so types that return after another, more type changes than
spaces, and a list exactly as long as the spaces; DWORD is just wider than a list,
so a wrapped sum can land on every entry. With `recv` of up to 3 tokens a header end
is cut in every way, interim responses and body bytes come in the same `recv`, and
the two limits are passed by every amount they can be; two descriptors are
the most that are open, so a leak of one stops the next attempt. Five clients allow
two to overlap while others hold the driver and one waits its turn; with two
addresses an instance can be where the last one was, or elsewhere. Four lines hold a repeated
heading between others and repeated keys; four characters hold a blank, a quote, a
remark sign and a letter in every order; 8 bits are wide enough for numbers of
three digits on both sides of the limit, and the buffer of one character cuts every
longer text. Deadlock is checked in all passing runs.
The proofs below do without any of these bounds.

Fairness. `FairSpec` assumes that a woken thread gets the mutex, and that after a
shutdown request the receive thread's `recv` returns, because
`waitForRecvThreadFinish` has shut the socket down before. `FairTunerSpec` states
that second assumption from the socket itself (`shut`), and adds that a control
call which need not wait goes on; connecting and waiting for the header are
bounded by timeouts in the code (5 s and 10 s per receive). Nothing is assumed of
the host or the server: both may fall silent for ever, with the ring full.
`MirakcConnect`'s `FairSpec` assumes that a system call which can return does: data
that is there, the end of the stream, or the time limit when one is set. It does not
assume that a server takes the request, only that `send` gives up after
`SO_SNDTIMEO`. That requests return rests on a finite answer: line 317 of
`http_proc.hpp` skips interim responses without a bound and the time limit starts
again with each, so a server that sends them for ever is outside of the model and
listed as a hazard. `Lifetime` and `Config` state no fairness: nothing waits in them
but the host.

Mutants. For each property `PROJECT.json` names a plausible bug in the code (a
missing wrap, a lost signal, a skipped purge, an off-by-one) defined beside the
definition it changes, under which TLC finds the property violated.

## Findings

1. `GrabTsData.cpp:83`: with two readers the purge flag is consumed by the call
   that is refused, and the other reader stores its index from before the purge.
   The comment on lines 128-133 says it must not be touched. (`ring_stale_pull`)
2. `GrabTsData.cpp:248`: the clock is read before the lock, so with two callers the
   unsigned difference wraps, which lines 233-236 and 251-253 mean to exclude.
   (`bitrate_two_callers`)
3. `BonDriver_LinuxMirakc.cpp:310`: the block is copied out of the shared `m_pDst`
   after the guard is released; a second reader overwrites it.
   `GrabTsData.hpp:128-134` says concurrent calls are refused to prevent that.
   (`session_two_holders`)
4. `BonDriver_LinuxMirakc.cpp:639`: the last space takes all entries that are left,
   of any type; the comment on lines 637-638 speaks of those of its type.
   (`spaces_last`)

5. `config.cpp:176`: the search for an inline comment starts at the second character
   of the trimmed value, so `KEY= ;x` sets the key to `;x`. The comment on line 175
   says that a `;` behind a blank begins a comment. (`settings_remark`)

The first three need two host threads in the same call. With one reader and one
caller of `GetSignalLevel` the properties hold, are checked, and are proved.

## Proofs

All results are for every buffer size with `DATA_BUF_SIZE < RING_BUF_SIZE`, every
set of threads, channels and types, and every bound; the named ASSUMEs of the
modules are all that is assumed of the constants. Where a theorem needs one reader,
one waiter or one meter, it says so in its statement (`SingleReader`,
`SingleWaiter`, `SingleMeter`); findings 1 and 2 show that the hypothesis is needed.

`GrabTsDataProofs`. The arithmetic of the ring is stated once, without remainders
(`DistCases`, `CellStep`, `PushGrows`, `PullShrinks`, `ContentsFromPush`).
`TypeInv` strengthens the type invariant by what a blocked sender carries.
`StreamInv` is the inductive invariant of the FIFO: the ring holds the last `Used`
bytes in order; a reader's snapshot is still the front of the ring unless its
`epoch` is over, and if it is over, `m_bPurge` is set (so the get will give up);
what is copied is what was there. The last but one is where one reader is needed:
with two, another call may clear the flag. From it follow `BlockIsStable`,
`PurgeAlwaysWins`, `DataSignalKept` and `RingIsFifo`, the refinement of `TsFifo`:
a put is `Put`, `get_Leave` is `Get` or `Refuse`, a purge is `Purge`, all else is a
stutter. `TypeCorrect`, `DstIsExclusive`, `RoomSignalKept` and `BitrateCounts` hold
for any number of threads.

`CBonTunerProofs`. `TunerImplementsRing`: a session's step is a step of the ring or
leaves it alone, which carries the ring's theorems into every session. `ControlInv`
says which places of a call have a receive thread (`ReceiverOwned`) and what a call
has done on its way (`CallShape`); from it follow `IdleIsConsistent` and
`SocketOwned`. `SessionInv` adds that the ring is empty between the purge and
`pthread_create`, and that the number of the first byte of a session is not past
the front of the ring, nor a caller's mark past that number (`CallerMarks`): with
`StreamInv` this gives `SessionStartsClean` and `NoStaleChannelBytes`.

`SessionIsService` is the refinement of `TunerService`. It rests on three facts: only
a receive thread stores (`OnlyReceiverStores`), the ring's steps are steps of the
FIFO (`FifoStep`, from `StreamInv`), and the ring is empty when the thread is created
(`PurgedFirst`, a part of `SessionInv`); each step of a call is then one action of the
service or a stutter, with the guards from `ControlInv` (`QuietCallServes`,
`DataStepServes`). What the abstract service promises holds in every session by it:
`SessionBlocksInOrder` takes the theorems of `TunerServiceProofs` over, that every
byte is handed out at most once and in order, that a stream is received only under a
channel, or while a call that gave the channel up is on its way to end the stream,
and that no byte of an earlier stream is queued with it.
`RingInSession` does the same for `FifoSpec`, `PurgeWins` and `BlockStable`.

Two theorems are the safety half of `CallReturns`, for any number of readers.
`JoinNeverWaitsForBlocked`: with the control thread in `pthread_join`, both the
socket's shutdown and the ring's shutdown request have been made and neither is taken
back (`StopRequested`), and the thread does not wait in the ring. `CallsGetShorter`:
each step of a call decreases `StepsLeft`, which is 17 at most, so a call visits each
of its waits once and `OpenTuner` fails through `CloseTuner` once. What is left for
fairness is that a wait whose end has come is left.

`TunerServiceProofs`. The queue is always the last bytes that were put
(`QueueIsLatest`), and what was handed out ends before it. It assumes of the bound on
blocks only that it is a number (`Limits`).

`TuningSpacesProofs`. `CutInv`: the bases start a partition of the entries scanned
so far, each part of one type. `EveryEntryAddressedOnce` follows, with
`AddWraps` for the DWORD arithmetic; `NamesInv` gives `NamesAreOwned`.

`MirakcConnectProofs`. `ClientInv` is inductive for the six safety properties: it
adds which buffers a place of a call uses (`AnswerShape`, `CallShape`) and that an
empty line found in `acc` is less than one `recv` from its end (`HeaderBound`), the
reason why what follows a header fits into `buf` after any number of interim
responses. `Placed` says that `acc`, `buf` and `wire` are, in this order, the part of
the answer from `At` on; with it every step of the client is a step of
`HttpResponse` or a stutter (`ClientImplementsResponse`), for every stream, every
cut and all sizes. `WaitsAreTimed` and `RequestsGetShorter` are the safety half of
`RequestReturns`: a request waits in `send` and `recv` only with the time limits set,
and each step, a failed one too, goes on to a later part of the request or leaves
fewer addresses, bytes to send or bytes to receive. Like the model they are about a
finite answer.

`LifetimeProofs`. The invariants are not inductive: that the count is right when
`Drop` reads it depends on who else can be between two steps. `LInv` adds that a
client which makes or deletes the instance is alone (`Solo`), the host's rule as a
fact about states (`Pinned`), where pointers point and whom the memory belongs to
(`Pointers`, `Owned`), and that a built instance is counted or being deleted
(`InUse`). The step that matters is `Drop`: when it takes the count to 0, the
clients counted were this one only, so by `Pinned` nobody else is in a call. All
five invariants hold for any finite set of clients and any set of addresses.

`ConfigProofs`. `ReadsAsWritten` is about `ValueOf` for lines of any length and
content: the value is what the text behind the `=` says in the sense of `AsWritten`,
which mentions no search and no trimming. `FileRead` says that `sections` are those
of the lines read so far (`ValuesOf`), and `sct` the section of the last of them;
with it the settings are those of the file (`SettingsFromFile`), and values come from
a line of their key (`ValuesCorrect`).

`NumberProofs`. `NumbersCorrect` is about rows of digits of any length. The library's
induction theorems take a predicate, which the provers cannot instantiate; here
induction is over a *set* of numbers (`SetInduction`, from the least number that is
not in it), and a recursive function is shown to exist and to satisfy its equation
by the same argument (`Recursion`, `PowerIs`, `HornerIs`). `IsValueOf` says what a
digit is by division: digit i of n is the remainder by ten of the quotient of n by a
power of ten. `QuotientsAreDigits`: these quotients are the values of the prefixes
of the row exactly when n is the value of the row, upwards by `LastDigit` and
downwards by `QuotientOfQuotient`. `DecimalValue` follows; the rest is that `Number`
finds such a row whole, with base 10 however many zeros it starts with
(`DecimalText`), and `SettingsFromFile`.

Only model-checked: the liveness properties `ShutdownEndsPut`, `CallReturns`,
`RequestReturns` and `ShutdownEndsStream`, since the prover has neither ENABLED nor
liveness under fairness. Every invariant and every other property of a passing run is
proved.

## Not modelled

* The contents of the stream, URLs, names and log texts.
* Control calls overlapping each other, and data calls overlapping the destructor:
  the code has no lock against either and leaves it to the host.
* Data races on `m_dwCurChannel`, which data threads read without a lock: its value
  is modelled as the last one written.
* `WaitTsStream`, `GetReadyCount` and `GetSignalLevel` in the composition of
  `CBonTuner`. They change nothing of the session and pass on to the ring, where they
  are modelled and checked; a waiter or a meter multiplies the states of the
  `session` run by eight.
* JSON parsing (`picojson`), name resolution, `iconv` and the socket calls
  themselves: libraries, modelled by the results their callers tell apart.
* `CharCodeConv` (one `iconv` call under a mutex into a `thread_local` buffer),
  the logging macros and the interface headers: no state outlives a call.

## Order of work

The models were built from the ring outwards: `TsFifo` and `GrabTsData`,
`CBonTuner` and `TunerService`, `TuningSpaces`, `HttpHeader`, `HttpResponse` and `MirakcConnect`,
`Lifetime`, `Config`, each with its proofs. What would come next, in this order:

1. `CBonTuner` with the host's loop of `WaitTsStream` and `GetTsStream` after a
   close, where the ring still holds bytes but no channel is current, with
   `GetSignalLevel` across channel changes, and with `TuningSpaces` in place of the
   constant `Channels`.
2. `CBonTuner` over `MirakcConnect` in place of its own socket: that the session's
   calls keep the client's rules of who calls when.
3. Proofs: the two-reader part of the session (what remains true), and a refinement
   of an atomic reference count by `Lifetime`.
