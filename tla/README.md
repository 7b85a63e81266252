# A verification project for the network labs

The repository holds three independent programs: the RTP file transfer over UDP
(`src/2025-lab2-rtp-ThermosBottle`), the FTP client and server over TCP
(`src/2025-lab1-myftp-ThermosBottle`) and a set-up of the ns-3 simulator
(`src/2025-lab4-ns3-ThermosBottle`). This project models the first two completely and checks them with
TLC; with TLAPS it proves the safety of both modes of RTP, that the FTP server loses no descriptor, that no FTP session
disturbs another as long as no client is lost, and that a client and its thread stay in step and implement the session they promise as long as nothing fails. The third configures an external simulator and has no state of its own.

## 1. Inventory

| Component | State | Operations | Talks to |
|---|---|---|---|
| Sequence numbers, `seqnum.h` | none | next, equal, before, window and range tests on 30-bit numbers in 32-bit words | sender, receiver |
| RTP sender, `sender.c` | place in the program; `syn_seq`; `base_seq`, `nextseqnum`, ring (`head`, `used`, `acked`, `packets`), `unackedCnt`, position in the file, `isTimeout`, `retransmit_count` | handshake, fill window, receive acknowledgement (GBN, SR), timer, retransmit, FIN | receiver, by UDP |
| RTP receiver, `receiver.c` | place; `expected`, ring (`head`, `received`, `payload_buf`), output file | handshake, receive data (GBN, SR), acknowledge, FIN, quiet period | sender, by UDP |
| UDP and checksum, `rtp.h`, `util.c` | packets under way | lose, reorder, duplicate, corrupt | both |
| FTP server, `ftp_server.cpp` | descriptor table; per connection a thread with its place, its `client_fd`, `current_dir` and the variables of the handler; files on disk | accept, open, ls, cd, get, put, sha256, quit; `safe_send`, `safe_recv`, `close` | clients, by TCP; its own threads, by the file system and the descriptor table |
| FTP client, `ftp_client.cpp` | place in the program, `sockfd`, command and argument, local files | open, ls, cd, get, put, sha256, quit; `safe_send`, `safe_recv` | server, by TCP |
| TCP, `myftp_defs.h` | two byte streams per connection, which ends are open | send, receive, end of file, reset | both |
| ns-3 experiment, `dumbbell*.cc` | none of its own | configures a simulation | ns-3 (external) |
| Tests (`test.cpp`, `test_local`, lab scripts) and googletest | - | start the programs and compare files | - |

**Behaviours that are hard.** Each RTP program is one thread that waits in `recvfrom` with a
timeout. What makes it hard is the path between the two: an acknowledgement or a handshake packet
can arrive long after the phase it belongs to; every wait can end by timeout as well as by a packet;
both ends keep a window in a ring whose head moves, on numbers that wrap; and several counters
(8-bit `unackedCnt`, `retransmit_count`, `retry`) decide when a phase is over. In the FTP programs it is three
things: the server's threads share the descriptor table and the files with no lock; a descriptor is a number, which `safe_recv`
closes while its caller still holds a copy; and messages travel on a byte stream, so that one unit too few or too many
read, or a request that fails halfway, puts client and server out of step for the rest of the session.

**What makes each component correct.**

- Sequence numbers: the tests mean the same wherever the window lies on the ring.
- Sender: it frees only what the receiver has; its ring and counter agree with the packets in flight;
  it says FIN only when everything is acknowledged; it ends.
- Receiver: it writes a prefix of the input; what it buffers is at its place; it acknowledges whatever the
  sender may still retransmit; it closes only with the whole file, and then ends.
- Connection: the two windows stay in step; success means that the files are equal; the handshake goes through.
- FTP server: a thread touches only its own connection; no descriptor is lost; no client ends the server.
- FTP client: every command ends, and leaves nothing of its reply in the stream.
- FTP session: client and thread never wait for each other; a file that was put is the file that is got, though `put` is not
  acknowledged; transfers of other users may be mixed into a file, but no byte is shifted or invented.

`PROJECT.json` lists every hazard at its line, with the properties that cover it.

## 2. Modules

```
SeqNum ── RtpWire ─┬─ RtpSender ───┐
   │               └─ RtpReceiver ─┴─ Rtp ─┬─ RtpBlocks ─┬─ RtpGbn ─────── RtpGbnProofs
   │                 ReliableTransfer ──┘  │             ├─ RtpSr ──────── RtpSrProofs
   │                                       │             └─ RtpProofs, on which every Rtp...Proofs rests
   │                                       └─ MCRtpRetry ─ RtpRetryProofs
   ├─ SeqNumProofs, on which RtpProofs and MCSeqNumProofs rest
   └─ MCSeqNum ─ MCSeqNumProofs
```

```
FtpWire ─┬─ FtpClient ──┐
         └─ FtpServer ──┴─ Ftp ─── FtpFrames ─┬─ FtpSession ─┬─ MCFtp
              RemoteFiles ──┘                 │              └─ FtpSessionProofs
                                              └─ FtpFramesProofs, on which FtpSessionProofs rests
```
(lines of EXTENDS; `Rtp` instantiates `ReliableTransfer`, `Ftp` instantiates `RemoteFiles`)

- **SeqNum** - `seqnum.h`. `SEQNUM_MAX` is 2^30 in the code and a parameter here. A 32-bit word is
  `4 * SEQNUM_MAX` values, which keeps the ratio the signed comparison depends on. `Mask` is `& SEQNUM_MASK`.
- **RtpWire** - packets, the two channels, the arguments of the programs, ring slots. A packet is its set of
  flags, its number and the number of the block it carries. A channel is the set of packets that may still
  arrive: reception in any order is reordering, never receiving is loss, not removing is duplication. Bytes, the
  CRC and lengths are left out; whether the checksum of a packet matches is a free choice when `Corruption` holds.
- **RtpSender** - `sender.c`. `s_pc` is where the thread is:

  | `s_pc` | code | actions from there |
  |---|---|---|
  | `start` | first `sendto` of `rtp_handshake_sender` | `SenderStart` |
  | `synWait` | wait for the SYN-ACK | `SynReceive`, `SynTimeout` |
  | `confirm` | the last `recvfrom` of the handshake | `ConfirmReceive`, `ConfirmTimeout` |
  | `main` | top of the loop of `sender_send_data` | `MainExit`, `MainAbort`, `MainRound` (retransmits) |
  | `fill` | loop that fills the window | `FillSend`, `FillEof`, `FillFull` |
  | `recv` | receive loop | `RecvSkip`, `RecvStale`, `RecvCumulative` (GBN), `RecvSelective` (SR), `RecvTimeout` |
  | `fin` | `sender_send_fin` | `FinReceive`, `FinTimeout` |
  | `done`, `failed` | exit | none |

  An action is everything from one such place to the next, with the packets it sends. Time is not modelled:
  wherever the code reads the clock, both outcomes are possible (`TimerCheck`), and the timer that is
  always checked after a packet is part of that packet's action.
- **RtpReceiver** - `receiver.c`, in the same way: `listen`, `ackWait`, `data` (with the actions `Data...`), `finWait`,
  `done`, `failed`. The timeout of the data loop is a `continue` that changes nothing; it is not an action.
  In SR mode `malloc` may fail for a payload (`AllocFails`): the code acknowledges the packet all the same.
- **Rtp** - both programs, and the properties. `Init` is before the first SYN. `InitEstablished` is the
  state after an undisturbed handshake with no packet left on the path.
- **ReliableTransfer** - the abstract specification: the output grows along the input, the receiver closes
  with the whole file, the sender succeeds only after that; either may fail before.
- **RtpBlocks** - which number and which slot a block has. **RtpGbn**, **RtpSr** - the inductive invariants of the two modes.
  **SeqNumProofs**, **RtpProofs** (both modes), **RtpGbnProofs**, **RtpSrProofs**, **RtpRetryProofs** - the proofs.
- **MCSeqNum** - a window rolled around the number ring beside positions that do not wrap, which are the
  reference for the operators. **MCSeqNumProofs** - the proofs about it. **MCRtpRetry** - `Rtp` with a history variable that counts real timeouts.
- **FtpWire** - messages and TCP. A stream is a sequence of units: a header is two (12 bytes in the code), so that a reader one unit off
  reads every later header askew; a name is one; a file has as many as it has. `htonl` swaps the two digits of a number in base
  `Radix`, which is what it does to a word of bytes. The server's end of a connection is open while a descriptor, a thread inside `read`
  or the queue of `accept` refers to it (`ServerEnd`); data that meets a closed end resets the connection (`Reset`).
- **FtpClient** - `ftp_client.cpp`. `c_pc` is where the thread is: `prompt` (getline), `name` (sending the name), `reply`, `header` and `body`
  (the receives of a reply, of a FILE_DATA header, of a payload), `fileHeader` and `fileBody` (the sends of put), `exited`. `c_sock` is `sockfd`, which a
  handler has by reference or, in `handle_sha256`, by value (`RecvByRef`, `RecvByValue`); `c_ret` is what the handler returned.
- **FtpServer** - `ftp_server.cpp`. Threads are numbered as their connections. `t_pc` is where a thread is:

  | `t_pc` | code | actions from there |
  |---|---|---|
  | `idle` | not accepted yet | `Accept` (lowest free descriptor) |
  | `request`, `payload`, `putHeader`, `putBody` | inside `safe_recv` | `EnterRead`, then `ReadPart` and at last `ReadRequest`, `ReadPayload`, `ReadPutHeader`, `ReadPutBody`; or `ReadEof` (closes), `ReadReset`, `ReadClosedFd` |
  | `reply` | the first send of a handler | `handle_...`, `LsFails`, `BrokenPipe` |
  | `readFile` | `ifstream`, `popen` | `ReadFile` (a unit at a time), `Sha256Sum`, `ReadFileFails` |
  | `listing`, `dataHeader`, `dataBody` | the later sends | `SendListing`, `SendDataHeader`, `SendDataBody`, `BrokenPipe` |
  | `putOpen`, `putWrite` | `ofstream` with `trunc`, `write` | `PutOpen`, `PutWrite` |
  | `close`, `ended` | the `close` after the loop | `CloseFd` |

  A thread keeps its descriptor by number (`t_fd`) and uses whatever `fds` says it stands for at that moment. A thread inside `read` keeps the
  connection it found there (`reading`), as the kernel does, even when another thread closes the number.
- **Ftp** - clients and server, and the properties. **RemoteFiles** - the abstract specification of one user's session: a current directory, remote
  files that `get` copies here and `put` copies there, where storing happens after `put` has returned but before any later
  command of the session can look. **FtpFrames** - the inductive invariant of sessions that do not disturb each other. **FtpSession** - the inductive
  invariant of a client and a thread in step, and what `Ftp` implements `RemoteFiles` with. **FtpFramesProofs**, **FtpSessionProofs** - the proofs. **MCFtp** - a directory with one subdirectory, and the files and commands of the runs.

Definitions marked "Mutant" are wrong variants of the definition that follows them (a dropped guard, an
off-by-one). Nothing uses them; replacing the definition by its mutant must make a property fail, which is how
each property is known to depend on the code.

## 3. Runs

| Run | Checks | Shows |
|---|---|---|
| `seqnum` | `WindowIsCircular`, `RangesAreCircular`, `BeforeWithinLap` | the window and range tests are right across any wrap; the order test within one lap |
| `gbn` | type, seven safety invariants, the inductive invariant `GbnInv`, `TransferSpec` | Go-Back-N from SYN to FIN is safe and implements `ReliableTransfer`, with the sequence numbers wrapping and not |
| `sr` | four safety invariants, the inductive invariants `SrInv` and `SrArrival`, `BaseWithinFlight`, `TransferSpec` | selective repeat is safe across the wrap, once no handshake packet is left on the path |
| `sr_faults` | `PrefixDelivered`, `ReceiverRingCoherent`, `GivesUpAfterRetries`, `SenderTerminates` | with late handshake packets and failing allocations selective repeat may lose the transfer, but nothing wrong is written, the sender gives up only after `MAX_RETRY + 1` timeouts without progress, and it ends |
| `sr_stale` | `CompleteOnClose`, violated | a late SYN-ACK makes both sides close without a block |
| `gbn_live` | `SenderTerminates`, `ReceiverFollows` | the sender always ends; after success so does the receiver |
| `gbn_retry` | `GivesUpAfterRetries`, violated | repeated acknowledgements use up the retransmission counter |
| `ftp` | `TypeOK`, `OwnDescriptor`, `ServerSurvives`, the inductive invariant `FramesInv`, `BytesInPlace` | two users of one file: while nobody is disconnected threads keep to their own descriptors, the server lives and behind every header of a file there is the file; overlapping transfers shift no byte |
| `ftp_session` | `InStep`, `NoMutualWait`, `UploadKept`, the inductive invariant `StepInv`, `CommandEnds`, `SessionSpec` | one user's commands over two connections and two directories end, stay in step and implement `RemoteFiles` |
| `ftp_faults` | `EveryDescriptorServed`, `DescriptorFreed` | with clients that vanish at any moment, a second `open`, files and pipes that fail to open, SIGPIPE and threads that close each other's descriptors, no descriptor is lost, and that of a client that is gone is free in the end |
| `ftp_close` | `OwnDescriptor`, violated | a thread goes on with, and closes again, a number that `accept` has given to another client |
| `ftp_pipe` | `ServerSurvives`, violated | a client that vanishes during `get` ends the server |

**Bounds, and why they are enough.** `SEQNUM_MAX` is 16: more than twice the window, as in the code, and small
enough for the numbers to wrap inside a transfer (initial number 12 or 11: block 4 or 5 is the first after the wrap; initial
number 1: no wrap). `WindowSize` 3 or 4 with 5 or 6 blocks makes the ring wrap and be reused, and lets a packet in the middle,
at the head and at the end of a window be lost. `MAX_RETRY` 2 or 3 (100 in the code) makes each retry loop take the
first, a middle and the last attempt; the programs use the constant only in these comparisons, and
`retransmit_count` stops at `MAX_RETRY + 1` because it is only compared with `MAX_RETRY`. The channels are sets: with
duplication, one copy stands for any number of them, and every behaviour without duplication is, for the two programs, also one
with it. The safety runs of both modes therefore switch duplication and corruption on.

The FTP runs have two connections (`MaxConns`) and two descriptors (`MaxFds`): enough for one thread to hold a number that belongs to the other, and for a user
to connect again. `Radix` 8 keeps every length of the runs below one digit, so that a length that is not converted is larger than anything that is ever sent. The
files are one or two units long, of different lengths for the two users, so that one file can be a prefix of a mixture of both; reads may return any part of a message.
`Backlog` bounds what may lie unread when a user types a command: 4 units, or 2 in `ftp_faults`, where the client of a connection whose thread is gone could otherwise send
for ever; commands whose replies are read leave nothing unread. The set of commands differs by run (`CommandsOfA`, `CommandsOfB`) to keep each small; together they have all.
In `ftp_session` the one file is in the subdirectory only, so that `get` is refused before `put` and accepted after it.

What the constants exclude is excluded because the property does not hold there, as section 5 tells: `ftp_session` has no `sha256`, no empty directory, no
failing `open` and one user at a time; `ftp` has no vanishing client and no second `open`.

**Deadlock** is not checked: both RTP programs really stop (`done`, `failed`), a receiver whose sender has
given up waits for ever in its data loop, and so does an FTP client whose server has nothing to send, in the code as in the model.

**Fairness.** `FairSpec` has weak fairness of each program as a whole and of nothing else. `recvfrom` has a timeout, so each
program always has a next step and the operating system runs it; no packet need ever arrive. The live runs switch duplication off:
with it a path could feed one packet to a program for ever, which no program survives, and without it a program receives at
most as many packets as were sent, so that its timeouts come. The `FairSpec` of `Ftp` has weak fairness of the accept loop, of each server thread and of
each client as long as it does not wait for its user: each is a thread of the operating system in a loop or in a call that returns when it can. Users type, and processes are
killed, when they like; nor need the system choose SIGPIPE.

## 4. What is proved

All proofs hold for every value of the constants that satisfies the named assumptions `SeqNumAssumption`, `WindowAssumption`, `WireAssumption`,
`SenderAssumption` and `ReceiverAssumption`: any window (clamped to 128 as in the code), file length, number of retries,
set of initial numbers, with and without duplication, corruption and failing allocations; for FTP, `FtpWireAssumption`, `FtpClientAssumption` and
`FtpServerAssumption`: any clients, numbers of connections and descriptors, directories, files and commands. What a theorem assumes beyond that is
named in its statement (`GoBackN`, `SelectiveRepeat`, `Reliable`, `Orderly`, `Smooth`, `Sole`), and each of these is there because TLC shows a violation without it; only the `~DigestsAsked` of
`BytesKept` is what the proof needs (see the argument for sessions). No hypothesis is empty: the instance of a run satisfies each.

| Theorems of | State | For |
|---|---|---|
| `SeqNumProofs`, `MCSeqNumProofs` | `seqnum_before` is `<`; `WindowIsCircular`, `RangesAreCircular`, `BeforeWithinLap` | any ring, any window |
| `RtpProofs` | `TypeOK`; `SynAckConnects` | both modes; the second if 2^30 - 1 is no initial number |
| `RtpGbnProofs` | `GbnInv` and six invariants, `BaseWithinFlight`, `TransferSpec` | Go-Back-N |
| `RtpSrProofs` | `SrInv`, `PrefixDelivered`, `ReceiverRingCoherent`, `RingCoherent`, `UnackedCountExact`, `BaseWithinFlight` | SR, whatever the handshake left behind |
| `RtpSrProofs` | `SrArrival`, `CompleteOnClose`, `AckedHasArrived`, `WindowsInStep`, `TransferSpec` | SR, after a handshake that left nothing behind |
| `RtpRetryProofs` | `GivesUpAfterRetries` | SR |
| `FtpFramesProofs` | `EveryDescriptorServed` | FTP with every fault |
| `FtpFramesProofs` | `FramesInv`, `TypeOK`, `OwnDescriptor`, `ServerSurvives` | FTP while no client is lost |
| `FtpFramesProofs` | `BytesInPlace` | the same, without the command `sha256` |
| `FtpSessionProofs` | `StepInv`, `InStep`, `NoMutualWait` | any number of clients, as long as nothing fails (`Smooth`) |
| `FtpSessionProofs` | `UploadKept`, `SessionSteps` (the refinement of `RemoteFiles`) | the same, one client |

**Types.** `TypeOK` of RTP alone is not inductive: a retry counter at its bound in a place
that may increment it once more would leave its type. `TypeInv` adds `AttemptsLeft`: wherever a retry loop waits, an attempt is left.
The lemmas below it say what `Mask`, `Slot` and `Run` return; `RunType` shows that the slots the `while` loops slide over
are well-defined (a least stopping point exists).

**The argument for Go-Back-N** (`GoBackN`: fewer than `SEQNUM_MAX` blocks, that is a file of less than 1.5 TB, the empty one included).
None of these properties is inductive. `GbnInv` (module RtpGbn) ties the two
programs and the path together: block `c` travels under the number `Num(c)` only; the sender's base is the number of block
`BaseBlock`; the blocks `BaseBlock .. pos` are in the ring, the one at distance `d` from the head being `BaseBlock + d`, and nothing
else is; every acknowledgement on the path names a block up to the one the receiver expects; a FIN is on the path only when everything
was sent and acknowledged. Then an acknowledgement that passes `seqnum_before` names a block between `BaseBlock` and the block
the receiver expects (`GbnAckInWindow`), so the base never outruns the receiver; and a data packet with the expected number is the next
block, because fewer than `SEQNUM_MAX` blocks have distinct numbers (`NumInjective`). It is a curious part of
the invariant that the base is never masked: since `seqnum_before` is `<`, no acknowledgement after the wrap is accepted. In GBN that
flaw costs progress, not safety, and the proof shows exactly this.

Ring slots are handled through their distance from the head (`Dist`), which turns the modular arithmetic of the ring into linear
arithmetic (`SlotForm`, `DistOfSlot`, `DistOfMoved`, `LeadingByDist`).

**The argument for selective repeat** is in two halves, because the code is right in one of them only as long as no SYN-ACK is late (section 5, 1).
`SelectiveRepeat` asks that file and window together fit into the circle of numbers, and that the file has a block: with an empty file a late SYN-ACK,
which has the number of a first block that does not exist, would let the base pass `nextseqnum`.

- `SrInv` holds whatever the path and `malloc` do. The sender's ring holds `BaseBlock .. pos`, each at its distance from the head, the first of them
  not acknowledged, and `unackedCnt` is the number of those that are not. A filled slot of the receiver's ring holds the block whose distance from
  `NextBlock` is the slot's from `r_head`. Every acknowledgement on the path has the number of a block that was sent, or of the first. From
  this, *nothing wrong is written*: the window test admits a data packet only with the block that belongs into the slot it computes, because the blocks in
  question lie less than a lap apart (`NumDiff`); and sliding either window to its first gap leaves what remains in place. A late SYN-ACK may
  mark a block as acknowledged that never arrived: `SrInv` allows it.
- `SrArrival` adds that *nothing is given up too early*: the block of every acknowledgement on the path, of every slot marked in the sender's ring and
  of everything behind the base has arrived, in the file or in the receiver's ring. `Reliable` is what that takes: `SpecEstablished` begins with an empty path,
  and `AllocFails` is off, for the receiver acknowledges a packet even when `malloc` has failed to keep it. Then no FIN is sent before the whole file is
  written; and since the receiver has all that the base has passed and at most a window more, whatever the sender can still retransmit falls into one of the receiver's two
  windows (`SrReceiveWindow`, `SrReackWindow`).

**Giving up.** `RetryInv` says that `retransmit_count` never exceeds the timeouts counted since the base last moved, that the handshake fails before a
block is read, and that the FIN loop fails after all are acknowledged. It needs `Mode = 1`: in Go-Back-N the property is false (`gbn_retry`).

**The handshake.** `HandshakeInv` says that while the sender waits for its SYN-ACK the path holds nothing but its SYN and the SYN-ACK with the successor of that number on the
circle; unless the number is the highest, that is the `seq_num + 1` of the code. **The rings of MCSeqNum**: `RingInv` says that the difference of the two numbers
is that of the positions, give or take one lap, and that a number is its position with whole laps taken off.

**Descriptors.** `EveryDescriptorServed`: behind every descriptor there is a running thread that holds its number, and so will close it. It is not
inductive: `accept` may give a number only to a thread that was not running before, which needs that no thread runs whose connection was not accepted
(`IdleBeforeAccept`); and a read that returns lets only a running thread go on (`ReadersReceive`). With these, and the range of the control variables, it is (`DescriptorInv`).
The proof rests on one observation, `GoesOn`: every step of a thread but its last keeps it running and closes at most its own number, which can only take a
descriptor away from the threads it serves, never add one; each handler, send and receive is shown to be such a step.

**The argument for sessions.** `Orderly`: no client is killed or connects a second time without `quit`, and the files that exist at the start are no longer than a header can tell
(in the code, 2^32 - 13 bytes; `m_length` has 32 bits). Nothing else is excluded: any number of clients, all commands, `sha256`, empty directories and failing opens, so that client and thread
*may fall out of step and read on at the wrong place*. The server dies, or a thread loses its number to another, only if somebody closes a connection too early; and
somebody does that when it waits for bytes that do not come, or takes for QUIT_REPLY what is none. An invariant that says where in the stream each reader stands would be false. `FramesInv`
therefore speaks of *every* place of a stream: wherever the first unit of a FILE_DATA header is, the file follows that it announces (`Framed`), also when the file is only now being
sent and is still in the sender's buffer (`Download`, `Upload`); units of a file are no headers. So however askew a client reads,
what it takes for a header was sent as one, and what it then waits for is there. A client closes only after QUIT_REPLY, which its thread
sends as its last message (`QuitLast`); the first exchange of a connection cannot fail (`OpenGoesWell`); hence a running thread has its number (`HasOwn`). The body of
a put that a thread waits for is there, and so is the file it reads or writes (`ThreadInPlace`); a file that changes under a reader's eyes does no harm, for the header announces the length of the
buffer the file was read into. `FramesInv` is checked by the run `ftp`. That `TypeOK` follows only now is no accident: that no length is
negative is the same fact, that the header was sent as one.

The same invariant says what those files are made of: the unit at place `p` of a file, of a buffer that becomes one, and of what follows a FILE_DATA header in a stream is one that an original has at
place `p` (`UnitsAt`, `Mixed`). A thread appends to its buffer the unit at the next place, `fwrite` puts the buffer over the first places of what is there (`MixedWritten`), and so no place is ever
shifted, although nothing is locked and the reader may be out of step: `BytesInPlace`. The digest of `sha256` travels behind a FILE_DATA header too, so that with it `UnitsAt` has two units more,
and `BytesKept` is stated for clients that do not ask for one (`~DigestsAsked`). Small instances with `sha256` show no violation: a client that waits for its
file has just read the GET_REPLY, and no digest ever comes directly behind one; to prove this the invariant would have to speak of pairs of messages.

**Staying in step.** `Smooth` adds to `Orderly` that files open, that nobody uses `sha256`, and that every directory has something to list if `ls` is used: these are the disagreements
7-10 of section 5, of which each breaks `InStep`, `NoMutualWait` or `UploadKept`. Then an invariant can say where each reader stands, for any number of clients at once. The
difficulty is that nothing in the programs says so: client and thread are two programs on two streams, a message may be split anywhere, and `put` returns while the thread has still to
read the file and the client may have typed its next command. `StepInv` looks at each pair of a client and its thread through two sequences. `Ahead` is all that the thread will read of
the exchange: what `safe_recv` has taken, what is on the way, and what the client will send without waiting for an answer (`Unsent`). `ToCome` is all that the client will read: what is on the way, and what
the thread will send without reading (`Unanswered`). A step that only moves units from one part of such a sequence to the next changes neither, and most steps do just that (`PairedSame`,
`ReadsAhead`, `Says`). What remains says what the sequences are. A thread that has not answered (`Asking`) has the request ahead, or the name, or nothing, and possibly before
it the file of the last put that it is still storing (`Storing`, `ToStore`, `Ready`); one that has answered (`Answered`) has nothing ahead and is at the place its request leads to, and what is
to come is the answer, the rest of a listing or of a file, of the length that the client has been told. A header read from `Ahead` is therefore the one that was sent (`Parts`, `Begins`), and so the
length and the name a thread works with are the client's. `InStep` is a conjunct of it. `NoMutualWait` follows since a thread that still reads has sent all it will send, of the length
the client waits for, and a client that waits has sent all it will send (`NoWait`). `StepInv` is inductive relative to `FramesInv`, which knows that descriptors and streams are not shared.

With several clients a file may change between the sends of one exchange, as item 11 tells, so what the files contain is said for one client (`Sole`): what the last put has reported is on its way, or is in
the file (`Stored`); what get has read so far is the beginning of the file, which nobody changes meanwhile (`GetBegun`). Those parts give `UploadKept`.

**The session.** `SessionStepsTaken`: with one client the programs take the steps of `RemoteFiles`. Its current directory is that of the thread made last (`CurrentDir`), its upload what that
thread stores or has still to read, as soon as all of it is there (`OnItsWay`). That definition looks at the units in the stream, which is what an observer
of the server could see; the proof needs to know when it changes, and `UploadSeen` shows that it is there exactly from the return of `handle_put` on: the thread has answered, and the client is
not about to send the header or the contents (`UploadSent`). So the last send of `handle_put` is the put of the session; reading the file, in whatever pieces, is no step of it; opening the file is `Truncate`,
writing it is `Store`. While an upload is on its way nothing else may happen in the session: that a `get` or `cd` typed meanwhile is only answered after it, because the thread
reads in order, is what the proof shows. `Newest` says that the client's connection is the last one, and that a new thread starts in the first directory, for `open` to be the `Login`
of the session.

**Only model-checked.** That what is put is stored in the end (the fairness in `SessionSpec`; the rest of it is `SessionSteps`), and the liveness properties `SenderTerminates`, `ReceiverFollows`, `CommandEnds` and `DescriptorFreed`,
are beyond the prover. The runs check every invariant that the theorems state, on their instances; `Newest` and `UploadSeen` need no run of their own, being proved.

## 5. Where code and documentation disagree

1. **A late SYN-ACK acknowledges the first block (SR).** The receiver repeats its SYN-ACK on timeouts; one that arrives in the data
   phase has the ACK flag and the number of the first data packet, and `sender.c:428` looks at nothing else. If that packet was
   lost, it is never sent again; when the rest fits in the window both sides close without it (`sr_stale`).
2. **`seqnum_before` ignores the wrap** its comment (`seqnum.h:44`) says it considers: 30-bit numbers never make the signed 32-bit
   difference change sign (theorem `BeforeIsLess`: on masked numbers the test is `<`).
3. **`retransmit_count` counts acknowledgements (GBN).** `sender.c:472` adds one for each acknowledgement that leaves packets outstanding, though nothing is
   retransmitted (`gbn_retry`).
4. **Initial number 2^30 - 1.** `sender.c:153` compares with `seq_num + 1` unmasked, the receiver answers with the masked number, and the
   handshake cannot go through. No run has this number in its `InitialSeqs`; with it `SynAckConnects` fails.
5. **A thread goes on with a number it has closed.** At the end of file `safe_recv` closes the descriptor and marks a by-value copy of it as closed
   (`ftp_server.cpp:564-565`); the thread still has the number, reads from it after `get` and `put`, and closes it once more (`:78`). `accept` may have given it to
   another client by then (`ftp_close`). The thread then takes that client's bytes, and a request of one user can end up in a file of another: `BytesInPlace` is
   therefore checked where no client is lost (`ftp`).
6. **SIGPIPE ends the server.** It writes with `write` and ignores no signal, so the EPIPE branch of `ftp_server.cpp:529` is reached only if
   somebody else ignores the signal (`ftp_pipe`). The client's `safe_send` has `MSG_NOSIGNAL` (`ftp_client.cpp:673`).

The following are excluded by the constants of the runs; the property named fails when they are let in:

7. `handle_sha256` uses the length of the reply in network byte order (`ftp_client.cpp:595`; `myftp_defs.h:58` says that the field is big-endian): the client waits
   for bytes that never come (`NoMutualWait`, with `sha256` among the commands).
8. `ls` of an empty directory returns before the one byte of its listing is read (`ftp_client.cpp:316-318`): every later reply is read one byte off (`InStep`, with an
   empty directory).
9. After GET_REPLY (`ftp_server.cpp:332`) or SHA_REPLY (`:467`) with STATUS_OK the file may fail to open; nothing follows, and the client waits (`NoMutualWait`,
   with `OpenFails`).
10. `put` returns success when the last byte is in the socket (`ftp_client.cpp:548`); the server may be unable to open the file (`ftp_server.cpp:413-416`), and says so to nobody
    (`UploadKept`, with `OpenFails`).
11. Two `put` of one name at a time leave a mixture of both files (`ftp_server.cpp:419`, no lock). `UploadKept` is a property of one user at a time; what holds
    for two is `BytesInPlace`.

## 6. Not modelled

- RTP: fatal failures of `fopen`, `fread`, `fwrite`, `sendto` and of the allocation of the rings (the program exits there); real time, that is how long timeouts are, and
  so how likely a late packet is; the CRC itself (a corrupted packet is assumed never to match it).
- The empty file under RTP is in the model for safety (the theorems need `FileLen \in Nat` only). No packet starts its timer and `last_update` is read uninitialised
  (`sender.c:252`), which the free outcome of `TimerCheck` covers; that the sender ends is checked for files with at least one block.
- FTP server: the descriptors that open files and pipes use; the set-up of the listening socket; failures of `std::thread`; the `listen` backlog of
  16 connections; the cut of a listing at 2047 bytes.
- Both FTP programs: short writes and full socket buffers, with the retries after EINTR and EAGAIN (a send puts its whole message into the stream, or fails); a name longer
  than one unit.
- FTP client: mistyped commands and arguments, the check of the characters of a `cd` argument, and what is printed.
- ns-3 experiment (configuration of an external simulator, no state of its own), the tests and lab scripts, googletest.

## 7. Plan

1. *Done:* sequence numbers, both RTP programs, their composition, the abstract transfer, liveness; the FTP server, client and session with their faults,
   the abstract session, liveness.
2. *Proved:* types and handshake of RTP, safety and refinement of Go-Back-N and of selective repeat, when selective repeat gives up; the operators of `seqnum.h`; that the FTP server loses no
   descriptor, that sessions do not disturb each other, that client and thread stay in step, and that one user's session implements `RemoteFiles`. Every invariant that a passing run
   checks is stated by a theorem, for every value of the constants that meets the hypotheses the theorem states.
3. **Proofs left:** `BytesInPlace` with digests (what comes directly behind a GET_REPLY is a file); `InStep` and `UploadKept` for a server whose files may fail to open, away
   from the commands of items 9 and 10; whether they hold there has not been checked.
