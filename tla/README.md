# A TLA+ model of the wireless DAPLink

Two ESP32-S3 boards form a wireless programmer. The *Gateway* is plugged into a PC and speaks a
framed protocol over USB CDC; the *Probe* sits at the target, an MSPM0G3507, stages an image in
its own flash and programs, verifies or backs up the target over SWD. Between them runs a
reliable, ordered, session-numbered link over ESP-NOW. This directory models the way of an image
from the tool's file to the target's flash: the USB link, the Gateway's application, the radio link,
the Probe's application and programmer, and the Probe's work on the target over SWD down to single
transfers. TLC checks the models on small instances; theorems about every one of these parts are proved
for every value of the parameters.

## The system

| Component | State | Operations | Hard behaviour | What makes it correct |
|---|---|---|---|---|
| `transport_espnow` (both boards) | session, next sequence, tx queue and slots, receive base, generation and slots, peer session, recovery | send, complete, recover; `tx_task`, `rx_task`, receive callback | loss, repetition, reboot of one side, asynchronous completion, timeouts, two recovery protocols, two cores | every frame of a session handed over once, in order; nothing acknowledged that is not committed; the stream never stops for good |
| `storage` | image partition, manifest, bytes written, ready | begin, write, read, finalize, invalidate | no lock, two tasks, failing erase and write, power loss | ready means that the partition holds the manifest's image |
| `programmer` | task and kind, operation id, progress, abort flag, target's flash | start, abort, backup, target query, loader test, reset | a task of its own, reads storage while it runs, failing loader commands | DONE only for a verified image; one user of the SWD pins; repetition is harmless |
| `probe_app` | queue of messages, active message | one handler per message, session event, watchdog | three tasks on two cores | an erase only for a complete image; a session change does not disturb an operation |
| `gateway_app` | staged image, progress, cached error, program queue | USB commands, image transfer, radio events | another image begun while one is sent, a session change in mid-transfer, USB away when an error arrives | showing an error drops no newer one; only an image of the operation's own time is programmed |
| `gateway_usb` | chunk queue, decoder buffer | receive callback, decoder task, send | dropped chunks, frames cut by a failing driver | a frame that arrives whole is handled, and nothing else is |
| `protocol` | none; codecs, manifest validation | COBS, manifest, radio frame, progress, target information | sums of 32-bit fields at their limits | what is accepted is what the documentation says |
| `arm_adi`, `swd_phy` | connected, selected AP bank; pins | connect at rising speeds, word access, reset pin | WAIT and FAULT, posted reads, a bad write noticed one transfer late | no word touched but the one asked for; pins released between operations |
| `cortexm_debug`, `mspm0g3507`, `mspm0_loader` | none; the target's mailbox | halt, run, registers, reset; identification; upload and execute | resets and breakpoints of the application between two accesses, another chip plugged in | a loader command is carried out at most once and reported done only if it was |
| `security`, `diagnostics`, `common`, `main` | keys, none, none, none | configuration, log, CRC, start-up | none | not modelled: no state that changes |
| `tools/datlink_cli` | request id, pending events, backup | requests, events, backup, making of a manifest | late, cut and repeated frames, killed processes | an answered request was executed; only frames that were lost or cut make it break on what it reads |

A command travels from `gateway_app` through `datlink_transport_send`, is delivered by the
Probe's `rx_task` to `probe_app`'s queue (`DATLINK_RX_ASYNC`), is worked on by `app_rx_task` and
completed by token; the completion commits the slot and lets the base, and so the
acknowledgement, move. A command the worker refuses becomes a `COMMAND_ERROR` frame of the
opposite direction. When the transport sees the peer's session change it calls
`transport_event_handler`, which on the Probe invalidates the staged image.

## Modules

| Module | What it is |
|---|---|
| `Transport` | both boards' transport: one action per step of `tx_task`, `rx_task` and the application |
| `OrderedExecution` | what the transport promises: frames of a session run once, in turn, or are refused |
| `TransportMC` | values of the constants for TLC |
| `TransportProofs`, `OrderedExecutionProofs` | theorems |
| `Staging` | `storage`, in the pieces between which another task may act |
| `Programmer` | `programmer`, EXTENDS `Staging` |
| `Probe` | `probe_app`, EXTENDS `Programmer` and composes the three |
| `ProbeMC` | two images that share a sector |
| `ProbeProofs` | theorems: the SWD pins, the staged image, the operation and the backup |
| `Gateway` | `gateway_app`, EXTENDS `Staging` with the Gateway's image; the Probe's image is a second `INSTANCE` of it behind the ordered link |
| `GatewayMC` | two images, the second of which begins like the first and goes on |
| `GatewayProofs` | theorems: the cached error, the image an operation programs |
| `SwdPort` | `swd_phy`, with the debug port of the target it talks to (external) |
| `ArmAdi` | `arm_adi`, EXTENDS `SwdPort`: each function as the set of its outcomes |
| `LoaderService` | what the programmer relies on when it orders a command of the loader |
| `Loader` | `cortexm_debug`, `mspm0g3507`, `mspm0_loader` and the loader on the target, composed with the operations of `programmer`, EXTENDS `ArmAdi`; refines `LoaderService` |
| `LoaderMC` | the target's words and registers |
| `LoaderProofs` | theorems about the target, and the refinement of `LoaderService` |
| `Cobs` | the framing of `protocol`, byte by byte |
| `CobsProofs` | theorem: what is framed is unframed again; lemmas about both |
| `UsbLink` | `gateway_usb`, the tool's client and a Probe that streams backups, EXTENDS `Cobs` |
| `UsbLinkMC` | the records of the frames |
| `UsbLinkProofs` | theorems about both directions of the USB link, EXTENDS `CobsProofs` |
| `Manifest` | making and validation of a manifest, and the rules of the documentation over sets of bytes |
| `Image` | the loops of `programmer` over the bytes of an image, EXTENDS `Manifest` |
| `ImageMC` | files and manifests at their edges |
| `ImageProofs` | theorems about manifests and the bytes in the flash |

The modules meet at three places. `Probe` uses a loader command as `LoaderService` describes it (it
may fail after doing all, half or none of its work), and `Loader` is shown to refine that. `Image`
does the same for the bytes of one command. `Gateway` uses the radio link as `OrderedExecution`
describes it, which `Transport` refines.

### Transport and the code

Variables are the file-scope state of `datlink_transport.c`, named in the declarations. A step is
one pass of a task between two points where other tasks see it: `SendControl`, `AllocateSlot`,
`SendSlot`, `SendHello` and `LinkDown` are the branches of `tx_task`; `Receive*` is one frame in
`rx_task`, with everything its handler does; `AdvanceCommitted`, `QueueHeadError` and
`ServiceHead` are `service_rx`, which runs once after every frame (`serviced`); `ResyncRetry`,
`ResyncExhausted` and `GapTimeout` are `recovery_tick`; `Send`, `CompleteRx` and `Recover` are
the calls of the application, and `Restart` a reboot.

Abstractions:

- Time: a timer the code tests may have expired at any such test. The number of fast retries and
  the recovery interval are therefore one: a slot may be sent again at any time. `LinkDown` stands
  for both of its causes: it may happen at any time on the boards in `Fading`, and on every board
  that follows a session its peer has left, because such a board accepts no frame.
- The radio loses frames and does not reorder what one board sends; repetition comes from
  retransmission. Authentication and the checksums are taken as working, so there is no corrupt or
  foreign frame.
- Sessions, random in the code, are fresh numbers. A nonce is fresh among the requests and replies
  that are still under way, so that recoveries may follow each other without end. Sequence numbers do
  not wrap.
- Order of slots in the arrays is abstracted: slots are sets.
- `Settled`: a frame leaves `tx_task` only while no `rx_task` is between a frame and its
  `service_rx`. A frame sent in between carries what it would have carried just before or after.
- One frame is put on the air in one step. The code copies a slot, with the session it was given,
  under the lock and fills in the acknowledgement after it; a change of state in between is not
  explored. `tx_task` is the only sender, so such a frame still goes out before those of a new
  session. An item that left the queue and has no slot yet when the session rotates is explored: it
  opens the new session (`RotateEpoch`).
- `AppQueue` counts the frames in the application's queue and in its worker's hands.
- A board whose handler is not set yet, which defers everything, is left out.
- Bounds: `Commands`, `Epochs`, `Resyncs` and `Heartbeats` limit what happens, never what a
  handler does: a step that would exceed one does not occur. `Resyncs` is the number of nonces a
  board may have under way at a time, not of its recoveries.

### Probe and the code

`Staging` gives each function of `datlink_storage.c` as its separate effects, because none takes a
lock: `BeginImage` then `EraseImage`, `WriteBlock` or `FailBlock` then `CountBlock`, `Complete`
then `MarkReady`. `Programmer` follows `programmer_task` and `backup_task` line by line with `job`
as their locals: copy the manifest, connect, load, erase, program, verify, reset, report, release
the pins, clear `s_task`. `Probe` is `app_rx_task`, one message at a time; `app.at` is where it is
between two pieces. The session event reads `programmer_is_busy` in one step and invalidates in
another; the watchdog decides in one and restarts in another.

Abstractions: a block stands for the bytes of one write, one loader command and one sector, so an
image's sectors are erased in the order of its blocks; the data of an image stand for its CRCs and
its SHA-256; a manifest that does not validate, and any rejected message, changes nothing and is
no action; a loader command may fail after doing all, half or none of its work, and one that
reports success may leave a bad block; replies, progress frames and status codes are left out; the
copy of the manifest structure is not torn. The programmer's task has the higher priority on the
core of `app_rx_task` and has copied the manifest before that task runs again (`Runs`); the
session event runs on the other core and may fall in between. The branch of the watchdog for a phase
of an operation on the flash (`probe_app.c:258-267`) is never reached and has no counterpart: a query
finds the phase of an operation that is over, and no other runs beside it.

### Gateway and the code

`usb`, `transfer` and `TakeError` are `usb_handler`, `program_task` with `transfer_image`, and
`app_rx_task`. A request first copies a waiting error, shows it, clears it if it is still the same
(`Request`, `ShowPending`, `ClearPending`) and is then executed; each send of `transfer_image` is a
step that reads the manifest and the partition as they are then. A write to the partition may fail, and
the block may then come again. `link` is the promise of
`OrderedExecution` seen from the sender: commands of a session reach the Probe's queue in order,
each at most once, and `LocalEpochReset` (`rotate_local_epoch`) loses what has not reached it,
except one item that `tx_task` had taken out of its queue. The Probe is its image, its queue and
its flash operation, each command in one step; the pieces, failures and restarts of the Probe are
in `Probe`.

Abstractions: a request the code refuses, and one that only asks, is `Answer`; a refused command
is `PeerRefuses`, and one that fails although its guard holds is only modelled for the commands
that are not part of a transfer; the 30 s of `datlink_transport_flush` may pass at any time, and a
send may fail when the transport holds `LinkQueue` commands; errors are numbered, since each names
another frame; a manual recovery (`TRANSPORT_RECOVER`), for which the link does not keep its
promise (run `manual_repeat`), `s_progress` and the events that app_rx_task only passes on are left
out.

### Target and the code

`SwdPort` is the pins and the target's debug port in one record. `Transfer` gives every outcome of
`swd_phy_transfer`: an acknowledge that is not understood, which may leave the two sides out of step
until the next line reset, a read with bad parity, and a write whose data is corrupted, which the
target acknowledges and reports at the next transfer (its sticky error). `ArmAdi` composes transfers
in the order of the code: the cached bank, the posted read and RDBUFF, the ladder of
`arm_adi_connect`. In `Loader` every function of the layers above is a sequence of accesses
(`Routine`), every operation of `programmer.c` a sequence of functions (`Job`); one access is one
step, and between two of them the target's core, the user's reset button and the plug take theirs.
`core`, `sram` and `flash` are the target; its application may overwrite the SRAM and stop at a
breakpoint; the loader follows `loader_entry`, with one step for each point another party can see.

Abstractions: a word is named by its use; one erase and one program command, both for sector 1; bits,
parity and clocks are what `Disturbance` says they can do; two tries stand for the code's larger
numbers of them; the write of unaligned data by read-modify-write is left out, since every caller
aligns. The branch of `transfer_retry` for WAIT after the loop (`arm_adi.c:112-124`) is never taken,
because the loop turns WAIT into a timeout, and has no counterpart.

Seen while modelling: the comment at `programmer.c:225` that a failure leaves the core halted does not
hold when the failure is a reset that did not work or a target that was unplugged.

### USB link and the code

Bytes to the Gateway go one by one from the tool's write through `RxCallback` (chunks of any split, a
full queue drops one) to `Decode`, the loop of `decoder_task` for one byte: collected, or dropped with
all before it when the buffer is full, or the zero that ends a frame. Towards the host a frame is two pieces,
because what matters there is that `gateway_usb_send` may be cut short and that
`_read_frame` may time out between two reads. A process of the tool may end at any moment and the
next one finds what is left on the wire (`HostOpen` drops what has arrived, not what is under way).

Abstractions: a record is a type, an id and a payload of few bytes with a CRC no other record has;
requests are asking for information, data, and a backup; ids of processes do not collide (the tool
draws them at random); `wait_result` and `wait_event` are left out. Memory for a decoded frame is always
found: `gateway_usb.c:54` and `datlink_protocol.c:184` would drop the frame without a word, which
`IntactIsHandled` does not allow for. A request is on the wire whole; one whose process died in the middle
of its write is, to the Gateway, one whose last chunks were lost. `PeerRepeat` is the repetition of a block
that `client.py:248-250` expects: the Gateway of this commit answers a failed flush with a `COMMAND_ERROR`
and does not repeat the event, but a manual recovery of the link can (run `manual_repeat`). `torn` is a
history variable: a frame to the process that is open was lost, or cut by the driver, by the moment the
port was opened or by the deadline of a read. The host is `BROKEN` when the tool stops with an error about
what it read, and not with one that the Gateway or the Probe reported.

Seen while modelling, and no property because nothing in the repository promises otherwise or because
the outcome is a visible error: `_read_frame` forgets a part of a frame at its deadline, and the rest
of that frame is then an uncaught `ValueError` although the comments at `client.py:171-173` and
`204-205` describe waiting on; `PROGRAM_RESULT` is not compared with an operation id by the tool.

### Image and the code

`HostLoads` is `load_image` and `encode_manifest`; `ClientSends` is any other client of the USB
protocol. `Receive` is the validation at reception, `Begin` the second one and the list of sectors.
`EraseSector`, `ProgramChunk` and `VerifySegment` are one iteration of `erase_sectors`,
`program_segments` and `verify_segments` (the last with its inner loop, which only reads), with each
check they make on the way, those of `datlink_storage_read` and of the loader included: a check that
fails ends the operation with a status of its own, so that a property can say it never does. Addresses
are numbers of fixed width and wrap. A byte of the flash tells where it came from. `burnt` is a
history variable: the words programmed since their sector was erased, including by operations before
this one.

Abstractions: byte k of the staged data is k + 1, and so a CRC or a hash is the sequence it is taken
over; the staged partition does not change meanwhile (that is `Probe`); the parsing of ELF and HEX
files yields the chunks of a file. `Rules` is what `docs/protocol.md:116-122` says of ranges and, besides,
that no segment is empty, which is in `datlink_protocol.c:223` and not in the document; its rule about the
CRCs and the hash is checked when the data are there (`HostImageVerifies`, `SuccessHoldsImage`).

Seen while modelling: a manifest whose data are in another order than its segments is accepted, and
its final hash, which is taken in the order of the segments, then fails after the target was erased and
programmed. The tool never makes one. The verification looks at the image's bytes only, not at the
padding.

## Runs

| Run | Module | Result | Question |
|---|---|---|---|
| `windows` | `TransportMC` | holds | `TypeOK`, `OneAtATime`, `InOrder`, `TxWindowContiguous`, `AckedWereCommitted`, `InProgressHasWorker`: windows of two, two commands, errors, one recovery of the Probe at a time, after a gap or up to the request of a manual one, with a retry |
| `sessions` | `TransportMC` | holds | `AtMostOnce`, `CompletionIsCurrent` and the refinement `ExecutionIsOrdered` across a reboot or a new epoch of the Gateway and link losses of the Probe |
| `delivery` | `TransportMC` | holds | `EveryCommandSettles` under fairness: equal windows, two commands and the errors they cause, gap recoveries by both boards, again and again, with retries and a second session of each |
| `stale_ack` | `TransportMC` | violated | `NoLossByAck`: after a reboot an old acknowledgement frees a new frame |
| `manual_repeat` | `TransportMC` | violated | `AtMostOnce`: a manual recovery makes a command run twice |
| `mutual_stall` | `TransportMC` | violated | `HeadErrorReported`: two full transmit queues hold back each other's errors |
| `probe` | `ProbeMC` | holds | `TypeOK`, `ReadyIsStaged`, `DoneIsVerified`, `EraseNeedsImage`, `SwdExclusive`, `BackupFaithful`, `AcceptedRan` |
| `probe_repeat` | `ProbeMC` | violated | `RepeatIsHarmless`: a completed operation is repeated after a target query and erases again |
| `gateway` | `GatewayMC` | holds | `TypeOK`, `ErrorIsShown`, `FreshImage`: two images, two operations, failing writes, changes of session, restarts and errors at any moment |
| `target` | `LoaderMC` | holds | `TypeOK`, `AccessExact`, `ForeignUntouched`, `PinsReleased`, `SuccessRuns`, `SuccessIsProgrammed`, `OperationAdvances` and the refinement `ServiceSpec`: every operation on the expected chip and on another, with a disturbed transfer and a reset or an unplugging |
| `usb_link` | `UsbLinkMC` | holds | `TypeOK`, `HandledWereSent`, `IntactIsHandled`, `AnsweredWasHandled`, `BreaksForCause`: two requests of processes that may be killed, with a lost chunk, a lost or cut frame, or a repeated block |
| `image` | `ImageMC` | holds | `TypeOK`, `AcceptsExactly`, `NeverRefused`, `ProgrammedOnce`, `OutsideUntouched`, `SuccessHoldsImage`, `HostImageVerifies`: files and manifests at their edges, from validation to verification |

The violated runs contradict a sentence of the documentation, of the change log or of a comment;
`PROJECT.json` quotes it under "findings" with the line of code. Two more weaknesses of the code are
in the models and not runs of their own. A frame one above the receive window, which a sender may send
once a selective acknowledgement freed a slot, starts a gap recovery although nothing is missing, where
`docs/protocol.md:98-99` says that a gap is a frame that is absent. And the Probe's session event finds
the programmer idle and invalidates the image in two steps (`probe_app.c:279`), so that an operation
started in between may lose its image after it has erased the target; what `DoneIsVerified` says is
that it is then never reported as done.

Bounds of the transport. Two frames and windows of two are the least with which a frame can be held
above a missing one, a window can be full and selective acknowledgement can free a slot in the
middle. Windows of one suffice where the question is about sessions, whose number is two: every
reset goes from one session to the next, and no handler looks further back than the session it
knows. In `delivery` the windows of sender and receiver are equal, as in the code, and one is enough for a
frame above the window: the head may be acknowledged as committed before the base has moved, and the sender
then sends the next. Queues of length one meet both their limits. `AppQueue` is two in `sessions`, where a stale
completion and a current one have to coexist. Each transport run has the recoveries of one board or, in
`delivery`, of both.

Bounds of the Probe. Six messages are the staging of a one-block image and its start (BEGIN, DATA,
END, START) with two interfering messages, or the staging of a two-block image and its start with
one; two operation ids; one change of session; one restart. Image `b` lies on the second sector of
image `a`, so that staging one during the programming of the other mixes them. Where a bound is
reached the Probe may stop, so deadlock is not checked for it.

Bounds of the Gateway. Two images, of one block and of two that begin with it, and two requests to program are
the least with which one can be taken
for the other. At most two troubles (a change of session, a restart, an error, another command) happen:
two errors for the cache, a change of session during a transfer with an error, or two changes. The
transport holds one command and the Probe's queue one, so that each meets its limit. Serving an operation
lasts from its `PROGRAM_START` to the end of its job (`Served`); `held` collects the manifests there were
meanwhile, that of an image begun in mid-transfer included, of which the Probe checks the blocks itself.
`FreshImage` excepts changes of session
that find the Probe programming or with commands in its queue, or that begin with a `BEGIN` left over
from another job (`Stray`): the last two are a weakness of the code. The change of session drops the
image but not the queued commands of the old session, so that an old `IMAGE_BEGIN` with its data,
followed by the `IMAGE_END` and `PROGRAM_START` of the operation sent when the session changed, programs
the old image under the new operation id; TLC shows this when the exception is taken away, and the case of
the left-over `BEGIN` with two commands in the transport (`LinkQueue` 2, `MaxTroubles` 1).

Bounds of the target. One disturbed transfer (`MaxNoise`) and one reset or unplugging (`MaxEvents`)
can fall at any access of any operation, on top of what the application on the target does, which is not
bounded. What two disturbed transfers do together is not explored. Operations follow each other
without a bound, so each begins in every state an earlier one may leave the target in.

Bounds of the USB link. Blocks of COBS hold three bytes at most (`MaxCode` 4) and a record seven
(`RawMax`), so that records need one block or two, with a zero or a full block in between; the buffer is
as large as the longest record needs, as in the code. Two requests, a queue of one chunk of up to three
bytes, two blocks of a backup and one fault: a frame before and one behind the one that is damaged, a
late answer of an earlier process, a block lost or repeated first or last.

Bounds of the image. Two sectors of two words, a loader buffer of one word and two segments: segments
in one word, one sector or two, at the end of the flash, with and without padding; words burnt by an
earlier operation; fields that wrap at 128. The operation ends, so deadlock is not checked.

Fairness (`FairSpec`). `rx_task` and `tx_task` are loops with bounded waits, so their steps are
weakly fair, and so is the worker, which completes what it holds. Sending is strongly fair in the
sense that a frame sent again and again arrives at times: a radio that loses everything for ever
delivers nothing, whatever the code does. `recovery_tick` runs in every loop of `rx_task`, so a recovery
that is not answered is retried or given up. The link goes down on a board that follows a session its peer
has left, because `tx_task` tests a timeout which only accepted frames put off, and it accepts none. Nothing is
assumed of users, reboots, the gap timer or a link that goes down for any other reason. `delivery` and
`mutual_stall` use the same fairness.

What `delivery` shows under it. Whenever something is queued or unacknowledged, both boards come to rest
later (`Unsent`), although either may begin a recovery again and again and answer one with a new session. That
the commands were then committed is promised only while both are in their first session: `NEW_EPOCH` drops
the commands a sender has queued, by intention, and an acknowledgement of the session before may release one
of the new session (`stale_ack`). Only the Gateway sends commands in this run, and the Probe the errors they
cause: with commands of both boards and full queues, `mutual_stall` shows that the stream may stop for good.

## Proofs

For any sets and sizes that satisfy the assumptions of `Transport` (two boards that are each other's
peer, positive windows and queues):

- `TypeCorrect`: `Spec => []TypeOK`.
- `DeliveryInOrder`: `Spec => []OneAtATime`. `OneAtATime` is inductive together with `TypeOK`: it
  says that slots are distinct sequences inside the window, of the current session and generation,
  and that only the slot next to the base has left the state `RECEIVED`. The last part is what
  keeps it going: `advance_committed` removes exactly the slot at the base, so the slots that
  remain are all `RECEIVED`.
- `ImplementsOrderedExecution`: `Spec => ExecutionIsOrdered`, the refinement of `OrderedExecution`
  with the generation, the sequence whose turn it is (`Turn`: one past the base, or two while the
  head has been taken) and the sequence of deliveries. Each action maps to `Run`, `Refuse`,
  `NewSession`, `Reboot` or a stutter; `OneAtATime` is the invariant the mapping needs.
- `LogIsOrdered` in `OrderedExecutionProofs`, and from both `RunsInOrder`: `Spec => []InOrder`.
- `ProgressHasWorker`: `Spec => []InProgressHasWorker`. A token in the application's hands is behind
  the turn (`BehindTurn`), so the frame handed out next is none of them; from that, one token for each
  slot in progress (`HeldBy`).
- `CompletionsAreCurrent`: `Spec => CompletionIsCurrent`, from `TypeOK` and `OneAtATime`: only
  `CompleteRx` commits, and it compares generation and sequence with the one slot that can be in
  progress.
- `WindowHasNoHole`: `Spec => []TxWindowContiguous`. A frame acknowledges beyond its base at most the
  next sequence (`NextOnly`), because only the slot next to the base is ever committed; so what an
  acknowledgement releases is the front of the window.
- `AcksNeverRunAhead`: `Spec => []AckedWereCommitted`. In the first session of both boards
  (`FirstInv`), sequences mean one frame in slots, on the air and at the receiver, and whatever an
  acknowledgement on the air names was committed.
- `CommandsRunOnce`: `ASSUME Operators = {} PROVE Spec => []AtMostOnce`: no command runs twice as long
  as no user asks for a manual recovery. The hypothesis is what the code needs: run `manual_repeat`
  shows the repetition that `Recover` causes. Every command is bound to one session and sequence
  wherever it is carried (`BindAt`); the sessions a receiver follows only grow (`MonotoneAt`), so its
  generations are sessions (`RunsAt`), and `InOrder` keeps them apart.

- `OneDriver` in `ProbeProofs`: `Spec => []SwdExclusive`, for any images, sectors, operations and
  bounds. The queries of `app_rx_task` test `s_task` without its lock; what makes that safe is that
  only `app_rx_task` creates a task, so none appears while it drives the pins (`AppOwns`), and that
  a task lets the pins go before `s_task` is cleared (`TaskOwns`).
- The others in `ProbeProofs`: `TypeCorrect`, and with an inductive invariant each, for any images, sectors,
  operations and bounds: `ReadyImageIsStaged` (`StagedInv`: nothing is ready while the partition is
  being filled, and what is about to be marked ready is there), `ErasedForVerifiedImage`
  (`VerifiedInv`: between `ProgramStart` and `CopyManifest` a change of session may clear the manifest
  and nothing may replace it), `DoneMeansProgrammed` (`ReadBackInv`: what was read back so far is in
  the flash, and a job that may still succeed has found all of its image), `BackupIsFaithful`
  (`BackupInv`) and `AcceptedWasCreated` (`AcceptedInv`).
- `ErrorsReachTheHost` in `GatewayProofs`: `Spec => []ErrorIsShown`, for any number of errors,
  queues and bounds. The invariant adds that errors come in the order of their numbers, that those
  under way are newer than the one that waits and the one `usb_handler` holds a copy of, and that
  what is about to be cleared has been shown: so the comparison with the copy clears that error
  and no other.
- `TypeCorrect` and `ProgramsFreshImages` in `GatewayProofs`: `Spec => []FreshImage`, for any images,
  operations and queues. The commands in the Probe's queue and on the link are one stream; `StreamInv`
  says that each `PROGRAM_START` in it will find no manifest or one the Gateway had while it served the
  operation (`Started`), and that the one `program_task` is about to send will too (`Feeding`); the
  manifest in the partition is in `held` for every operation that is served (`HeldInv`). The theorem promises
  nothing from a session on that is `disturbed`.
- `LoaderProofs`, for any kinds of chip and numbers of disturbances and events: `TypeCorrect`,
  `AccessesAreExact`, `ForeignIsUntouched`, `PinsAreReleased`, `SuccessLeavesItRunning`,
  `SuccessMeansProgrammed`, `OperationsAdvance` and the refinement `LoaderServes`,
  `Spec => ServiceSpec`. First come lemmas that say what each function of `ArmAdi` may leave in the
  port and what its OK is worth, then what the tables of functions and operations contain. The
  inductive invariant `Inv` has five parts:
  - `Control`: types, where an operation may be, the pins, and, while connected, a cached bank that is
    the target's (`Aimed`). The last is why an access that went well reached its word.
  - `ChipInv`: a function that touches the memory runs only with the expected chip on the line or none.
    It holds because every such function comes after `IDENTIFY` in the same connection, and an unplugged
    target drops the line until the next connect.
  - `CommandInv`: the mailbox. From the first write of a command to the core's start nothing else runs
    (`QuietInv`), the words agree with the order unless a write was lost and will be reported
    (`MailboxInv`, `Sure`), the loader carries out what was ordered (`CoreInv`), and a DONE the host
    reads means it did (`DoneInv`, `CheckedInv`). Without `QuietInv` a loader left over from an operation
    that failed could answer for the next one.
  - `ResetInv`: what the reset that ends an operation leaves behind, also by its fallback.
  - `FlashInv`: what verification has read is there until the operation is over.

- In `ImageProofs`, for any flash, sector, buffer and word width that satisfy the assumptions of
  `Manifest` and `Image` (sizes are whole words, sectors fill the flash, sums of two addresses in the
  flash do not wrap), and any manifests and earlier operations: `TypeCorrect`; `NothingRefused`,
  `Spec => []NeverRefused`; `WordsOnce`, `Spec => []ProgrammedOnce`; `SuccessIsInFlash`,
  `Spec => []SuccessHoldsImage`; `OutsideKept`, `Spec => []OutsideUntouched`. The invariant (`IInv`)
  says where the loops are (`Place`: in programming, the offset is a whole number of words), that a
  word still to be programmed is erased or in a sector that will be (`Unburnt`), and that what was
  verified is held (`Verified`). From the validation follow `ValidFits` (no sum wraps) and `ValidApart`
  (segments have no byte in common); from these, that a chunk with its padding fits the loader
  (`ChunkFits`) and that the words it programs begin in the part of the segment still to be programmed
  (`ChunkWords`), and so are not burnt. `OutsideKept` has an invariant of its own (`OInv`), which rests
  on each listed sector holding a byte of a segment (`TouchedHasByte`) and on no word lying in two
  sectors (`WordInSector`).
- Also in `ImageProofs`, `AcceptedExactly`: `Spec => []AcceptsExactly`. The check that two ranges do not
  overlap is exact where neither end wraps, which the checks before it ensure. While the ranges of the data
  are apart, the sum of the lengths in `uint32_t` is the number of bytes they cover (`SumIsCount`, by
  cardinality, one segment after the other), and it cannot wrap because the number of segments is bounded;
  so it equals the total exactly if they cover all of it (`ValidatedMeetsRules`, `RulesAreValidated`).
- And `HostImageIsVerified`: `Spec => []HostImageVerifies`, for any sequences of chunks as files. What
  `_merge` leaves is in the order of addresses with a gap after every piece (`MergingIs`), so that what
  `encode_manifest` makes of it is accepted and has its data one segment after the other (`EncodedIs`).
  Then the hash, taken over the segments in their order, is taken over the image (`ConcatenatedIs`). The
  invariant `HInv` adds to `IInv` that the answer is that of the checks (`Decided`), that CRCs and order of
  an image of the tool stay what they are (`Tooled`), and that what has been programmed without a fault is
  in the flash (`Programmed`); the last holds because a command leaves the bytes programmed before it alone
  (`ChunkKeeps`).
- The loops over segments and chunks are recursive functions in `Manifest`; what they compute is proved
  step by step (`UpTo`, `Recursion`), as a set of numbers that is all of a range, like the loops of `Cobs`.

- `RoundTrip` in `CobsProofs`, for any length of a block (`MaxCode`) and of a record (`RawMax`): what
  `datlink_cobs_encode` makes of a record fits the buffer of `decoder_task`, contains no zero, and
  `datlink_cobs_decode` makes the record of it again. The loops are recursive functions in `Cobs`; a
  fact about all their arguments is proved as a set of numbers that is all of Nat (`LeastOf`, `AllOf`: a
  number not in it would have a least one), which needs no induction theorem with an operator
  parameter. After i bytes the encoder has blocks that decode, in front of any last block, to the bytes
  taken so far (`Stuffs`, `UnstuffsBefore`).
- In `UsbLinkProofs`, for any sizes of chunks and of their queue, up to 100 requests and any numbers of
  blocks and losses: `TypeCorrect`; `HandledFramesWereSent`, `Spec => []HandledWereSent`;
  `IntactFramesAreHandled`, `Spec => []IntactIsHandled`; `BreaksOnlyForCause`, `Spec => []BreaksForCause`;
  `AnswersFollowHandling`, `Spec => AnsweredWasHandled`. The invariant is `LinkInv`:
  - `InboundInv`: the bytes in the wire, the chunks and the chunk being read are, in this order, some of
    those that were written, so that a frame's bytes cannot be overtaken.
  - `HandledInv` and `CrcInv`: the CRC is the one large byte of a record, and framing keeps it and adds
    none (`StuffingSmall`, `OneLarge`, `DecodeIn`). Where it is in the buffer, nothing of that request
    or of a later one has been handled. A record that decodes has the CRC of exactly one request, so it
    is what that request sent.
  - `BufferInv` and `IntactInv`: as long as nothing of a frame is lost and the zero before it arrived,
    the buffer holds the beginning of it, byte for byte, so it does not overflow; at its zero
    `RoundTrip` gives the record.
  - `AnsweredInv`: a response under way or in the tool's hands is to a request that was handled.
  - `StreamInv`: as long as no frame to the process that is open was `torn`, what it has yet to look at, set
    aside or under way, is whole frames; among them every block of its operation comes after all blocks it
    lacks before that one, and a good result after all of them. An operation only now asked for has no
    event under way. So a block out of order, a repeated block that differs and a result that does not
    agree with what was received can only come after a loss.

  The bound of 100 is in `RecordAssumption`: it keeps ids below every CRC, as the model's CRC is
  100 times the id. In the code it stands for a CRC-32C that no other bytes of the buffer have by chance.

The constants' assumptions are evaluated by the runs; the one of `Probe` (`BoundsAssumption`) says that
the bounds are numbers.

What the proofs found. `FreshImage` was checked with images that differ in every block and held; its proof
did not go through. When a session begins, the item `tx_task` has in its hands opens it, and that may be
the `IMAGE_BEGIN` of the job before: if the blocks that follow are those of the present job and the first
image is the beginning of the second, the Probe completes and programs the first under the present
operation. TLC shows it with such images. The history variable `disturbed` records this case (`Stray`) as
it does the other two. In `ArmAdi` an access without power is now a failure of its own, and the
connection is in two parts, `PowerUp` and `Identified`, as in the code.

Chunks of a file were sorted with an operator that chooses some sorted sequence; the order of two chunks at
the same address was then left open, and the proof needed it. `Sorting` now inserts one chunk at a time.
Which files there are was an assumption about what the tool makes of them; it is now proved, and a file is
any sequence of chunks (`ImageAssumption`).

Only model-checked: liveness (`EveryCommandSettles`), which is out of the prover's reach, and the four
violated properties, which are counterexamples. Every other property of a passing run, whether an
invariant, an action property or a refinement, is stated by a theorem, for all values of the constants that
satisfy
the assumptions named above (`AtMostOnce` where there are no operators).

## Not modelled

- `security`, `diagnostics`, `common`, `main`: keys fixed at build time, logs, CRC tables, and a
  start-up whose order is each module's `Init`.
- The layout of the radio frame, of progress and of target information: pure copies of fields.
- The parsing of ELF and HEX files, the tool's command line, `wait_result`, `wait_event` and the
  comparison of two backup passes.
- `arm_adi` block transfers that are not aligned, reading a core register (no caller), the bits and the
  timing of `swd_phy`, and the loader's CRC command.
- Wrapping of sequence numbers and generations at 2^32.
- Memory that is not found for a decoded USB frame, and the branch of the Probe's watchdog that is never
  reached.
- In the transport, corrupt or foreign frames and a board without a handler; in the Gateway, a manual
  recovery, `s_progress` and the events that are only passed on.

## Plan

1. An abstract specification "an operation reported DONE programmed the image the host staged",
   implemented by `Gateway`.
2. Liveness of session synchronisation after a one-sided restart.
