--------------------------------- MODULE UsbLink ---------------------------------
(***************************************************************************)
(* The serial link between the command line tool (tools/datlink_cli) and   *)
(* the Gateway (components/gateway_usb).  Towards the Gateway the bytes    *)
(* are followed one by one, through rx_callback's queue of chunks to       *)
(* decoder_task.  Towards the host a frame is two pieces, the second of    *)
(* which ends it, read by DatlinkClient under its deadlines.  At the ends  *)
(* are the requests of one tool process after the other and a Probe that   *)
(* answers a backup request with a stream of events.  Memory for a decoded *)
(* frame is always found.  A request cut short by the death of its process *)
(* is to the Gateway one whose last chunks are lost.                       *)
(***************************************************************************)
EXTENDS Cobs, SequencesExt

CONSTANTS
    ChunkMax,     \* USB_CHUNK_SIZE
    ChunkQueue,   \* USB_CHUNK_QUEUE
    Blocks,       \* data events of a backup
    MaxRequests,  \* bound: requests of all processes
    MaxFaults     \* bound: chunks lost, frames the USB driver does not take, blocks repeated

ASSUME UsbAssumption ==
    /\ {ChunkMax, ChunkQueue, Blocks} \subseteq Nat \ {0}
    /\ {MaxRequests, MaxFaults} \subseteq Nat

VARIABLES
    wire,      \* bytes under way to the Gateway, <<request, position>>
    chunks,    \* s_chunk_queue
    chunk,     \* what decoder_task has not looked at yet of its chunk
    encoded,   \* the bytes in decoder_task's buffer
    returns,   \* pieces under way to the host, <<frame, 1 or 2>>
    peer,      \* the Probe: backups asked for, the one that runs, its next block
    host,      \* the tool's process
    \* History.
    requests,  \* the kind of each request so far; its number is its id
    handled,   \* the records of the frames handed to usb_handler
    dropped,   \* bytes rx_callback found no room for
    torn,      \* a frame to the process was lost, or cut by the driver, its start or a deadline
    faults

inbound == <<wire, chunks, chunk, encoded>>
history == <<requests, handled, dropped>>
vars == <<inbound, returns, peer, host, history, torn, faults>>

Kind == {"INFO", "DATA", "BACKUP"}
Id == 1 .. MaxRequests

\* UsbFrame.encode: type, flags, id, payload, and a CRC that no other frame has. The
\* operation id of a backup is its request's id.
Type(kind) == CASE kind = "INFO" -> 1 [] kind = "DATA" -> 17 [] kind = "BACKUP" -> 25
Payload(kind) == CASE kind = "INFO" -> <<>> [] kind = "DATA" -> <<9, 9, 9>> [] kind = "BACKUP" -> <<0>>
RecordOf(kind, id) == <<Type(kind), 0, id>> \o Payload(kind) \o <<100 * id + Type(kind)>>
ASSUME RecordAssumption ==
    /\ Record = {RecordOf(kind, id) : kind \in Kind, id \in Id}
    /\ MaxRequests <= 100   \* no other byte has the value of a CRC
Encoding == [kind \in Kind |-> [id \in Id |-> UsbEncode(RecordOf(kind, id))]]
ByteOf(b) == Encoding[requests[b[1]]][b[1]][b[2]]
Bytes(id, kind) == [i \in DOMAIN Encoding[kind][id] |-> <<id, i>>]

Response(id, ok) == <<"RESPONSE", id, ok>>
Frame ==
    ({"RESPONSE"} \X Id \X BOOLEAN) \cup ({"BLOCK"} \X Id \X (1 .. Blocks))
    \cup ({"RESULT"} \X Id \X BOOLEAN) \cup {<<"ERROR">>}

\* The flash of the target, as a backup of that operation reads it.
Flash(op) == [k \in 1 .. Blocks |-> <<op, k>>]

\* No process, and one that stopped with an exception about what it read.
Process == [at |-> "CLOSED", id |-> 0, partial |-> <<>>, pending |-> <<>>, image |-> <<>>]
Broken == [Process EXCEPT !.at = "BROKEN"]
Stopped(process) == process.at \in {"CLOSED", "BROKEN"}

Init ==
    /\ wire = <<>> /\ chunks = <<>> /\ chunk = <<>> /\ encoded = <<>> /\ returns = <<>>
    /\ peer = [asked |-> <<>>, op |-> 0, next |-> 1] /\ host = Process
    /\ requests = <<>> /\ handled = <<>> /\ dropped = {}
    /\ torn = FALSE /\ faults = 0
-----------------------------------------------------------------------------
(***************************************************************************)
(* gateway_usb_send: the driver takes all of the frame, or some of it, or  *)
(* none, and may report a failure although it took it all.                 *)
(***************************************************************************)
Pieces(f) == <<<<f, 1>>, <<f, 2>>>>
Sends(f) ==
    \/ returns' = returns \o Pieces(f) /\ UNCHANGED <<torn, faults>>
    \/ /\ faults < MaxFaults /\ faults' = faults + 1 /\ torn' = TRUE
       /\ returns' \in {returns, Append(returns, <<f, 1>>)}
-----------------------------------------------------------------------------
(***************************************************************************)
(* The Gateway's reception.                                                *)
(***************************************************************************)

\* rx_callback: a chunk that finds the queue full is lost.
RxCallback ==
    /\ \E n \in 1 .. ChunkMax :
        /\ n <= Len(wire)
        /\ wire' = SubSeq(wire, n + 1, Len(wire))
        /\ \/ /\ Len(chunks) < ChunkQueue
              /\ chunks' = Append(chunks, SubSeq(wire, 1, n)) /\ UNCHANGED <<dropped, faults>>
           \/ /\ Len(chunks) = ChunkQueue /\ faults < MaxFaults /\ faults' = faults + 1
              /\ dropped' = dropped \cup ToSet(SubSeq(wire, 1, n)) /\ UNCHANGED chunks
    /\ UNCHANGED <<chunk, encoded, returns, peer, host, requests, handled, torn>>

\* usb_handler, for what the model follows: a backup is forwarded to the Probe, or
\* refused; every request has its response.
Handle(record) ==
    \E ok \in BOOLEAN :
        /\ Sends(Response(record[3], ok))
        /\ peer' = IF record[1] = Type("BACKUP") /\ ok THEN [peer EXCEPT !.asked = Append(@, record[3])]
                   ELSE peer

\* Mutant of Collected: the buffer has no end.
CollectedUnbounded(buffer, byte) == Append(buffer, byte)

\* A byte other than zero; one that does not fit is dropped with all before it.
Collected(buffer, byte) == IF Len(buffer) < EncodedMax THEN Append(buffer, byte) ELSE <<>>

\* Mutant of Rest: what does not decode is kept.
RestKept(buffer) == IF UsbDecode(buffer) = <<>> THEN buffer ELSE <<>>

\* What is left in the buffer after a zero, whatever the frame decoded to.
Rest(buffer) == <<>>

\* decoder_task takes the next byte of its chunk, or of the next chunk.
Decode ==
    LET current == IF chunk = <<>> THEN Head(chunks) ELSE chunk
        byte == ByteOf(Head(current))
        record == IF byte = 0 THEN UsbDecode(encoded) ELSE <<>>
    IN
    /\ chunk # <<>> \/ chunks # <<>>
    /\ chunks' = IF chunk = <<>> THEN Tail(chunks) ELSE chunks
    /\ chunk' = Tail(current)
    /\ encoded' = IF byte = 0 THEN Rest(encoded) ELSE Collected(encoded, byte)
    /\ IF record # <<>>
       THEN handled' = Append(handled, record) /\ Handle(record)
       ELSE UNCHANGED <<returns, peer, handled, torn, faults>>
    /\ UNCHANGED <<wire, host, requests, dropped>>
-----------------------------------------------------------------------------
(***************************************************************************)
(* The Probe's side, through the Gateway's app_rx_task: a backup at a time.*)
(***************************************************************************)
PeerQuiet == UNCHANGED <<inbound, host, history>>

PeerStart ==
    /\ peer.asked # <<>>
    /\ LET rest == [peer EXCEPT !.asked = Tail(@)] IN
       \/ peer.op = 0 /\ peer' = [rest EXCEPT !.op = Head(peer.asked), !.next = 1]
          /\ UNCHANGED <<returns, torn, faults>>
       \/ peer.op # 0 /\ peer' = rest /\ Sends(<<"ERROR">>)
    /\ PeerQuiet
PeerBlock ==
    /\ peer.op # 0 /\ peer.next <= Blocks
    /\ Sends(<<"BLOCK", peer.op, peer.next>>)
    /\ peer' = [peer EXCEPT !.next = @ + 1]
    /\ PeerQuiet

\* The radio link hands the Gateway the last block once more, which backup_main expects.
PeerRepeat ==
    /\ peer.op # 0 /\ peer.next > 1
    /\ faults < MaxFaults /\ faults' = faults + 1
    /\ returns' = returns \o Pieces(<<"BLOCK", peer.op, peer.next - 1>>)
    /\ UNCHANGED <<peer, torn>> /\ PeerQuiet

\* A failure or an abort may end it at any block; a block the host did not get may
\* lead to an abort, or come too late for one.
PeerResult ==
    /\ peer.op # 0
    /\ \E ok \in {peer.next > Blocks, FALSE} : Sends(<<"RESULT", peer.op, ok>>)
    /\ peer' = [peer EXCEPT !.op = 0]
    /\ PeerQuiet
-----------------------------------------------------------------------------
(***************************************************************************)
(* DatlinkClient                                                           *)
(***************************************************************************)
HostQuiet == UNCHANGED <<inbound, peer, history, faults>>

\* Nothing but frames with both their pieces.
WholeFrames(pieces) ==
    \A i \in DOMAIN pieces :
        /\ pieces[i][2] = 1 => i < Len(pieces) /\ pieces[i + 1] = <<pieces[i][1], 2>>
        /\ pieces[i][2] = 2 => i > 1 /\ pieces[i - 1] = <<pieces[i][1], 1>>

\* A process opens the port and drops what has arrived by then.
HostOpen ==
    /\ host.at = "CLOSED"
    /\ host' = [Process EXCEPT !.at = "IDLE"]
    /\ \E n \in 0 .. Len(returns) : returns' = SubSeq(returns, n + 1, Len(returns))
    /\ torn' = ~WholeFrames(returns')
    /\ HostQuiet

\* It has done its work, or gives up after its deadline.
HostEnds ==
    /\ host.at # "CLOSED" /\ host' = Process
    /\ UNCHANGED <<returns, torn>> /\ HostQuiet

\* request: written, then its response is awaited.
HostRequest(kind) ==
    /\ host.at = "IDLE" /\ Len(requests) < MaxRequests
    /\ LET id == Len(requests) + 1 IN
        /\ requests' = Append(requests, kind)
        /\ wire' = wire \o Bytes(id, kind)
        /\ host' = [host EXCEPT !.at = "REQUEST", !.id = id, !.image = <<>>]
    /\ UNCHANGED <<chunks, chunk, encoded, returns, peer, handled, dropped, torn, faults>>

\* Mutant of Mine: any response will do.
MineAny(f) == TRUE

\* request passes over the responses to earlier requests.
Mine(f) == f[2] = host.id

\* request, with a frame: an error of the Probe or of the Gateway ends the process.
InRequest(f) ==
    CASE f[1] \in {"BLOCK", "RESULT"} -> [host EXCEPT !.pending = Append(@, f)]
      [] f[1] = "RESPONSE" /\ ~Mine(f) -> host
      [] f[1] = "RESPONSE" /\ Mine(f) /\ f[3] ->
            [host EXCEPT !.at = IF requests[host.id] = "BACKUP" THEN "BACKUP" ELSE "IDLE"]
      [] OTHER -> Process

\* Mutant of Own: the operation id of an event is not compared.
OwnAny(f) == TRUE

\* backup_main passes over the events of other operations.
Own(f) == f[2] = host.id

\* backup_main, with an event: blocks are taken in order, a repeated one must be the
\* same, and a good result must agree with what was received.  A failure of the
\* Probe's ends the process; what does not fit together breaks it.
InBackup(f) ==
    LET received == Len(host.image) IN
    CASE f[1] = "RESPONSE" -> host
      [] f[1] \in {"BLOCK", "RESULT"} /\ ~Own(f) -> host
      [] f[1] = "BLOCK" /\ Own(f) /\ f[3] = received + 1 ->
            [host EXCEPT !.image = Append(@, <<f[2], f[3]>>)]
      [] f[1] = "BLOCK" /\ Own(f) /\ f[3] <= received /\ host.image[f[3]] = <<f[2], f[3]>> -> host
      [] f[1] = "RESULT" /\ Own(f) /\ f[3] /\ host.image = Flash(f[2]) ->
            [host EXCEPT !.at = "IDLE"]
      [] f[1] = "ERROR" \/ (f[1] = "RESULT" /\ Own(f) /\ ~f[3]) -> Process
      [] OTHER -> Broken

\* backup_main looks at what request set aside before it reads.
HostPending ==
    /\ host.at = "BACKUP" /\ host.pending # <<>>
    /\ LET after == InBackup(Head(host.pending))
       IN host' = IF Stopped(after) THEN after ELSE [after EXCEPT !.pending = Tail(@)]
    /\ UNCHANGED <<returns, torn>> /\ HostQuiet

\* _read_frame: bytes are collected up to a zero; what they decode to is the frame,
\* or an error that nobody catches.
Reads == host.at = "REQUEST" \/ (host.at = "BACKUP" /\ host.pending = <<>>)
HostRead ==
    /\ Reads /\ returns # <<>> /\ returns' = Tail(returns)
    /\ LET f == Head(returns)[1] IN
       IF Head(returns)[2] = 1 THEN host' = [host EXCEPT !.partial = Append(@, f)]
       ELSE LET after == IF host.at = "REQUEST" THEN InRequest(f) ELSE InBackup(f)
            IN host' = IF host.partial # <<f>> THEN Broken
                       ELSE IF Stopped(after) THEN after ELSE [after EXCEPT !.partial = <<>>]
    /\ UNCHANGED torn /\ HostQuiet

\* The deadline of one read of request or backup_main: what was collected is gone.
HostPoll ==
    /\ Reads /\ host.partial # <<>> /\ host' = [host EXCEPT !.partial = <<>>]
    /\ torn' = TRUE
    /\ UNCHANGED returns /\ HostQuiet

Next ==
    \/ RxCallback \/ Decode
    \/ PeerStart \/ PeerBlock \/ PeerRepeat \/ PeerResult
    \/ \E kind \in Kind : HostRequest(kind)
    \/ HostOpen \/ HostEnds \/ HostPending \/ HostRead \/ HostPoll

Spec == Init /\ [][Next]_vars
-----------------------------------------------------------------------------
(***************************************************************************)
(* Properties                                                              *)
(***************************************************************************)
Sent(k) == RecordOf(requests[k], k)
Delimiter(k) == <<k, Len(Encoding[requests[k]][k])>>
Missing == dropped \cup UNION {ToSet(c) : c \in {wire, chunk} \cup ToSet(chunks)}
Arrived(k) == Missing \cap ToSet(Bytes(k, requests[k])) = {}

\* usb_handler is only given frames the host sent, each once and in their order, however
\* many chunks of bytes were lost between them.
HandledWereSent ==
    /\ \A j \in DOMAIN handled : \E k \in DOMAIN requests : handled[j] = Sent(k)
    /\ \A i, j \in DOMAIN handled : i < j => handled[i][3] < handled[j][3]

\* A frame that arrives whole after the end of another is handled: loss and overlong
\* frames cost no other frame (decoder_task finds its place again at a zero).
IntactIsHandled ==
    \A k \in DOMAIN requests :
        Arrived(k) /\ (k = 1 \/ Delimiter(k - 1) \notin dropped)
            => \E j \in DOMAIN handled : handled[j] = Sent(k)

\* A request that returned well was executed, whatever came late from an earlier process.
AnsweredWasHandled ==
    [][host.at = "REQUEST" /\ host'.at \in {"IDLE", "BACKUP"} =>
        \E j \in DOMAIN handled : handled[j] = Sent(host.id)]_vars

\* The tool breaks on what it reads only if a frame to this process was lost or cut.
\* What is left of earlier processes' requests, events that overtake a response and
\* wait in pending_events, and a repeated block never make a backup look damaged.
BreaksForCause == host.at = "BROKEN" => torn

TypeOK ==
    /\ wire \in Seq(Id \X Nat) /\ chunks \in Seq(Seq(Id \X Nat)) /\ Len(chunks) <= ChunkQueue
    /\ chunk \in Seq(Id \X Nat) /\ Len(chunk) <= ChunkMax
    /\ encoded \in Seq(Nat) /\ Len(encoded) <= EncodedMax
    /\ returns \in Seq(Frame \X {1, 2})
    /\ peer \in [asked : Seq(Id), op : {0} \cup Id, next : 1 .. Blocks + 1]
    /\ host \in [at : {"CLOSED", "BROKEN", "IDLE", "REQUEST", "BACKUP"}, id : {0} \cup Id,
                 partial : Seq(Frame), pending : Seq(Frame), image : Seq(Id \X (1 .. Blocks))]
    /\ requests \in Seq(Kind) /\ Len(requests) <= MaxRequests
    /\ handled \in Seq(Record) /\ dropped \subseteq Id \X Nat /\ torn \in BOOLEAN /\ faults \in 0 .. MaxFaults
=============================================================================
