------------------------------ MODULE Transport ------------------------------
(***************************************************************************)
(* The reliable, ordered, session-numbered link that the Gateway and the   *)
(* Probe run over ESP-NOW (components/transport_espnow).  Both nodes run   *)
(* the same code: rx_task on core 0, tx_task on core 1, and application    *)
(* tasks that send frames and complete the frames handed to them.          *)
(*                                                                         *)
(* A step is one iteration of a task between two points where the other    *)
(* tasks can observe it.  Time is abstracted: a timeout may expire at any  *)
(* step at which the code tests it.  Sessions, random in the code, are      *)
(* fresh numbers; so are nonces, among the messages still under way.       *)
(***************************************************************************)
EXTENDS Integers, Sequences, FiniteSets

CONSTANTS
    Node,            \* the two boards
    Peer,            \* the other board
    TxWindow,        \* TX_WINDOW: frames sent and not acknowledged
    RxWindow,        \* RX_WINDOW: frames held above the receive base
    TxQueue,         \* TX_QUEUE_LENGTH: items waiting for a tx slot
    CtrlQueue,       \* ACK_QUEUE_LENGTH: ACKs and resync messages to send
    RawQueue,        \* RAW_RX_QUEUE_LENGTH: frames received, not yet handled
    AppQueue,        \* frames the application holds
    ResyncRetries,   \* RESYNC_MAX_RETRIES
    \* Bounds of the model.
    Commands,        \* Commands[n]: frames the application of n sends
    Epochs,          \* Epochs[n]: sessions n goes through
    Resyncs,         \* Resyncs[n]: nonces n can have under way at a time
    Restartable,     \* boards that may reboot
    Operators,       \* boards whose user may ask for a manual recovery
    Fading,          \* boards that may put the link down also while they follow the peer's session
    Heartbeats       \* boards that send HELLO also while the peer follows their session

ASSUME NodeAssumption ==
    /\ Peer \in [Node -> Node]
    /\ \A n \in Node : Peer[n] # n /\ Peer[Peer[n]] = n
ASSUME SizeAssumption ==
    /\ {TxWindow, RxWindow, TxQueue, CtrlQueue, RawQueue, AppQueue} \subseteq Nat \ {0}
    /\ ResyncRetries \in Nat \ {0}
ASSUME BoundAssumption ==
    /\ Commands \in [Node -> Nat] /\ Epochs \in [Node -> Nat] /\ Resyncs \in [Node -> Nat]
    /\ {Restartable, Operators, Fading, Heartbeats} \subseteq SUBSET Node

VARIABLES
    session,      \* s_session_id
    nextSeq,      \* s_next_tx_seq
    txq,          \* s_tx_queue
    tx,           \* s_tx_slots in use; order of the array is abstracted
    ctrlq,        \* s_ack_queue
    rawq,         \* frames on the air to a node or in its s_raw_rx_queue
    peerSession,  \* s_peer_session, 0 before the first HELLO
    rxBase,       \* s_rx_base
    rxGen,        \* s_rx_generation
    rx,           \* s_rx_slots that are not EMPTY
    work,         \* frames the application holds, oldest first
    linkUp,       \* s_link_up
    recovery,     \* s_recovering, s_resync_nonce, _reason, _expected, _retries
    serviced,     \* rx_task ran service_rx since its last frame
    \* History of the run.
    issued,       \* commands the application has queued
    runs,         \* frames handed to the application since boot
    acked,        \* items process_ack released
    committed     \* items whose rx slot became COMMITTED

sendVars == <<session, nextSeq, txq, tx>>
recvVars == <<peerSession, rxBase, rxGen, rx>>
history == <<issued, runs, acked, committed>>
vars == <<sendVars, ctrlq, rawq, recvVars, work, linkUp, recovery, serviced, history>>

(***************************************************************************)
(* Data.  A command carries its number; a COMMAND_ERROR the number of the  *)
(* command it refuses.  Every frame carries the sender's session and, read *)
(* when it is put on the air, the sender's acknowledgement fields.         *)
(***************************************************************************)
Item == [type : {"COMMAND", "COMMAND_ERROR"}, id : Nat]
TxSlot == [seq : Nat, item : Item, sent : BOOLEAN]
RxState == {"RECEIVED", "IN_PROGRESS", "ERROR_PENDING", "COMMITTED"}
RxSlot == [seq : Nat, gen : Nat, session : Nat, item : Item, state : RxState]
Token == [seq : Nat, gen : Nat, session : Nat, item : Item]
Reason == {"GAP", "MANUAL"}
Recovery == [active : BOOLEAN, nonce : Nat, reason : Reason, expected : Nat, retries : Nat]

Ack == [type |-> "ACK"]
Hello == [type |-> "HELLO"]
Request == [type : {"RESYNC_REQUEST"}, nonce : Nat, target : Nat, expected : Nat,
            reason : Reason]
Reply == [type : {"RESYNC_REPLY"}, nonce : Nat, action : {"RETRANSMIT", "NEW_EPOCH"}]
Data == [type : {"DATA"}, seq : Nat, item : Item]
Control == {Ack} \cup Request \cup Reply
Frame == [body : Control \cup {Hello} \cup Data, session : Nat,
          ackBase : Nat, ackBits : SUBSET Nat]

TokenOf(s) == [seq |-> s.seq, gen |-> s.gen, session |-> s.session, item |-> s.item]

\* queue_control drops the message when the queue is full.
Enqueue(queue, control) == IF Len(queue) < CtrlQueue THEN Append(queue, control) ELSE queue

TypeOK ==
    /\ session \in [Node -> Nat] /\ nextSeq \in [Node -> Nat]
    /\ txq \in [Node -> Seq(Item)] /\ tx \in [Node -> SUBSET TxSlot]
    /\ ctrlq \in [Node -> Seq(Control)] /\ rawq \in [Node -> Seq(Frame)]
    /\ peerSession \in [Node -> Nat] /\ rxBase \in [Node -> Nat] /\ rxGen \in [Node -> Nat]
    /\ rx \in [Node -> SUBSET RxSlot] /\ work \in [Node -> Seq(Token)]
    /\ linkUp \in [Node -> BOOLEAN] /\ recovery \in [Node -> Recovery]
    /\ serviced \in [Node -> BOOLEAN]
    /\ issued \in [Node -> Nat] /\ runs \in [Node -> Seq(Token)]
    /\ acked \in [Node -> SUBSET Item] /\ committed \in [Node -> SUBSET Item]

Init ==
    /\ session = [n \in Node |-> 1] /\ nextSeq = [n \in Node |-> 1]
    /\ txq = [n \in Node |-> <<>>] /\ tx = [n \in Node |-> {}]
    /\ ctrlq = [n \in Node |-> <<>>] /\ rawq = [n \in Node |-> <<>>]
    /\ peerSession = [n \in Node |-> 0] /\ rxBase = [n \in Node |-> 0]
    /\ rxGen = [n \in Node |-> 1] /\ rx = [n \in Node |-> {}]
    /\ work = [n \in Node |-> <<>>] /\ linkUp = [n \in Node |-> FALSE]
    /\ recovery = [n \in Node |-> [active |-> FALSE, nonce |-> 0, reason |-> "GAP",
                                   expected |-> 0, retries |-> 0]]
    /\ serviced = [n \in Node |-> TRUE]
    /\ issued = [n \in Node |-> 0] /\ runs = [n \in Node |-> <<>>]
    /\ acked = [n \in Node |-> {}] /\ committed = [n \in Node |-> {}]
-----------------------------------------------------------------------------
(***************************************************************************)
(* tx_task                                                                 *)
(***************************************************************************)

\* rx_task is between a frame and the service_rx pass that follows it for no
\* time that matters to the radio: a frame tx_task sends in between carries the
\* acknowledgement it would have carried before the frame or after the pass.
Settled == \A n \in Node : serviced[n]

\* Mutant of AckBits: held is taken for committed.
AckBitsHeld(n) == {s.seq : s \in {r \in rx[n] : r.seq > rxBase[n]}}

\* rx_bitmap_locked: COMMITTED slots the base has not passed yet.
AckBits(n) == {s.seq : s \in {r \in rx[n] : r.state = "COMMITTED" /\ r.seq > rxBase[n]}}

\* physical_send.  The frame is lost, on the air or at a full raw queue, or
\* reaches the peer.
PhysicalSend(n, body) ==
    LET frame == [body |-> body, session |-> session[n],
                  ackBase |-> rxBase[n], ackBits |-> AckBits(n)]
    IN  \/ UNCHANGED rawq
        \/ /\ Len(rawq[Peer[n]]) < RawQueue
           /\ rawq' = [rawq EXCEPT ![Peer[n]] = Append(@, frame)]

\* The head of the control queue goes first.  rx_task, on the other core, may
\* add to that queue right after tx_task found it empty, so the queue being
\* empty is not a guard of the actions below.
SendControl(n) ==
    /\ Settled /\ ctrlq[n] # <<>>
    /\ ctrlq' = [ctrlq EXCEPT ![n] = Tail(@)]
    /\ PhysicalSend(n, Head(ctrlq[n]))
    /\ UNCHANGED <<sendVars, recvVars, work, linkUp, recovery, serviced, history>>

\* allocate_slot: an item leaves the queue for a free slot.
AllocateSlot(n) ==
    /\ txq[n] # <<>> /\ Cardinality(tx[n]) < TxWindow
    /\ txq' = [txq EXCEPT ![n] = Tail(@)]
    /\ tx' = [tx EXCEPT ![n] = @ \cup {[seq |-> nextSeq[n], item |-> Head(txq[n]),
                                        sent |-> FALSE]}]
    /\ nextSeq' = [nextSeq EXCEPT ![n] = @ + 1]
    /\ UNCHANGED <<session, ctrlq, rawq, recvVars, work, linkUp, recovery, serviced, history>>

\* Mutant of SendFrame: a slot is free once sent.
SendFrameOnce(n, s) ==
    /\ tx' = [tx EXCEPT ![n] = @ \ {s}]
    /\ PhysicalSend(n, [type |-> "DATA", seq |-> s.seq, item |-> s.item])
    /\ UNCHANGED <<session, nextSeq, txq, ctrlq, recvVars, work, linkUp, recovery, serviced,
                   history>>

\* A slot is sent when new and again when its retransmission timer expired.
SendFrame(n, s) ==
    /\ tx' = [tx EXCEPT ![n] = (@ \ {s}) \cup {[s EXCEPT !.sent = TRUE]}]
    /\ PhysicalSend(n, [type |-> "DATA", seq |-> s.seq, item |-> s.item])
    /\ UNCHANGED <<session, nextSeq, txq, ctrlq, recvVars, work, linkUp, recovery, serviced,
                   history>>

SendSlot(n) == Settled /\ \E s \in tx[n] : SendFrame(n, s)

\* A HELLO every HEARTBEAT_MS, in an iteration that sends no slot.
SendHello(n) ==
    /\ Settled /\ \A s \in tx[n] : s.sent
    /\ n \in Heartbeats \/ peerSession[Peer[n]] # session[n]
    /\ PhysicalSend(n, Hello)
    /\ UNCHANGED <<sendVars, ctrlq, recvVars, work, linkUp, recovery, serviced, history>>

\* No accepted frame for LINK_TIMEOUT_MS, or a slot sent MAX_RETRIES times: the
\* link is down, the slots are kept and still sent.
LinkDown(n) ==
    /\ linkUp[n]
    /\ n \in Fading \/ peerSession[n] # session[Peer[n]]
    /\ linkUp' = [linkUp EXCEPT ![n] = FALSE]
    /\ UNCHANGED <<sendVars, ctrlq, rawq, recvVars, work, recovery, serviced, history>>
-----------------------------------------------------------------------------
(***************************************************************************)
(* rx_task: one frame, then service_rx, then recovery_tick                 *)
(***************************************************************************)

\* accept_session
Accepts(n, f) ==
    \/ f.session = peerSession[n]
    \/ f.body.type = "HELLO" /\ (peerSession[n] = 0 \/ ~linkUp[n])
    \/ f.body.type = "RESYNC_REPLY" /\ recovery[n].active /\ f.body.nonce = recovery[n].nonce

\* Mutant of ResetRx: the generation stays.
ResetRxOnly(n, peer) ==
    /\ peerSession' = [peerSession EXCEPT ![n] = peer]
    /\ rxBase' = [rxBase EXCEPT ![n] = 0]
    /\ rx' = [rx EXCEPT ![n] = {}]
    /\ UNCHANGED rxGen

\* reset_rx_session_locked
ResetRx(n, peer) ==
    /\ peerSession' = [peerSession EXCEPT ![n] = peer]
    /\ rxBase' = [rxBase EXCEPT ![n] = 0]
    /\ rxGen' = [rxGen EXCEPT ![n] = @ + 1]
    /\ rx' = [rx EXCEPT ![n] = {}]

\* What accept_session does to the receive side of an accepted HELLO or REPLY.
AdoptSession(n, f) ==
    \/ f.session = peerSession[n] /\ UNCHANGED recvVars
    \/ f.session # peerSession[n] /\ ResetRx(n, f.session)

\* Mutant of AckedSlots: off by one at the base.
AckedSlotsBeyond(n, f) == {s \in tx[n] : s.seq <= f.ackBase + 1 \/ s.seq \in f.ackBits}

\* process_ack releases these slots.
AckedSlots(n, f) == {s \in tx[n] : s.seq <= f.ackBase \/ s.seq \in f.ackBits}

\* The next frame, taken once service_rx has run after the one before, and
\* accepted.  Its ack fields are used whatever its type.
TakeFrame(n, type) ==
    LET f == Head(rawq[n]) IN
    /\ serviced[n] /\ rawq[n] # <<>> /\ f.body.type = type /\ Accepts(n, f)
    /\ rawq' = [rawq EXCEPT ![n] = Tail(@)]
    /\ serviced' = [serviced EXCEPT ![n] = FALSE]
    /\ acked' = [acked EXCEPT ![n] = @ \cup {s.item : s \in AckedSlots(n, f)}]

\* What every accepted frame without a session change of ours does.
AcceptPlain(n) ==
    /\ tx' = [tx EXCEPT ![n] = @ \ AckedSlots(n, Head(rawq[n]))]
    /\ linkUp' = [linkUp EXCEPT ![n] = TRUE]

\* A nonce that no request of n and no reply to n still under way carries.
Queued(n) == {ctrlq[n][i] : i \in DOMAIN ctrlq[n]}
Arriving(n) == {rawq[n][i].body : i \in DOMAIN rawq[n]}
FreshNonces(n) == {k \in 1 .. Resyncs[n] :
    /\ \A c \in Queued(n) \cup Arriving(Peer[n]) : c.type = "RESYNC_REQUEST" => c.nonce # k
    /\ \A c \in Queued(Peer[n]) \cup Arriving(n) : c.type = "RESYNC_REPLY" => c.nonce # k}

\* begin_resync sets up a recovery unless one is running; send_resync_request
\* then asks the peer session it knows at that moment.
NewRecovery(n, reason, expected) ==
    [active |-> TRUE, nonce |-> CHOOSE k \in FreshNonces(n) : TRUE, reason |-> reason,
     expected |-> expected, retries |-> 1]
Ended(r) == [r EXCEPT !.active = FALSE, !.retries = 0]
RequestOf(n, r) ==
    [type |-> "RESYNC_REQUEST", nonce |-> r.nonce, target |-> peerSession[n],
     expected |-> r.expected, reason |-> r.reason]
MayRecover(n) == ~recovery[n].active /\ FreshNonces(n) # {}

\* rotate_local_epoch, with the slots in use at that moment.  tx_task may have
\* taken an item from the queue just before the queue is reset: that item then
\* opens the new session.
RotateEpoch(n, slots) ==
    /\ session[n] < Epochs[n]
    /\ session' = [session EXCEPT ![n] = @ + 1]
    /\ nextSeq' = [nextSeq EXCEPT ![n] = 1]
    /\ tx' = [tx EXCEPT ![n] = {}]
    /\ \/ txq' = [txq EXCEPT ![n] = <<>>]
       \/ /\ txq[n] # <<>> /\ Cardinality(slots) < TxWindow
          /\ txq' = [txq EXCEPT ![n] = <<Head(txq[n])>>]

\* accept_session refuses the frame.
RejectFrame(n) ==
    /\ serviced[n] /\ rawq[n] # <<>> /\ ~Accepts(n, Head(rawq[n]))
    /\ rawq' = [rawq EXCEPT ![n] = Tail(@)]
    /\ serviced' = [serviced EXCEPT ![n] = FALSE]
    /\ UNCHANGED <<sendVars, ctrlq, recvVars, work, linkUp, recovery, history>>

ReceiveAck(n) ==
    /\ TakeFrame(n, "ACK") /\ AcceptPlain(n)
    /\ UNCHANGED <<session, nextSeq, txq, ctrlq, recvVars, work, recovery, issued, runs, committed>>

ReceiveHello(n) ==
    /\ TakeFrame(n, "HELLO") /\ AcceptPlain(n)
    /\ AdoptSession(n, Head(rawq[n]))
    /\ ctrlq' = [ctrlq EXCEPT ![n] = Enqueue(@, Ack)]
    /\ UNCHANGED <<session, nextSeq, txq, work, recovery, issued, runs, committed>>

\* Mutants of Duplicate, without the look at the held slots, and of NewRxSlot,
\* without the state change.
DuplicateBelow(n, seq) == seq <= rxBase[n]
NewRxSlotEmpty(n, f) ==
    [seq |-> f.body.seq, gen |-> rxGen[n], session |-> f.session, item |-> f.body.item,
     state |-> "EMPTY"]

\* find_rx_slot_locked and the test before it: delivered already, or held.
Duplicate(n, seq) == seq <= rxBase[n] \/ \E s \in rx[n] : s.seq = seq
NewRxSlot(n, f) ==
    [seq |-> f.body.seq, gen |-> rxGen[n], session |-> f.session, item |-> f.body.item,
     state |-> "RECEIVED"]

StoreData(n, f) ==
    /\ f.body.seq <= rxBase[n] + RxWindow
    /\ IF Duplicate(n, f.body.seq) \/ Cardinality(rx[n]) >= RxWindow
       THEN UNCHANGED rx
       ELSE rx' = [rx EXCEPT ![n] = @ \cup {NewRxSlot(n, f)}]
    /\ ctrlq' = [ctrlq EXCEPT ![n] = Enqueue(@, Ack)]
    /\ UNCHANGED recovery

\* A frame above the window starts a recovery of the frame after the base.
RefuseData(n, f) ==
    /\ f.body.seq > rxBase[n] + RxWindow
    /\ \/ /\ recovery[n].active
          /\ ctrlq' = [ctrlq EXCEPT ![n] = Enqueue(@, Ack)]
          /\ UNCHANGED recovery
       \/ LET r == NewRecovery(n, "GAP", rxBase[n] + 1) IN
          /\ MayRecover(n)
          /\ recovery' = [recovery EXCEPT ![n] = r]
          /\ ctrlq' = [ctrlq EXCEPT ![n] = Enqueue(Enqueue(@, RequestOf(n, r)), Ack)]
    /\ UNCHANGED rx

ReceiveData(n) ==
    /\ TakeFrame(n, "DATA") /\ AcceptPlain(n)
    /\ StoreData(n, Head(rawq[n])) \/ RefuseData(n, Head(rawq[n]))
    /\ UNCHANGED <<session, nextSeq, txq, peerSession, rxBase, rxGen, work, issued, runs, committed>>

\* handle_resync_request
ReceiveRequest(n) ==
    LET f == Head(rawq[n])
        slots == tx[n] \ AckedSlots(n, f)
        wanted == {s \in slots : s.seq = f.body.expected}
        answer(action) == [type |-> "RESYNC_REPLY", nonce |-> f.body.nonce, action |-> action]
    IN  /\ TakeFrame(n, "RESYNC_REQUEST")
        /\ \/ /\ f.body.target # session[n]
              /\ tx' = [tx EXCEPT ![n] = slots] /\ linkUp' = [linkUp EXCEPT ![n] = TRUE]
              /\ UNCHANGED <<session, nextSeq, txq, ctrlq, recvVars>>
           \/ /\ f.body.target = session[n] /\ wanted # {} /\ f.body.reason = "GAP"
              /\ tx' = [tx EXCEPT ![n] = (slots \ wanted)
                                         \cup {[s EXCEPT !.sent = FALSE] : s \in wanted}]
              /\ linkUp' = [linkUp EXCEPT ![n] = TRUE]
              /\ ctrlq' = [ctrlq EXCEPT ![n] = Enqueue(@, answer("RETRANSMIT"))]
              /\ UNCHANGED <<session, nextSeq, txq, recvVars>>
           \/ /\ f.body.target = session[n] /\ wanted = {} /\ f.body.reason = "GAP"
              /\ linkUp' = [linkUp EXCEPT ![n] = TRUE]
              /\ RotateEpoch(n, slots)
              /\ ctrlq' = [ctrlq EXCEPT ![n] = Enqueue(@, answer("NEW_EPOCH"))]
              /\ UNCHANGED recvVars
           \/ /\ f.body.target = session[n] /\ f.body.reason = "MANUAL"
              /\ ResetRx(n, 0)
              /\ linkUp' = [linkUp EXCEPT ![n] = FALSE]
              /\ RotateEpoch(n, slots)
              /\ ctrlq' = [ctrlq EXCEPT ![n] = Enqueue(@, answer("NEW_EPOCH"))]
        /\ UNCHANGED <<work, recovery, issued, runs, committed>>

\* handle_resync_reply
ReceiveReply(n) ==
    LET f == Head(rawq[n])
        slots == tx[n] \ AckedSlots(n, f)
        current == recovery[n].active /\ f.body.nonce = recovery[n].nonce
        rotates == current /\ recovery[n].reason = "MANUAL" /\ f.body.action = "NEW_EPOCH"
    IN  /\ TakeFrame(n, "RESYNC_REPLY")
        /\ AdoptSession(n, f)
        /\ linkUp' = [linkUp EXCEPT ![n] = TRUE]
        /\ \/ current /\ recovery' = [recovery EXCEPT ![n] = Ended(@)]
           \/ ~current /\ UNCHANGED recovery
        /\ \/ rotates /\ RotateEpoch(n, slots)
           \/ /\ ~rotates /\ tx' = [tx EXCEPT ![n] = slots]
              /\ UNCHANGED <<session, nextSeq, txq>>
        /\ UNCHANGED <<ctrlq, work, issued, runs, committed>>
-----------------------------------------------------------------------------
(***************************************************************************)
(* service_rx: time out the worker, retire the head, deliver the next one. *)
(* Only rx_task moves the base, and the other tasks see the whole pass as  *)
(* one step: between its locks nothing they read has changed twice.        *)
(***************************************************************************)

\* Mutant of Ready: any frame above the base will do.
ReadyAny(slots, base) == {s \in slots : s.seq > base /\ s.state = "RECEIVED"}

\* The frame deliver_ordered may hand over.
Ready(slots, base) == {s \in slots : s.seq = base + 1 /\ s.state = "RECEIVED"}

\* deliver_ordered, on the slots and the base that retiring the head left.  A
\* full application queue defers the frame; after DEFER_TIMEOUT_MS it fails.
DeliverOrdered(n, slots, base) ==
    LET ready == Ready(slots, base)
        moved(s, state) == [rx EXCEPT ![n] = (slots \ {s}) \cup {[s EXCEPT !.state = state]}]
    IN  \/ /\ ready = {}
           /\ rx' = [rx EXCEPT ![n] = slots]
           /\ UNCHANGED <<work, runs>>
        \/ \E s \in ready :
            /\ Len(work[n]) < AppQueue
            /\ rx' = moved(s, "IN_PROGRESS")
            /\ work' = [work EXCEPT ![n] = Append(@, TokenOf(s))]
            /\ runs' = [runs EXCEPT ![n] = Append(@, TokenOf(s))]
        \/ \E s \in ready :
            /\ Len(work[n]) >= AppQueue
            /\ rx' = moved(s, "RECEIVED") \/ rx' = moved(s, "ERROR_PENDING")
            /\ UNCHANGED <<work, runs>>

HeadSlot(n) == {s \in rx[n] : s.seq = rxBase[n] + 1}

\* Mutant of RetireHead: the base stays.
RetireHeadInPlace(n, head) ==
    /\ DeliverOrdered(n, rx[n] \ {head}, rxBase[n])
    /\ ctrlq' = [ctrlq EXCEPT ![n] = Enqueue(@, Ack)]
    /\ UNCHANGED rxBase

\* advance_committed, then the next frame, then an ACK because the base moved.
RetireHead(n, head) ==
    /\ rxBase' = [rxBase EXCEPT ![n] = @ + 1]
    /\ DeliverOrdered(n, rx[n] \ {head}, rxBase[n] + 1)
    /\ ctrlq' = [ctrlq EXCEPT ![n] = Enqueue(@, Ack)]

\* The head was committed by its worker.
AdvanceCommitted(n) ==
    /\ \E head \in HeadSlot(n) : head.state = "COMMITTED" /\ RetireHead(n, head)
    /\ serviced' = [serviced EXCEPT ![n] = TRUE]
    /\ UNCHANGED <<sendVars, rawq, peerSession, rxGen, linkUp, recovery, issued, acked, committed>>

\* queue_head_error: a head that failed, or whose worker has just timed out, is
\* committed once its COMMAND_ERROR has a place in the tx queue.
QueueHeadError(n) ==
    /\ \E head \in HeadSlot(n) :
        /\ head.state \in {"ERROR_PENDING", "IN_PROGRESS"}
        /\ \/ head.item.type = "COMMAND_ERROR" /\ UNCHANGED txq
           \/ /\ head.item.type = "COMMAND" /\ Len(txq[n]) < TxQueue
              /\ txq' = [txq EXCEPT ![n] =
                            Append(@, [type |-> "COMMAND_ERROR", id |-> head.item.id])]
        /\ committed' = [committed EXCEPT ![n] = @ \cup {head.item}]
        /\ RetireHead(n, head)
    /\ serviced' = [serviced EXCEPT ![n] = TRUE]
    /\ UNCHANGED <<session, nextSeq, tx, rawq, peerSession, rxGen, linkUp, recovery,
                   issued, acked>>

\* The pass that retires nothing: no head, a head in progress (its worker may
\* time out), a new head to deliver, or an error the full tx queue holds back.
ServiceHead(n) ==
    /\ \A s \in HeadSlot(n) :
        \/ s.state \in {"RECEIVED", "IN_PROGRESS"}
        \/ s.state = "ERROR_PENDING" /\ s.item.type = "COMMAND" /\ Len(txq[n]) >= TxQueue
    /\ \/ DeliverOrdered(n, rx[n], rxBase[n])
       \/ /\ Len(txq[n]) >= TxQueue
          /\ \E s \in HeadSlot(n) :
                /\ s.state = "IN_PROGRESS" /\ s.item.type = "COMMAND"
                /\ rx' = [rx EXCEPT ![n] = (@ \ {s}) \cup {[s EXCEPT !.state = "ERROR_PENDING"]}]
          /\ UNCHANGED <<work, runs>>
    /\ serviced' = [serviced EXCEPT ![n] = TRUE]
    /\ UNCHANGED <<sendVars, ctrlq, rawq, peerSession, rxBase, rxGen, linkUp, recovery,
                   issued, acked, committed>>

\* recovery_tick
ResyncRetry(n) ==
    LET r == [recovery[n] EXCEPT !.retries = @ + 1] IN
    /\ serviced[n] /\ recovery[n].active /\ recovery[n].retries < ResyncRetries
    /\ recovery' = [recovery EXCEPT ![n] = r]
    /\ ctrlq' = [ctrlq EXCEPT ![n] = Enqueue(@, RequestOf(n, r))]
    /\ UNCHANGED <<sendVars, rawq, recvVars, work, linkUp, serviced, history>>

ResyncExhausted(n) ==
    /\ serviced[n] /\ recovery[n].active /\ recovery[n].retries >= ResyncRetries
    /\ recovery' = [recovery EXCEPT ![n] = [@ EXCEPT !.active = FALSE]]
    /\ linkUp' = [linkUp EXCEPT ![n] = FALSE]
    /\ UNCHANGED <<sendVars, ctrlq, rawq, recvVars, work, serviced, history>>

\* GAP_TIMEOUT_MS without progress, a later frame held and the next one absent.
GapTimeout(n) ==
    LET r == NewRecovery(n, "GAP", rxBase[n] + 1) IN
    /\ serviced[n] /\ MayRecover(n)
    /\ HeadSlot(n) = {} /\ \E s \in rx[n] : s.seq > rxBase[n] + 1
    /\ recovery' = [recovery EXCEPT ![n] = r]
    /\ ctrlq' = [ctrlq EXCEPT ![n] = Enqueue(@, RequestOf(n, r))]
    /\ UNCHANGED <<sendVars, rawq, recvVars, work, linkUp, serviced, history>>
-----------------------------------------------------------------------------
(***************************************************************************)
(* The application's tasks, the user and power                             *)
(***************************************************************************)

\* datlink_transport_send
Send(n) ==
    /\ Settled /\ issued[n] < Commands[n] /\ Len(txq[n]) < TxQueue
    /\ issued' = [issued EXCEPT ![n] = @ + 1]
    /\ txq' = [txq EXCEPT ![n] = Append(@, [type |-> "COMMAND", id |-> issued[n] + 1])]
    /\ UNCHANGED <<session, nextSeq, tx, ctrlq, rawq, recvVars, work, linkUp, recovery,
                   serviced, runs, acked, committed>>

\* Mutants of Completes: the sequence alone identifies a delivery; the wrong state.
CompletesBySeq(n, token) == {s \in rx[n] : s.state = "IN_PROGRESS" /\ s.seq = token.seq}
CompletesReceived(n, token) == {s \in rx[n] : s.state = "RECEIVED" /\ TokenOf(s) = token}

\* The slot datlink_transport_complete_rx finds for a token.
Completes(n, token) == {s \in rx[n] : s.state = "IN_PROGRESS" /\ TokenOf(s) = token}

\* datlink_transport_complete_rx by the application worker, for the oldest frame
\* it holds; ESP_ERR_NOT_FOUND when no slot matches.
CompleteRx(n) ==
    /\ work[n] # <<>>
    /\ work' = [work EXCEPT ![n] = Tail(@)]
    /\ LET slots == Completes(n, Head(work[n])) IN
       \E state \in {"COMMITTED", "ERROR_PENDING"} :
        /\ rx' = [rx EXCEPT ![n] = (@ \ slots) \cup {[s EXCEPT !.state = state] : s \in slots}]
        /\ committed' = [committed EXCEPT ![n] =
                @ \cup {s.item : s \in {t \in slots : state = "COMMITTED"}}]
    /\ UNCHANGED <<sendVars, ctrlq, rawq, peerSession, rxBase, rxGen, linkUp, recovery,
                   serviced, issued, runs, acked>>

\* datlink_transport_recover
Recover(n) ==
    LET r == NewRecovery(n, "MANUAL", rxBase[n] + 1) IN
    /\ Settled /\ n \in Operators /\ MayRecover(n)
    /\ recovery' = [recovery EXCEPT ![n] = r]
    /\ ctrlq' = [ctrlq EXCEPT ![n] = Enqueue(@, RequestOf(n, r))]
    /\ UNCHANGED <<sendVars, rawq, recvVars, work, linkUp, serviced, history>>

\* A reboot loses everything in RAM; datlink_transport_init draws a new session.
Restart(n) ==
    /\ Settled /\ n \in Restartable /\ session[n] < Epochs[n]
    /\ session' = [session EXCEPT ![n] = @ + 1] /\ nextSeq' = [nextSeq EXCEPT ![n] = 1]
    /\ txq' = [txq EXCEPT ![n] = <<>>] /\ tx' = [tx EXCEPT ![n] = {}]
    /\ ctrlq' = [ctrlq EXCEPT ![n] = <<>>] /\ rawq' = [rawq EXCEPT ![n] = <<>>]
    /\ peerSession' = [peerSession EXCEPT ![n] = 0] /\ rxBase' = [rxBase EXCEPT ![n] = 0]
    /\ rxGen' = [rxGen EXCEPT ![n] = 1] /\ rx' = [rx EXCEPT ![n] = {}]
    /\ work' = [work EXCEPT ![n] = <<>>] /\ linkUp' = [linkUp EXCEPT ![n] = FALSE]
    /\ recovery' = [recovery EXCEPT ![n] = Ended(@)]
    /\ serviced' = [serviced EXCEPT ![n] = TRUE]
    /\ runs' = [runs EXCEPT ![n] = <<>>]
    /\ UNCHANGED <<issued, acked, committed>>
-----------------------------------------------------------------------------
TxTask(n) ==
    SendControl(n) \/ AllocateSlot(n) \/ SendSlot(n) \/ SendHello(n) \/ LinkDown(n)
HandleFrame(n) ==
    \/ RejectFrame(n) \/ ReceiveAck(n) \/ ReceiveHello(n) \/ ReceiveData(n)
    \/ ReceiveRequest(n) \/ ReceiveReply(n)
ServiceRx(n) == AdvanceCommitted(n) \/ QueueHeadError(n) \/ ServiceHead(n)
RecoveryTick(n) == ResyncRetry(n) \/ ResyncExhausted(n) \/ GapTimeout(n)
Application(n) == Send(n) \/ CompleteRx(n) \/ Recover(n) \/ Restart(n)

Next == \E n \in Node :
    TxTask(n) \/ HandleFrame(n) \/ ServiceRx(n) \/ RecoveryTick(n) \/ Application(n)

Spec == Init /\ [][Next]_vars

\* The tasks keep running and the radio does not lose every frame for ever: what
\* is sent again and again arrives at times.  rx_task tests the recovery's timer
\* in every loop, and the link times out on a board that follows a session the
\* peer has left, since it accepts no frame.  Nothing is assumed of the user, of
\* reboots, of the gap timer or of a link that times out for any other reason.
Arrives == rawq' # rawq
Fairness ==
    \A n \in Node :
        /\ WF_vars(ServiceRx(n)) /\ WF_vars(HandleFrame(n))
        /\ WF_vars(CompleteRx(n)) /\ WF_vars(AllocateSlot(n))
        /\ WF_vars(ResyncRetry(n) \/ ResyncExhausted(n))
        /\ WF_vars(LinkDown(n) /\ peerSession[n] # session[Peer[n]])
        /\ SF_vars(SendControl(n) /\ Arrives)
        /\ SF_vars(SendHello(n) /\ Arrives)
        /\ SF_vars(SendSlot(n) /\ Arrives)
FairSpec == Spec /\ Fairness
-----------------------------------------------------------------------------
(***************************************************************************)
(* Properties                                                              *)
(***************************************************************************)

\* The receive slots hold different sequences of the window above the base, all
\* of the current session and generation, and only the slot next to the base
\* has been handed to the application: deliver_ordered never runs two frames
\* at once and the ack bitmap can only name base + 1.
OneAtATime ==
    \A n \in Node : \A s \in rx[n] :
        /\ s.seq > rxBase[n] /\ s.seq <= rxBase[n] + RxWindow
        /\ s.gen = rxGen[n] /\ s.session = peerSession[n]
        /\ s.state # "RECEIVED" => s.seq = rxBase[n] + 1
        /\ \A t \in rx[n] : t.seq = s.seq => t = s

\* Within one receive generation frames are handed to the application in
\* sequence order and no sequence twice, whatever is lost, repeated or reset.
InOrder ==
    \A n \in Node : \A i, j \in DOMAIN runs[n] :
        i < j => \/ runs[n][i].gen < runs[n][j].gen
                 \/ runs[n][i].gen = runs[n][j].gen /\ runs[n][i].seq < runs[n][j].seq

\* The receive side implements OrderedExecution: in every session each sequence
\* number in turn is run once or refused, however frames are lost and repeated,
\* workers time out, the application defers and sessions change.
HeadTaken(n) == \E s \in HeadSlot(n) : s.state # "RECEIVED"
Turn == [n \in Node |-> rxBase[n] + (IF HeadTaken(n) THEN 2 ELSE 1)]
Entries(q) == [i \in DOMAIN q |-> [gen |-> q[i].gen, seq |-> q[i].seq]]
RunLog == [n \in Node |-> Entries(runs[n])]
Execution == INSTANCE OrderedExecution WITH gen <- rxGen, next <- Turn, log <- RunLog
ExecutionIsOrdered == Execution!Spec

\* A slot in progress is always still in the hands of the application, once:
\* its completion will come and find it.
InProgressHasWorker ==
    \A n \in Node : \A s \in rx[n] :
        s.state = "IN_PROGRESS" =>
            \E i \in DOMAIN work[n] :
                /\ work[n][i] = TokenOf(s)
                /\ \A j \in DOMAIN work[n] : work[n][j] = TokenOf(s) => j = i

FirstSessions == \A n \in Node : session[n] = 1

\* While both boards are in their first session, what a sender lets go of was
\* committed by the receiver: an acknowledgement never runs ahead.
AckedWereCommitted ==
    FirstSessions => \A n \in Node : acked[n] \subseteq committed[Peer[n]]

\* The sender's slots are the sequences just below the next one, with no hole:
\* selective acknowledgement never lets it run more than a window ahead.
TxWindowContiguous ==
    \A n \in Node : \A s \in tx[n] :
        /\ s.seq < nextSeq[n]
        /\ \A q \in s.seq .. (nextSeq[n] - 1) : \E t \in tx[n] : t.seq = q

\* No command reaches the application of one boot twice.  It holds as long as
\* nobody asks for a manual recovery.
AtMostOnce ==
    \A n \in Node : \A i, j \in DOMAIN runs[n] :
        runs[n][i].item = runs[n][j].item /\ runs[n][i].item.type = "COMMAND" => i = j

\* A worker's completion commits only the delivery it was given, not a later
\* frame that took the same sequence number.
CompletionIsCurrent ==
    [][\A n \in Node : \A s \in rx[n] :
        (/\ s.state = "IN_PROGRESS"
         /\ [s EXCEPT !.state = "COMMITTED"] \in rx'[n])
        => work[n] # <<>> /\ Head(work[n]) = TokenOf(s)]_vars

\* What a sender lets go of was committed by the receiver, in every session.
NoLossByAck ==
    \A n \in Node : acked[n] \subseteq committed[Peer[n]]

\* Both boards come to rest: whatever is lost, refused or recovered, each ends with
\* nothing queued and nothing unacknowledged (datlink_transport_flush returns), and
\* while no recovery has made a board change its session every command queued is
\* by then committed by the peer: executed, or refused with a COMMAND_ERROR.
Unsent == \E n \in Node : txq[n] # <<>> \/ tx[n] # {}
Uncommitted ==
    \E n \in Node : \E k \in 1 .. issued[n] : [type |-> "COMMAND", id |-> k] \notin committed[Peer[n]]
Busy == Unsent \/ (FirstSessions /\ Uncommitted)
EveryCommandSettles == Busy ~> ~Busy

\* A refused head does not block the ordered stream for ever.
HeadErrorReported ==
    \A n \in Node :
        (\E s \in HeadSlot(n) : s.state = "ERROR_PENDING")
            ~> ~ \E s \in HeadSlot(n) : s.state = "ERROR_PENDING"
=============================================================================
