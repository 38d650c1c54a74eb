--------------------------- MODULE TransportProofs ---------------------------
(***************************************************************************)
(* Proofs about Transport, for any two boards and any windows, queues and  *)
(* bounds.                                                                 *)
(***************************************************************************)
EXTENDS Transport, TLAPS

-----------------------------------------------------------------------------
(* What the helpers of Transport return. *)

\* The head and the tail of a non-empty queue.
LEMMA HeadTail ==
    ASSUME NEW S, NEW q \in Seq(S), q # <<>>
    PROVE  Head(q) \in S /\ Tail(q) \in Seq(S)
  OBVIOUS

\* The empty queue is a queue of anything.
LEMMA EmptySeqType ==
    ASSUME NEW S
    PROVE  <<>> \in Seq(S)
  OBVIOUS

\* So is a queue of one element.
LEMMA SingletonType ==
    ASSUME NEW S, NEW x \in S
    PROVE  <<x>> \in Seq(S)
  OBVIOUS

\* A queue stays one when an element joins it.
LEMMA AppendType ==
    ASSUME NEW S, NEW q \in Seq(S), NEW x \in S
    PROVE  Append(q, x) \in Seq(S)
  OBVIOUS

\* queue_control leaves a queue of control messages, full or not.
LEMMA EnqueueType ==
    ASSUME NEW S, NEW q \in Seq(S), NEW c \in S
    PROVE  Enqueue(q, c) \in Seq(S)
  BY DEF Enqueue

\* physical_send puts a well-formed frame on the air or nothing.
LEMMA PhysicalSendType ==
    ASSUME TypeOK, NEW n \in Node, NEW body \in Control \cup {Hello} \cup Data,
           PhysicalSend(n, body)
    PROVE  rawq' \in [Node -> Seq(Frame)]
<1> DEFINE frame == [body |-> body, session |-> session[n],
                     ackBase |-> rxBase[n], ackBits |-> AckBits(n)]
<1>1. AckBits(n) \subseteq Nat
  BY DEF TypeOK, AckBits, RxSlot
<1>2. frame \in Frame
  BY <1>1 DEF TypeOK, Frame
<1>3. Peer[n] \in Node
  BY NodeAssumption
<1>5. rawq \in [Node -> Seq(Frame)]
  BY DEF TypeOK
<1>6. Append(rawq[Peer[n]], frame) \in Seq(Frame)
  BY <1>2, <1>3, <1>5, AppendType
<1>7. [rawq EXCEPT ![Peer[n]] = Append(rawq[Peer[n]], frame)] \in [Node -> Seq(Frame)]
  BY <1>3, <1>5, <1>6
<1>8. UNCHANGED rawq \/ rawq' = [rawq EXCEPT ![Peer[n]] = Append(@, frame)]
  BY DEF PhysicalSend
<1> QED
  BY <1>5, <1>7, <1>8

\* The resync request built from a recovery is a control message.
LEMMA RequestType ==
    ASSUME TypeOK, NEW n \in Node, NEW r \in Recovery
    PROVE  RequestOf(n, r) \in Control
  BY DEF TypeOK, RequestOf, Control, Request, Recovery

\* begin_resync sets up a well-formed recovery.
LEMMA RecoveryType ==
    ASSUME TypeOK, NEW n \in Node, NEW reason \in Reason, MayRecover(n)
    PROVE  NewRecovery(n, reason, rxBase[n] + 1) \in Recovery
<1>1. FreshNonces(n) \subseteq Nat
  BY BoundAssumption DEF FreshNonces
<1>2. (CHOOSE k \in FreshNonces(n) : TRUE) \in Nat
  BY <1>1 DEF MayRecover
<1> HIDE DEF FreshNonces
<1> QED
  BY <1>2 DEF TypeOK, NewRecovery, Recovery

\* Ending a recovery leaves a recovery.
LEMMA EndedType ==
    ASSUME NEW r \in Recovery
    PROVE  Ended(r) \in Recovery
  BY DEF Ended, Recovery

\* What an accepted frame does to the receive side keeps it well formed.
LEMMA AdoptType ==
    ASSUME TypeOK, NEW n \in Node, NEW f \in Frame, AdoptSession(n, f)
    PROVE  /\ peerSession' \in [Node -> Nat] /\ rxBase' \in [Node -> Nat]
           /\ rxGen' \in [Node -> Nat] /\ rx' \in [Node -> SUBSET RxSlot]
<1>1. /\ peerSession \in [Node -> Nat] /\ rxBase \in [Node -> Nat]
      /\ rxGen \in [Node -> Nat] /\ rx \in [Node -> SUBSET RxSlot]
  BY DEF TypeOK
<1>2. f.session \in Nat
  BY DEF Frame
<1> QED
  BY <1>1, <1>2 DEF AdoptSession, ResetRx, recvVars

\* Taking a frame leaves well-formed queues and history.
LEMMA TakeFrameType ==
    ASSUME TypeOK, NEW n \in Node, NEW type, TakeFrame(n, type)
    PROVE  /\ Head(rawq[n]) \in Frame /\ rawq' \in [Node -> Seq(Frame)]
           /\ serviced' \in [Node -> BOOLEAN] /\ acked' \in [Node -> SUBSET Item]
           /\ Head(rawq[n]).body.type = type
<1>1. rawq[n] \in Seq(Frame) /\ rawq[n] # <<>>
  BY DEF TypeOK, TakeFrame
<1>2. Head(rawq[n]) \in Frame /\ Tail(rawq[n]) \in Seq(Frame)
  BY <1>1, HeadTail
<1>3. {s.item : s \in AckedSlots(n, Head(rawq[n]))} \subseteq Item
  BY DEF TypeOK, AckedSlots, TxSlot
<1> QED
  BY <1>2, <1>3 DEF TypeOK, TakeFrame

\* rotate_local_epoch leaves well-formed queues, slots and counters.
LEMMA RotateType ==
    ASSUME TypeOK, NEW n \in Node, NEW slots, RotateEpoch(n, slots)
    PROVE  /\ session' \in [Node -> Nat] /\ nextSeq' \in [Node -> Nat]
           /\ txq' \in [Node -> Seq(Item)] /\ tx' \in [Node -> SUBSET TxSlot]
<1>1. /\ session \in [Node -> Nat] /\ nextSeq \in [Node -> Nat]
      /\ txq \in [Node -> Seq(Item)] /\ tx \in [Node -> SUBSET TxSlot]
  BY DEF TypeOK
<1>2. txq[n] \in Seq(Item)
  BY <1>1
<1>3. ASSUME txq' = [txq EXCEPT ![n] = <<>>] PROVE txq' \in [Node -> Seq(Item)]
  BY <1>1, <1>3, EmptySeqType
<1>4. ASSUME txq[n] # <<>>, txq' = [txq EXCEPT ![n] = <<Head(txq[n])>>]
      PROVE  txq' \in [Node -> Seq(Item)]
  <2>1. Head(txq[n]) \in Item
    BY <1>2, <1>4, HeadTail
  <2>2. <<Head(txq[n])>> \in Seq(Item)
    BY <2>1, SingletonType
  <2> QED
    BY <1>1, <1>4, <2>2
<1>5. txq' \in [Node -> Seq(Item)]
  BY <1>3, <1>4 DEF RotateEpoch
<1>6. session' = [session EXCEPT ![n] = @ + 1] /\ nextSeq' = [nextSeq EXCEPT ![n] = 1]
      /\ tx' = [tx EXCEPT ![n] = {}]
  BY DEF RotateEpoch
<1> QED
  BY <1>1, <1>5, <1>6

\* Delivery hands over the token of a held slot and keeps the slots well formed.
LEMMA DeliverType ==
    ASSUME TypeOK, NEW n \in Node, NEW slots \in SUBSET RxSlot, NEW base \in Nat,
           DeliverOrdered(n, slots, base)
    PROVE  /\ rx' \in [Node -> SUBSET RxSlot] /\ work' \in [Node -> Seq(Token)]
           /\ runs' \in [Node -> Seq(Token)]
<1>1. /\ rx \in [Node -> SUBSET RxSlot] /\ work \in [Node -> Seq(Token)]
      /\ runs \in [Node -> Seq(Token)]
  BY DEF TypeOK
<1>2. \A s \in slots : /\ Append(work[n], TokenOf(s)) \in Seq(Token)
                       /\ Append(runs[n], TokenOf(s)) \in Seq(Token)
  <2>1. \A s \in slots : TokenOf(s) \in Token
    BY DEF TokenOf, Token, RxSlot
  <2> QED
    BY <1>1, <2>1, AppendType
<1>3. \A s \in slots : \A state \in RxState : [s EXCEPT !.state = state] \in RxSlot
  BY DEF RxSlot
<1>4. "RECEIVED" \in RxState /\ "IN_PROGRESS" \in RxState /\ "ERROR_PENDING" \in RxState
  BY DEF RxState
<1>5. \A s \in slots : \A state \in {"RECEIVED", "IN_PROGRESS", "ERROR_PENDING"} :
        (slots \ {s}) \cup {[s EXCEPT !.state = state]} \in SUBSET RxSlot
  BY <1>3, <1>4
<1>6. CASE rx' = [rx EXCEPT ![n] = slots] /\ UNCHANGED <<work, runs>>
  BY <1>1, <1>6
<1>7. ASSUME NEW s \in slots, NEW state \in {"RECEIVED", "IN_PROGRESS", "ERROR_PENDING"},
             rx' = [rx EXCEPT ![n] = (slots \ {s}) \cup {[s EXCEPT !.state = state]}]
      PROVE  rx' \in [Node -> SUBSET RxSlot]
  BY <1>1, <1>5, <1>7
<1>8. ASSUME NEW s \in slots,
             work' = [work EXCEPT ![n] = Append(@, TokenOf(s))],
             runs' = [runs EXCEPT ![n] = Append(@, TokenOf(s))]
      PROVE  work' \in [Node -> Seq(Token)] /\ runs' \in [Node -> Seq(Token)]
  BY <1>1, <1>2, <1>8
<1> QED
  BY <1>1, <1>6, <1>7, <1>8 DEF DeliverOrdered, Ready
-----------------------------------------------------------------------------
(* Every step of every task keeps the types. *)

\* tx_task keeps the types.
LEMMA TxTaskType ==
    ASSUME TypeOK, NEW n \in Node, TxTask(n)
    PROVE  TypeOK'
<1>1. ASSUME SendControl(n) PROVE TypeOK'
  <2>1. ctrlq[n] \in Seq(Control) /\ ctrlq[n] # <<>>
    BY <1>1 DEF TypeOK, SendControl
  <2>2. Head(ctrlq[n]) \in Control /\ Tail(ctrlq[n]) \in Seq(Control)
    BY <2>1, HeadTail
  <2>3. rawq' \in [Node -> Seq(Frame)]
    BY <1>1, <2>2, PhysicalSendType DEF SendControl
  <2> QED
    BY <1>1, <2>2, <2>3 DEF TypeOK, SendControl, sendVars, recvVars, history
<1>2. ASSUME AllocateSlot(n) PROVE TypeOK'
  <2>1. txq[n] \in Seq(Item) /\ txq[n] # <<>>
    BY <1>2 DEF TypeOK, AllocateSlot
  <2>2. Head(txq[n]) \in Item /\ Tail(txq[n]) \in Seq(Item)
    BY <2>1, HeadTail
  <2>3. [seq |-> nextSeq[n], item |-> Head(txq[n]), sent |-> FALSE] \in TxSlot
    BY <2>2 DEF TypeOK, TxSlot
  <2>4. txq' \in [Node -> Seq(Item)]
    BY <1>2, <2>2 DEF TypeOK, AllocateSlot
  <2>5. tx' \in [Node -> SUBSET TxSlot]
    BY <1>2, <2>3 DEF TypeOK, AllocateSlot
  <2>6. nextSeq' \in [Node -> Nat]
    BY <1>2 DEF TypeOK, AllocateSlot
  <2> QED
    BY <1>2, <2>4, <2>5, <2>6 DEF TypeOK, AllocateSlot, recvVars, history
<1>3. ASSUME SendSlot(n) PROVE TypeOK'
  <2>1. PICK s \in tx[n] : SendFrame(n, s)
    BY <1>3 DEF SendSlot
  <2>2. s \in TxSlot
    BY <2>1 DEF TypeOK
  <2>3. [s EXCEPT !.sent = TRUE] \in TxSlot
    BY <2>2 DEF TxSlot
  <2>4. [type |-> "DATA", seq |-> s.seq, item |-> s.item] \in Data
    BY <2>2 DEF TxSlot, Data
  <2>5. rawq' \in [Node -> Seq(Frame)]
    BY <2>1, <2>4, PhysicalSendType DEF SendFrame
  <2> QED
    BY <2>1, <2>3, <2>5 DEF TypeOK, SendFrame, recvVars, history
<1>4. ASSUME SendHello(n) PROVE TypeOK'
  <2>1. rawq' \in [Node -> Seq(Frame)]
    BY <1>4, PhysicalSendType DEF SendHello
  <2> QED
    BY <1>4, <2>1 DEF TypeOK, SendHello, sendVars, recvVars, history
<1>5. ASSUME LinkDown(n) PROVE TypeOK'
  BY <1>5 DEF TypeOK, LinkDown, sendVars, recvVars, history
<1> QED
  BY <1>1, <1>2, <1>3, <1>4, <1>5 DEF TxTask

\* The handler of each frame type keeps the types.
LEMMA HandleFrameType ==
    ASSUME TypeOK, NEW n \in Node, HandleFrame(n)
    PROVE  TypeOK'
<1> DEFINE f == Head(rawq[n])
           slots == tx[n] \ AckedSlots(n, f)
<1>1. slots \in SUBSET TxSlot
  BY DEF TypeOK
<1>2. Ack \in Control
  BY DEF Control
<1>3. ASSUME RejectFrame(n) PROVE TypeOK'
  <2>1. rawq[n] \in Seq(Frame) /\ rawq[n] # <<>>
    BY <1>3 DEF TypeOK, RejectFrame
  <2>2. Tail(rawq[n]) \in Seq(Frame)
    BY <2>1, HeadTail
  <2> QED
    BY <1>3, <2>2 DEF TypeOK, RejectFrame, sendVars, recvVars, history
<1>4. ASSUME ReceiveAck(n) PROVE TypeOK'
  <2>1. TakeFrame(n, "ACK") /\ AcceptPlain(n)
    BY <1>4 DEF ReceiveAck
  <2>2. /\ rawq' \in [Node -> Seq(Frame)] /\ serviced' \in [Node -> BOOLEAN]
        /\ acked' \in [Node -> SUBSET Item]
    BY <2>1, TakeFrameType
  <2>3. tx' \in [Node -> SUBSET TxSlot] /\ linkUp' \in [Node -> BOOLEAN]
    BY <1>1, <2>1 DEF TypeOK, AcceptPlain
  <2> QED
    BY <1>4, <2>2, <2>3 DEF TypeOK, ReceiveAck, recvVars
<1>5. ASSUME ReceiveHello(n) PROVE TypeOK'
  <2>1. TakeFrame(n, "HELLO") /\ AcceptPlain(n) /\ AdoptSession(n, f)
    BY <1>5 DEF ReceiveHello
  <2>2. /\ f \in Frame /\ rawq' \in [Node -> Seq(Frame)] /\ serviced' \in [Node -> BOOLEAN]
        /\ acked' \in [Node -> SUBSET Item]
    BY <2>1, TakeFrameType
  <2>3. tx' \in [Node -> SUBSET TxSlot] /\ linkUp' \in [Node -> BOOLEAN]
    BY <1>1, <2>1 DEF TypeOK, AcceptPlain
  <2>4. /\ peerSession' \in [Node -> Nat] /\ rxBase' \in [Node -> Nat]
        /\ rxGen' \in [Node -> Nat] /\ rx' \in [Node -> SUBSET RxSlot]
    BY <2>1, <2>2, AdoptType
  <2>5. ctrlq' \in [Node -> Seq(Control)]
    BY <1>2, <1>5, EnqueueType DEF TypeOK, ReceiveHello
  <2> QED
    BY <1>5, <2>2, <2>3, <2>4, <2>5 DEF TypeOK, ReceiveHello
<1>6. ASSUME ReceiveData(n) PROVE TypeOK'
  <2>1. TakeFrame(n, "DATA") /\ AcceptPlain(n) /\ (StoreData(n, f) \/ RefuseData(n, f))
    BY <1>6 DEF ReceiveData
  <2>2. /\ f \in Frame /\ rawq' \in [Node -> Seq(Frame)] /\ serviced' \in [Node -> BOOLEAN]
        /\ acked' \in [Node -> SUBSET Item] /\ f.body.type = "DATA"
    BY <2>1, TakeFrameType
  <2>3. tx' \in [Node -> SUBSET TxSlot] /\ linkUp' \in [Node -> BOOLEAN]
    BY <1>1, <2>1 DEF TypeOK, AcceptPlain
  <2>4. f.body \in Data /\ f.session \in Nat
    BY <2>2 DEF Frame, Control, Ack, Hello, Request, Reply, Data
  <2>5. f.body.seq \in Nat /\ f.body.item \in Item
    BY <2>4 DEF Data
  <2>6. /\ ctrlq \in [Node -> Seq(Control)] /\ rx \in [Node -> SUBSET RxSlot]
        /\ rxGen \in [Node -> Nat] /\ recovery \in [Node -> Recovery]
    BY DEF TypeOK
  <2>7. NewRxSlot(n, f) \in RxSlot
    BY <2>4, <2>5, <2>6 DEF NewRxSlot, RxSlot, RxState
  <2>8. Enqueue(ctrlq[n], Ack) \in Seq(Control)
    BY <1>2, <2>6, EnqueueType
  <2>9. ASSUME StoreData(n, f)
        PROVE  /\ rx' \in [Node -> SUBSET RxSlot] /\ ctrlq' \in [Node -> Seq(Control)]
               /\ recovery' \in [Node -> Recovery]
    BY <2>6, <2>7, <2>8, <2>9 DEF StoreData
  <2>10. ASSUME RefuseData(n, f)
         PROVE  /\ rx' \in [Node -> SUBSET RxSlot] /\ ctrlq' \in [Node -> Seq(Control)]
                /\ recovery' \in [Node -> Recovery]
    <3> DEFINE r == NewRecovery(n, "GAP", rxBase[n] + 1)
    <3>1. CASE /\ recovery[n].active
               /\ ctrlq' = [ctrlq EXCEPT ![n] = Enqueue(@, Ack)]
               /\ UNCHANGED recovery
      BY <2>6, <2>8, <2>10, <3>1 DEF RefuseData
    <3>2. CASE /\ MayRecover(n)
               /\ recovery' = [recovery EXCEPT ![n] = r]
               /\ ctrlq' = [ctrlq EXCEPT ![n] = Enqueue(Enqueue(@, RequestOf(n, r)), Ack)]
      <4>1. r \in Recovery
        BY <3>2, RecoveryType DEF Reason
      <4>2. RequestOf(n, r) \in Control
        BY <4>1, RequestType
      <4>3. Enqueue(Enqueue(ctrlq[n], RequestOf(n, r)), Ack) \in Seq(Control)
        BY <1>2, <2>6, <4>2, EnqueueType
      <4> HIDE DEF r
      <4> QED
        BY <2>6, <2>10, <3>2, <4>1, <4>3 DEF RefuseData
    <3> HIDE DEF r
    <3> QED
      BY <2>10, <3>1, <3>2 DEF RefuseData, r
  <2> QED
    BY <1>6, <2>1, <2>2, <2>3, <2>9, <2>10 DEF TypeOK, ReceiveData
<1>7. ASSUME ReceiveRequest(n) PROVE TypeOK'
  <2> DEFINE wanted == {s \in slots : s.seq = f.body.expected}
             answer(action) == [type |-> "RESYNC_REPLY", nonce |-> f.body.nonce,
                                action |-> action]
  <2>1. TakeFrame(n, "RESYNC_REQUEST")
    BY <1>7 DEF ReceiveRequest
  <2>2. /\ f \in Frame /\ rawq' \in [Node -> Seq(Frame)] /\ serviced' \in [Node -> BOOLEAN]
        /\ acked' \in [Node -> SUBSET Item] /\ f.body.type = "RESYNC_REQUEST"
    BY <2>1, TakeFrameType
  <2>3. f.body.nonce \in Nat
    BY <2>2 DEF Frame, Control, Ack, Hello, Request, Reply, Data
  <2>4. answer("RETRANSMIT") \in Control /\ answer("NEW_EPOCH") \in Control
    BY <2>3 DEF Control, Reply
  <2>5. /\ ctrlq \in [Node -> Seq(Control)] /\ tx \in [Node -> SUBSET TxSlot]
        /\ linkUp \in [Node -> BOOLEAN] /\ session \in [Node -> Nat]
        /\ nextSeq \in [Node -> Nat] /\ txq \in [Node -> Seq(Item)]
        /\ peerSession \in [Node -> Nat] /\ rxBase \in [Node -> Nat]
        /\ rxGen \in [Node -> Nat] /\ rx \in [Node -> SUBSET RxSlot]
    BY DEF TypeOK
  <2>6. /\ Enqueue(ctrlq[n], answer("RETRANSMIT")) \in Seq(Control)
        /\ Enqueue(ctrlq[n], answer("NEW_EPOCH")) \in Seq(Control)
    BY <2>4, <2>5, EnqueueType
  <2>7. (slots \ wanted) \cup {[s EXCEPT !.sent = FALSE] : s \in wanted} \in SUBSET TxSlot
    BY <1>1 DEF TxSlot
  <2> DEFINE Sent == /\ session' \in [Node -> Nat] /\ nextSeq' \in [Node -> Nat]
                     /\ txq' \in [Node -> Seq(Item)] /\ tx' \in [Node -> SUBSET TxSlot]
             Received == /\ peerSession' \in [Node -> Nat] /\ rxBase' \in [Node -> Nat]
                         /\ rxGen' \in [Node -> Nat] /\ rx' \in [Node -> SUBSET RxSlot]
             Rest == linkUp' \in [Node -> BOOLEAN] /\ ctrlq' \in [Node -> Seq(Control)]
  <2>8. ASSUME tx' = [tx EXCEPT ![n] = slots], linkUp' = [linkUp EXCEPT ![n] = TRUE],
               UNCHANGED <<session, nextSeq, txq, ctrlq, recvVars>>
        PROVE  Sent /\ Received /\ Rest
    BY <1>1, <2>5, <2>8 DEF recvVars
  <2>9. ASSUME tx' = [tx EXCEPT ![n] = (slots \ wanted)
                                       \cup {[s EXCEPT !.sent = FALSE] : s \in wanted}],
               linkUp' = [linkUp EXCEPT ![n] = TRUE],
               ctrlq' = [ctrlq EXCEPT ![n] = Enqueue(@, answer("RETRANSMIT"))],
               UNCHANGED <<session, nextSeq, txq, recvVars>>
        PROVE  Sent /\ Received /\ Rest
    <3> HIDE DEF slots, wanted, answer
    <3> QED
      BY <2>5, <2>6, <2>7, <2>9 DEF recvVars
  <2>10. ASSUME RotateEpoch(n, slots), linkUp' = [linkUp EXCEPT ![n] = TRUE],
                ctrlq' = [ctrlq EXCEPT ![n] = Enqueue(@, answer("NEW_EPOCH"))],
                UNCHANGED recvVars
         PROVE  Sent /\ Received /\ Rest
    <3>1. Sent
      BY <2>10, RotateType
    <3> HIDE DEF slots, answer
    <3> QED
      BY <2>5, <2>6, <2>10, <3>1 DEF recvVars
  <2>11. ASSUME RotateEpoch(n, slots), linkUp' = [linkUp EXCEPT ![n] = FALSE],
                ctrlq' = [ctrlq EXCEPT ![n] = Enqueue(@, answer("NEW_EPOCH"))],
                ResetRx(n, 0)
         PROVE  Sent /\ Received /\ Rest
    <3>1. Sent
      BY <2>11, RotateType
    <3>2. Received
      BY <2>5, <2>11 DEF ResetRx
    <3> HIDE DEF slots, answer
    <3> QED
      BY <2>5, <2>6, <2>11, <3>1, <3>2
  <2>12. Sent /\ Received /\ Rest
    <3>1. \/ /\ tx' = [tx EXCEPT ![n] = slots] /\ linkUp' = [linkUp EXCEPT ![n] = TRUE]
             /\ UNCHANGED <<session, nextSeq, txq, ctrlq, recvVars>>
          \/ /\ tx' = [tx EXCEPT ![n] = (slots \ wanted)
                                         \cup {[s EXCEPT !.sent = FALSE] : s \in wanted}]
             /\ linkUp' = [linkUp EXCEPT ![n] = TRUE]
             /\ ctrlq' = [ctrlq EXCEPT ![n] = Enqueue(@, answer("RETRANSMIT"))]
             /\ UNCHANGED <<session, nextSeq, txq, recvVars>>
          \/ /\ RotateEpoch(n, slots) /\ linkUp' = [linkUp EXCEPT ![n] = TRUE]
             /\ ctrlq' = [ctrlq EXCEPT ![n] = Enqueue(@, answer("NEW_EPOCH"))]
             /\ UNCHANGED recvVars
          \/ /\ RotateEpoch(n, slots) /\ linkUp' = [linkUp EXCEPT ![n] = FALSE]
             /\ ctrlq' = [ctrlq EXCEPT ![n] = Enqueue(@, answer("NEW_EPOCH"))]
             /\ ResetRx(n, 0)
      BY <1>7, Zenon DEF ReceiveRequest
    <3> HIDE DEF Sent, Received, Rest, slots, wanted, answer, f
    <3> QED
      BY <2>8, <2>9, <2>10, <2>11, <3>1
  <2>13. /\ work' = work /\ recovery' = recovery /\ issued' = issued
         /\ runs' = runs /\ committed' = committed
    BY <1>7 DEF ReceiveRequest
  <2> HIDE DEF slots, wanted, answer, f
  <2> QED
    BY <2>2, <2>12, <2>13 DEF TypeOK
<1>8. ASSUME ReceiveReply(n) PROVE TypeOK'
  <2> DEFINE current == recovery[n].active /\ f.body.nonce = recovery[n].nonce
             rotates == /\ current /\ recovery[n].reason = "MANUAL"
                        /\ f.body.action = "NEW_EPOCH"
  <2>1. TakeFrame(n, "RESYNC_REPLY") /\ AdoptSession(n, f)
    BY <1>8 DEF ReceiveReply
  <2>2. /\ f \in Frame /\ rawq' \in [Node -> Seq(Frame)] /\ serviced' \in [Node -> BOOLEAN]
        /\ acked' \in [Node -> SUBSET Item]
    BY <2>1, TakeFrameType
  <2>3. /\ peerSession' \in [Node -> Nat] /\ rxBase' \in [Node -> Nat]
        /\ rxGen' \in [Node -> Nat] /\ rx' \in [Node -> SUBSET RxSlot]
    BY <2>1, <2>2, AdoptType
  <2>4. linkUp' \in [Node -> BOOLEAN]
    BY <1>8 DEF TypeOK, ReceiveReply
  <2>5. recovery' \in [Node -> Recovery]
    <3>1. recovery \in [Node -> Recovery]
      BY DEF TypeOK
    <3>2. Ended(recovery[n]) \in Recovery
      BY <3>1, EndedType
    <3>3. recovery' = [recovery EXCEPT ![n] = Ended(@)] \/ recovery' = recovery
      BY <1>8 DEF ReceiveReply
    <3> QED
      BY <3>1, <3>2, <3>3
  <2>6. /\ session' \in [Node -> Nat] /\ nextSeq' \in [Node -> Nat]
        /\ txq' \in [Node -> Seq(Item)] /\ tx' \in [Node -> SUBSET TxSlot]
    <3>1. CASE RotateEpoch(n, slots)
      BY <3>1, RotateType
    <3>2. CASE tx' = [tx EXCEPT ![n] = slots] /\ UNCHANGED <<session, nextSeq, txq>>
      BY <1>1, <3>2 DEF TypeOK
    <3> QED
      BY <1>8, <3>1, <3>2 DEF ReceiveReply
  <2>7. UNCHANGED <<ctrlq, work, issued, runs, committed>>
    BY <1>8 DEF ReceiveReply
  <2> QED
    BY <2>2, <2>3, <2>4, <2>5, <2>6, <2>7 DEF TypeOK
<1> QED
  BY <1>3, <1>4, <1>5, <1>6, <1>7, <1>8 DEF HandleFrame

\* A pass of service_rx keeps the types.
LEMMA ServiceRxType ==
    ASSUME TypeOK, NEW n \in Node, ServiceRx(n)
    PROVE  TypeOK'
<1>1. /\ rx \in [Node -> SUBSET RxSlot] /\ rxBase \in [Node -> Nat]
      /\ ctrlq \in [Node -> Seq(Control)] /\ txq \in [Node -> Seq(Item)]
      /\ committed \in [Node -> SUBSET Item] /\ serviced \in [Node -> BOOLEAN]
  BY DEF TypeOK
<1>2. \A s \in rx[n] : s \in RxSlot /\ s.item \in Item
  BY <1>1 DEF RxSlot
<1>3. ASSUME NEW head \in HeadSlot(n), RetireHead(n, head)
      PROVE  /\ rx' \in [Node -> SUBSET RxSlot] /\ rxBase' \in [Node -> Nat]
             /\ ctrlq' \in [Node -> Seq(Control)] /\ work' \in [Node -> Seq(Token)]
             /\ runs' \in [Node -> Seq(Token)]
  <2>1. Enqueue(ctrlq[n], Ack) \in Seq(Control)
    BY <1>1, EnqueueType DEF Control
  <2>2. ctrlq' \in [Node -> Seq(Control)] /\ rxBase' \in [Node -> Nat]
    BY <1>1, <1>3, <2>1 DEF RetireHead
  <2>3. rx[n] \ {head} \in SUBSET RxSlot /\ rxBase[n] + 1 \in Nat
    BY <1>1
  <2>4. DeliverOrdered(n, rx[n] \ {head}, rxBase[n] + 1)
    BY <1>3 DEF RetireHead
  <2> QED
    BY <2>2, <2>3, <2>4, DeliverType
<1>4. ASSUME AdvanceCommitted(n) PROVE TypeOK'
  <2>1. /\ rx' \in [Node -> SUBSET RxSlot] /\ rxBase' \in [Node -> Nat]
        /\ ctrlq' \in [Node -> Seq(Control)] /\ work' \in [Node -> Seq(Token)]
        /\ runs' \in [Node -> Seq(Token)]
    BY <1>3, <1>4 DEF AdvanceCommitted
  <2>2. serviced' \in [Node -> BOOLEAN]
    BY <1>1, <1>4 DEF AdvanceCommitted
  <2> QED
    BY <1>4, <2>1, <2>2 DEF TypeOK, AdvanceCommitted, sendVars
<1>5. ASSUME QueueHeadError(n) PROVE TypeOK'
  <2>1. PICK head \in HeadSlot(n) :
          /\ \/ UNCHANGED txq
             \/ txq' = [txq EXCEPT ![n] =
                            Append(@, [type |-> "COMMAND_ERROR", id |-> head.item.id])]
          /\ committed' = [committed EXCEPT ![n] = @ \cup {head.item}]
          /\ RetireHead(n, head)
    BY <1>5 DEF QueueHeadError
  <2>2. /\ rx' \in [Node -> SUBSET RxSlot] /\ rxBase' \in [Node -> Nat]
        /\ ctrlq' \in [Node -> Seq(Control)] /\ work' \in [Node -> Seq(Token)]
        /\ runs' \in [Node -> Seq(Token)]
    BY <1>3, <2>1
  <2>3. head.item \in Item
    BY <1>2 DEF HeadSlot
  <2>4. [type |-> "COMMAND_ERROR", id |-> head.item.id] \in Item
    BY <2>3 DEF Item
  <2>5. Append(txq[n], [type |-> "COMMAND_ERROR", id |-> head.item.id]) \in Seq(Item)
    BY <1>1, <2>4, AppendType
  <2>6. txq' \in [Node -> Seq(Item)]
    BY <1>1, <2>1, <2>5
  <2>7. committed' \in [Node -> SUBSET Item]
    BY <1>1, <2>1, <2>3
  <2>8. serviced' \in [Node -> BOOLEAN]
    BY <1>1, <1>5 DEF QueueHeadError
  <2> QED
    BY <1>5, <2>2, <2>6, <2>7, <2>8 DEF TypeOK, QueueHeadError
<1>6. ASSUME ServiceHead(n) PROVE TypeOK'
  <2>1. /\ rx' \in [Node -> SUBSET RxSlot] /\ work' \in [Node -> Seq(Token)]
        /\ runs' \in [Node -> Seq(Token)]
    <3>1. CASE DeliverOrdered(n, rx[n], rxBase[n])
      BY <1>1, <3>1, DeliverType
    <3>2. CASE /\ \E s \in HeadSlot(n) :
                    rx' = [rx EXCEPT ![n] = (@ \ {s})
                                            \cup {[s EXCEPT !.state = "ERROR_PENDING"]}]
               /\ UNCHANGED <<work, runs>>
      <4>1. \A s \in rx[n] : [s EXCEPT !.state = "ERROR_PENDING"] \in RxSlot
        BY <1>2 DEF RxSlot, RxState
      <4> QED
        BY <1>1, <3>2, <4>1 DEF TypeOK, HeadSlot
    <3> QED
      BY <1>6, <3>1, <3>2 DEF ServiceHead
  <2>2. serviced' \in [Node -> BOOLEAN]
    BY <1>1, <1>6 DEF ServiceHead
  <2> QED
    BY <1>6, <2>1, <2>2 DEF TypeOK, ServiceHead, sendVars
<1> QED
  BY <1>4, <1>5, <1>6 DEF ServiceRx

\* recovery_tick keeps the types.
LEMMA RecoveryTickType ==
    ASSUME TypeOK, NEW n \in Node, RecoveryTick(n)
    PROVE  TypeOK'
<1>1. /\ recovery \in [Node -> Recovery] /\ ctrlq \in [Node -> Seq(Control)]
      /\ linkUp \in [Node -> BOOLEAN]
  BY DEF TypeOK
<1>2. ASSUME NEW r \in Recovery,
             recovery' = [recovery EXCEPT ![n] = r],
             ctrlq' = [ctrlq EXCEPT ![n] = Enqueue(@, RequestOf(n, r))]
      PROVE  recovery' \in [Node -> Recovery] /\ ctrlq' \in [Node -> Seq(Control)]
  <2>1. Enqueue(ctrlq[n], RequestOf(n, r)) \in Seq(Control)
    BY <1>1, RequestType, EnqueueType
  <2> QED
    BY <1>1, <1>2, <2>1
<1>3. ASSUME ResyncRetry(n) PROVE TypeOK'
  <2>1. [recovery[n] EXCEPT !.retries = @ + 1] \in Recovery
    <3>1. recovery[n] \in Recovery /\ recovery[n].retries + 1 \in Nat
      BY <1>1 DEF Recovery
    <3>2. \A r \in Recovery : \A k \in Nat : [r EXCEPT !.retries = k] \in Recovery
      BY DEF Recovery
    <3> QED
      BY <3>1, <3>2
  <2>2. recovery' \in [Node -> Recovery] /\ ctrlq' \in [Node -> Seq(Control)]
    BY <1>2, <1>3, <2>1 DEF ResyncRetry
  <2> QED
    BY <1>3, <2>2 DEF TypeOK, ResyncRetry, sendVars, recvVars, history
<1>4. ASSUME ResyncExhausted(n) PROVE TypeOK'
  <2>1. [recovery[n] EXCEPT !.active = FALSE] \in Recovery
    BY <1>1 DEF Recovery
  <2>2. recovery' \in [Node -> Recovery] /\ linkUp' \in [Node -> BOOLEAN]
    BY <1>1, <1>4, <2>1 DEF ResyncExhausted
  <2> QED
    BY <1>4, <2>2 DEF TypeOK, ResyncExhausted, sendVars, recvVars, history
<1>5. ASSUME GapTimeout(n) PROVE TypeOK'
  <2>1. NewRecovery(n, "GAP", rxBase[n] + 1) \in Recovery
    BY <1>5, RecoveryType DEF GapTimeout, Reason
  <2>2. recovery' \in [Node -> Recovery] /\ ctrlq' \in [Node -> Seq(Control)]
    BY <1>2, <1>5, <2>1 DEF GapTimeout
  <2> QED
    BY <1>5, <2>2 DEF TypeOK, GapTimeout, sendVars, recvVars, history
<1> QED
  BY <1>3, <1>4, <1>5 DEF RecoveryTick

\* The application, the user and a reboot keep the types.
LEMMA ApplicationType ==
    ASSUME TypeOK, NEW n \in Node, Application(n)
    PROVE  TypeOK'
<1>1. /\ recovery \in [Node -> Recovery] /\ ctrlq \in [Node -> Seq(Control)]
      /\ rx \in [Node -> SUBSET RxSlot] /\ txq \in [Node -> Seq(Item)]
      /\ work \in [Node -> Seq(Token)] /\ issued \in [Node -> Nat]
      /\ committed \in [Node -> SUBSET Item]
  BY DEF TypeOK
<1>2. ASSUME Send(n) PROVE TypeOK'
  <2>1. [type |-> "COMMAND", id |-> issued[n] + 1] \in Item
    BY <1>1 DEF Item
  <2>2. Append(txq[n], [type |-> "COMMAND", id |-> issued[n] + 1]) \in Seq(Item)
    BY <1>1, <2>1, AppendType
  <2>3. txq' \in [Node -> Seq(Item)] /\ issued' \in [Node -> Nat]
    BY <1>1, <1>2, <2>2 DEF Send
  <2> QED
    BY <1>2, <2>3 DEF TypeOK, Send, recvVars
<1>3. ASSUME CompleteRx(n) PROVE TypeOK'
  <2> DEFINE slots == Completes(n, Head(work[n]))
  <2>1. slots \in SUBSET RxSlot
    BY <1>1 DEF Completes
  <2>2. \A s \in slots : s.item \in Item
    BY <2>1 DEF RxSlot
  <2>3. PICK state \in {"COMMITTED", "ERROR_PENDING"} :
          /\ rx' = [rx EXCEPT ![n] = (@ \ slots)
                                     \cup {[s EXCEPT !.state = state] : s \in slots}]
          /\ committed' = [committed EXCEPT ![n] =
                @ \cup {s.item : s \in {t \in slots : state = "COMMITTED"}}]
    BY <1>3, Zenon DEF CompleteRx
  <2>4. \A s \in slots : [s EXCEPT !.state = state] \in RxSlot
    BY <2>1, <2>3 DEF RxSlot, RxState
  <2>5. {[s EXCEPT !.state = state] : s \in slots} \in SUBSET RxSlot
    BY <2>4
  <2>6. {s.item : s \in {t \in slots : state = "COMMITTED"}} \in SUBSET Item
    BY <2>2
  <2>7. rx' \in [Node -> SUBSET RxSlot] /\ committed' \in [Node -> SUBSET Item]
    <3> DEFINE new == {[s EXCEPT !.state = state] : s \in slots}
               done == {s.item : s \in {t \in slots : state = "COMMITTED"}}
    <3>1. new \in SUBSET RxSlot /\ done \in SUBSET Item
      BY <2>5, <2>6
    <3>2. /\ rx' = [rx EXCEPT ![n] = (@ \ slots) \cup new]
          /\ committed' = [committed EXCEPT ![n] = @ \cup done]
      BY <2>3
    <3> HIDE DEF new, done, slots
    <3> QED
      BY <1>1, <3>1, <3>2
  <2>8. work[n] \in Seq(Token) /\ work[n] # <<>>
    BY <1>1, <1>3 DEF CompleteRx
  <2>9. Tail(work[n]) \in Seq(Token)
    BY <2>8, HeadTail
  <2>10. work' \in [Node -> Seq(Token)]
    BY <1>1, <1>3, <2>9 DEF CompleteRx
  <2>11. UNCHANGED <<sendVars, ctrlq, rawq, peerSession, rxBase, rxGen, linkUp, recovery,
                     serviced, issued, runs, acked>>
    BY <1>3 DEF CompleteRx
  <2> QED
    BY <2>7, <2>10, <2>11 DEF TypeOK, sendVars
<1>4. ASSUME Recover(n) PROVE TypeOK'
  <2> DEFINE r == NewRecovery(n, "MANUAL", rxBase[n] + 1)
  <2>1. r \in Recovery
    BY <1>4, RecoveryType DEF Recover, Reason
  <2>2. Enqueue(ctrlq[n], RequestOf(n, r)) \in Seq(Control)
    BY <1>1, <2>1, RequestType, EnqueueType
  <2>3. recovery' = [recovery EXCEPT ![n] = r]
        /\ ctrlq' = [ctrlq EXCEPT ![n] = Enqueue(@, RequestOf(n, r))]
    BY <1>4 DEF Recover
  <2> HIDE DEF r
  <2>4. recovery' \in [Node -> Recovery] /\ ctrlq' \in [Node -> Seq(Control)]
    BY <1>1, <2>1, <2>2, <2>3
  <2> QED
    BY <1>4, <2>4 DEF TypeOK, Recover, sendVars, recvVars, history
<1>5. ASSUME Restart(n) PROVE TypeOK'
  <2>1. /\ session' \in [Node -> Nat] /\ nextSeq' \in [Node -> Nat]
        /\ txq' \in [Node -> Seq(Item)] /\ tx' \in [Node -> SUBSET TxSlot]
        /\ ctrlq' \in [Node -> Seq(Control)] /\ rawq' \in [Node -> Seq(Frame)]
    BY <1>5, EmptySeqType DEF TypeOK, Restart
  <2>2. /\ peerSession' \in [Node -> Nat] /\ rxBase' \in [Node -> Nat]
        /\ rxGen' \in [Node -> Nat] /\ rx' \in [Node -> SUBSET RxSlot]
        /\ work' \in [Node -> Seq(Token)] /\ runs' \in [Node -> Seq(Token)]
    BY <1>5, EmptySeqType DEF TypeOK, Restart
  <2>3. linkUp' \in [Node -> BOOLEAN] /\ serviced' \in [Node -> BOOLEAN]
    BY <1>5 DEF TypeOK, Restart
  <2>4. Ended(recovery[n]) \in Recovery
    BY <1>1, EndedType
  <2>5. recovery' \in [Node -> Recovery]
    BY <1>1, <1>5, <2>4 DEF Restart
  <2>6. UNCHANGED <<issued, acked, committed>>
    BY <1>5 DEF Restart
  <2> QED
    BY <2>1, <2>2, <2>3, <2>5, <2>6 DEF TypeOK
<1> QED
  BY <1>2, <1>3, <1>4, <1>5 DEF Application
-----------------------------------------------------------------------------

\* datlink_transport_init establishes the types.
LEMMA InitType == Init => TypeOK
<1> SUFFICES ASSUME Init PROVE TypeOK
  OBVIOUS
<1>1. /\ txq \in [Node -> Seq(Item)] /\ ctrlq \in [Node -> Seq(Control)]
      /\ rawq \in [Node -> Seq(Frame)] /\ work \in [Node -> Seq(Token)]
      /\ runs \in [Node -> Seq(Token)]
  BY EmptySeqType DEF Init
<1>2. recovery \in [Node -> Recovery]
  BY DEF Init, Recovery, Reason
<1> QED
  BY <1>1, <1>2 DEF Init, TypeOK

\* Every step of either board keeps the types.
LEMMA StepType == TypeOK /\ [Next]_vars => TypeOK'
<1> SUFFICES ASSUME TypeOK, [Next]_vars PROVE TypeOK'
  OBVIOUS
<1>1. CASE UNCHANGED vars
  BY <1>1 DEF TypeOK, vars, sendVars, recvVars, history
<1>2. CASE Next
  BY <1>2, TxTaskType, HandleFrameType, ServiceRxType, RecoveryTickType, ApplicationType
  DEF Next
<1> QED
  BY <1>1, <1>2

\* Every queue, slot and counter of both tasks stays in its type, whatever is
\* lost, retransmitted, recovered or rebooted.
THEOREM TypeCorrect == Spec => []TypeOK
  BY InitType, StepType, PTL DEF Spec
-----------------------------------------------------------------------------
(***************************************************************************)
(* OneAtATime, node by node.  Only steps of n touch the receive side of n; *)
(* each leaves its slots ordered above its base.                           *)
(***************************************************************************)
Ordered(slots, base, gen, peer) ==
    \A s \in slots :
        /\ s.seq > base /\ s.seq <= base + RxWindow
        /\ s.gen = gen /\ s.session = peer
        /\ s.state # "RECEIVED" => s.seq = base + 1
        /\ \A t \in slots : t.seq = s.seq => t = s

OrderedAt(n) == Ordered(rx[n], rxBase[n], rxGen[n], peerSession[n])

\* A step that changes the receive side of n only needs a look at n.
LEMMA OneNode ==
    ASSUME OneAtATime, NEW n \in Node, OrderedAt(n)',
           \A m \in Node \ {n} : /\ rx'[m] = rx[m] /\ rxBase'[m] = rxBase[m]
                                 /\ rxGen'[m] = rxGen[m] /\ peerSession'[m] = peerSession[m]
    PROVE  OneAtATime'
<1>1. ASSUME NEW m \in Node PROVE OrderedAt(m)'
  <2>1. CASE m = n
    BY <2>1
  <2>2. CASE m # n
    <3>1. OrderedAt(m)
      BY DEF OneAtATime, OrderedAt, Ordered
    <3> QED
      BY <2>2, <3>1 DEF OrderedAt, Ordered
  <2> QED
    BY <2>1, <2>2
<1> QED
  BY <1>1 DEF OneAtATime, OrderedAt, Ordered

\* A step that leaves the receive side alone keeps the slots ordered.
LEMMA UnchangedRx == OneAtATime /\ UNCHANGED recvVars => OneAtATime'
  BY DEF OneAtATime, recvVars

\* reset_rx_session_locked leaves no slot, hence ordered slots.
LEMMA ResetOrdered ==
    ASSUME TypeOK, OneAtATime, NEW n \in Node, NEW peer, ResetRx(n, peer)
    PROVE  OneAtATime'
<1>1. rx'[n] = {}
  BY DEF TypeOK, ResetRx
<1>2. OrderedAt(n)'
  BY <1>1 DEF OrderedAt, Ordered
<1>3. \A m \in Node \ {n} : /\ rx'[m] = rx[m] /\ rxBase'[m] = rxBase[m]
                            /\ rxGen'[m] = rxGen[m] /\ peerSession'[m] = peerSession[m]
  BY DEF TypeOK, ResetRx
<1> QED
  BY <1>2, <1>3, OneNode

\* deliver_ordered only moves the slot next to the base.
LEMMA DeliverOrderedSlots ==
    ASSUME TypeOK, NEW n \in Node, NEW slots \in SUBSET RxSlot, NEW base \in Nat,
           Ordered(slots, base, rxGen[n], peerSession[n]),
           DeliverOrdered(n, slots, base)
    PROVE  /\ Ordered(rx'[n], base, rxGen[n], peerSession[n])
           /\ \A m \in Node \ {n} : rx'[m] = rx[m]
<1>1. rx \in [Node -> SUBSET RxSlot]
  BY DEF TypeOK
<1>2. CASE rx' = [rx EXCEPT ![n] = slots]
  BY <1>1, <1>2
<1>3. ASSUME NEW s \in slots, s.seq = base + 1,
             NEW state \in {"RECEIVED", "IN_PROGRESS", "ERROR_PENDING"},
             rx' = [rx EXCEPT ![n] = (slots \ {s}) \cup {[s EXCEPT !.state = state]}]
      PROVE  /\ Ordered(rx'[n], base, rxGen[n], peerSession[n])
             /\ \A m \in Node \ {n} : rx'[m] = rx[m]
  <2> DEFINE new == [s EXCEPT !.state = state]
  <2>1. s \in RxSlot
    OBVIOUS
  <2>2. /\ new.seq = s.seq /\ new.gen = s.gen /\ new.session = s.session
    BY <2>1 DEF RxSlot
  <2>3. rx'[n] = (slots \ {s}) \cup {new}
    BY <1>1, <1>3
  <2>4. \A m \in Node \ {n} : rx'[m] = rx[m]
    BY <1>1, <1>3
  <2> HIDE DEF new
  <2> QED
    BY <1>3, <2>2, <2>3, <2>4 DEF Ordered
<1> QED
  BY <1>2, <1>3 DEF DeliverOrdered, Ready

\* Every step keeps the receive slots ordered.
LEMMA FrameOrdered ==
    ASSUME TypeOK, OneAtATime, NEW n \in Node, HandleFrame(n)
    PROVE  OneAtATime'
<1> DEFINE f == Head(rawq[n])
<1>1. ASSUME RejectFrame(n) \/ ReceiveAck(n) PROVE OneAtATime'
  BY <1>1, UnchangedRx DEF RejectFrame, ReceiveAck
<1>2. ASSUME AdoptSession(n, f) PROVE OneAtATime'
  BY <1>2, UnchangedRx, ResetOrdered DEF AdoptSession
<1>3. ASSUME ReceiveRequest(n) PROVE OneAtATime'
  BY <1>3, UnchangedRx, ResetOrdered DEF ReceiveRequest
<1>4. ASSUME ReceiveData(n) PROVE OneAtATime'
  <2>1. TakeFrame(n, "DATA") /\ (StoreData(n, f) \/ RefuseData(n, f))
        /\ UNCHANGED <<peerSession, rxBase, rxGen>>
    BY <1>4 DEF ReceiveData
  <2>2. CASE RefuseData(n, f)
    BY <2>1, <2>2, UnchangedRx DEF RefuseData, recvVars
  <2>3. CASE StoreData(n, f)
    <3>1. f \in Frame /\ f.body.type = "DATA" /\ Accepts(n, f)
      BY <2>1, TakeFrameType DEF TakeFrame
    <3>2. f.session = peerSession[n]
      BY <3>1 DEF Accepts
    <3>3. f.body.seq \in Nat
      BY <3>1 DEF Frame, Control, Ack, Hello, Request, Reply, Data
    <3>4. CASE UNCHANGED rx
      BY <2>1, <3>4, UnchangedRx DEF recvVars
    <3>5. CASE rx' # rx
      <4> DEFINE new == NewRxSlot(n, f)
      <4>1. /\ f.body.seq <= rxBase[n] + RxWindow /\ ~(f.body.seq <= rxBase[n])
            /\ \A s \in rx[n] : s.seq # f.body.seq
            /\ rx' = [rx EXCEPT ![n] = @ \cup {new}]
        BY <2>3, <3>5 DEF StoreData, Duplicate
      <4>2. /\ new.seq = f.body.seq /\ new.gen = rxGen[n] /\ new.session = peerSession[n]
            /\ new.state = "RECEIVED"
        BY <3>2 DEF NewRxSlot
      <4>3. rx \in [Node -> SUBSET RxSlot] /\ rxBase \in [Node -> Nat]
        BY DEF TypeOK
      <4>4. rx'[n] = rx[n] \cup {new} /\ \A m \in Node \ {n} : rx'[m] = rx[m]
        BY <4>1, <4>3
      <4>5. OrderedAt(n)
        BY DEF OneAtATime, OrderedAt, Ordered
      <4>6. f.body.seq > rxBase[n]
        BY <3>3, <4>1, <4>3
      <4> HIDE DEF new, f
      <4>7. OrderedAt(n)'
        BY <2>1, <4>1, <4>2, <4>4, <4>5, <4>6 DEF OrderedAt, Ordered
      <4> QED
        BY <2>1, <4>4, <4>7, OneNode
    <3> QED
      BY <3>4, <3>5
  <2> QED
    BY <2>1, <2>2, <2>3
<1> QED
  BY <1>1, <1>2, <1>3, <1>4 DEF HandleFrame, ReceiveHello, ReceiveReply

\* service_rx keeps the slots ordered: it retires the head before it delivers.
LEMMA ServiceOrdered ==
    ASSUME TypeOK, OneAtATime, NEW n \in Node, ServiceRx(n)
    PROVE  OneAtATime'
<1>1. /\ rx \in [Node -> SUBSET RxSlot] /\ rxBase \in [Node -> Nat]
      /\ RxWindow \in Nat
  BY SizeAssumption DEF TypeOK
<1>2. OrderedAt(n) /\ \A s \in rx[n] : s.seq \in Nat
  BY <1>1 DEF OneAtATime, OrderedAt, Ordered, RxSlot
<1>3. ASSUME NEW head \in HeadSlot(n), RetireHead(n, head), UNCHANGED <<rxGen, peerSession>>
      PROVE  OneAtATime'
  <2>1. /\ rxBase' = [rxBase EXCEPT ![n] = @ + 1]
        /\ DeliverOrdered(n, rx[n] \ {head}, rxBase[n] + 1)
    BY <1>3 DEF RetireHead
  <2>2. rx[n] \ {head} \in SUBSET RxSlot /\ rxBase[n] + 1 \in Nat
    BY <1>1
  <2>3. Ordered(rx[n] \ {head}, rxBase[n] + 1, rxGen[n], peerSession[n])
    <3>1. \A s \in rx[n] \ {head} : s.seq # rxBase[n] + 1
      BY <1>2 DEF HeadSlot, OrderedAt, Ordered
    <3> QED
      BY <1>1, <1>2, <3>1 DEF OrderedAt, Ordered
  <2>4. /\ Ordered(rx'[n], rxBase[n] + 1, rxGen[n], peerSession[n])
        /\ \A m \in Node \ {n} : rx'[m] = rx[m]
    BY <2>1, <2>2, <2>3, DeliverOrderedSlots
  <2>5. rxBase'[n] = rxBase[n] + 1 /\ \A m \in Node \ {n} : rxBase'[m] = rxBase[m]
    BY <1>1, <2>1
  <2> QED
    BY <1>3, <2>4, <2>5, OneNode DEF OrderedAt
<1>4. ASSUME AdvanceCommitted(n) PROVE OneAtATime'
  BY <1>3, <1>4 DEF AdvanceCommitted
<1>5. ASSUME QueueHeadError(n) PROVE OneAtATime'
  BY <1>3, <1>5 DEF QueueHeadError
<1>6. ASSUME ServiceHead(n) PROVE OneAtATime'
  <2>1. UNCHANGED <<rxBase, rxGen, peerSession>>
    BY <1>6 DEF ServiceHead
  <2>2. CASE DeliverOrdered(n, rx[n], rxBase[n])
    <3>1. /\ Ordered(rx'[n], rxBase[n], rxGen[n], peerSession[n])
          /\ \A m \in Node \ {n} : rx'[m] = rx[m]
      BY <1>1, <1>2, <2>2, DeliverOrderedSlots DEF OrderedAt
    <3> QED
      BY <2>1, <3>1, OneNode DEF OrderedAt
  <2>3. CASE \E s \in HeadSlot(n) :
               rx' = [rx EXCEPT ![n] = (@ \ {s}) \cup {[s EXCEPT !.state = "ERROR_PENDING"]}]
    <3>1. PICK s \in HeadSlot(n) :
               rx' = [rx EXCEPT ![n] = (@ \ {s}) \cup {[s EXCEPT !.state = "ERROR_PENDING"]}]
      BY <2>3
    <3> DEFINE new == [s EXCEPT !.state = "ERROR_PENDING"]
    <3>2. s \in rx[n] /\ s.seq = rxBase[n] + 1 /\ s \in RxSlot
      BY <1>1 DEF HeadSlot
    <3>3. new.seq = s.seq /\ new.gen = s.gen /\ new.session = s.session
      BY <3>2 DEF RxSlot
    <3>4. rx'[n] = (rx[n] \ {s}) \cup {new} /\ \A m \in Node \ {n} : rx'[m] = rx[m]
      BY <1>1, <3>1
    <3> HIDE DEF new
    <3>5. OrderedAt(n)'
      BY <1>2, <2>1, <3>2, <3>3, <3>4 DEF OrderedAt, Ordered
    <3> QED
      BY <2>1, <3>4, <3>5, OneNode
  <2> QED
    BY <1>6, <2>2, <2>3 DEF ServiceHead
<1> QED
  BY <1>4, <1>5, <1>6 DEF ServiceRx

\* A completion only changes a slot next to the base; a reboot empties them.
LEMMA ApplicationOrdered ==
    ASSUME TypeOK, OneAtATime, NEW n \in Node, Application(n)
    PROVE  OneAtATime'
<1>1. rx \in [Node -> SUBSET RxSlot]
  BY DEF TypeOK
<1>2. ASSUME Send(n) \/ Recover(n) PROVE OneAtATime'
  BY <1>2, UnchangedRx DEF Send, Recover
<1>3. ASSUME CompleteRx(n) PROVE OneAtATime'
  <2> DEFINE slots == Completes(n, Head(work[n]))
             moved(state) == {[s EXCEPT !.state = state] : s \in slots}
  <2>1. PICK state \in {"COMMITTED", "ERROR_PENDING"} :
          rx' = [rx EXCEPT ![n] = (@ \ slots) \cup moved(state)]
    BY <1>3, Zenon DEF CompleteRx
  <2>2. slots \subseteq rx[n] /\ \A s \in slots : s.state = "IN_PROGRESS" /\ s \in RxSlot
    BY <1>1 DEF Completes
  <2>3. \A t \in moved(state) : \E s \in slots :
          t.seq = s.seq /\ t.gen = s.gen /\ t.session = s.session
          /\ t = [s EXCEPT !.state = state]
    BY <2>2 DEF RxSlot
  <2>4. OrderedAt(n)
    BY DEF OneAtATime, OrderedAt, Ordered
  <2>5. UNCHANGED <<peerSession, rxBase, rxGen>>
    BY <1>3 DEF CompleteRx
  <2> HIDE DEF slots, moved
  <2>6. rx'[n] = (rx[n] \ slots) \cup moved(state) /\ \A m \in Node \ {n} : rx'[m] = rx[m]
    BY <1>1, <2>1
  <2>7. OrderedAt(n)'
    BY <2>2, <2>3, <2>4, <2>5, <2>6 DEF OrderedAt, Ordered
  <2> QED
    BY <2>5, <2>6, <2>7, OneNode
<1>4. ASSUME Restart(n) PROVE OneAtATime'
  <2>1. rx'[n] = {} /\ OrderedAt(n)'
    BY <1>1, <1>4 DEF Restart, OrderedAt, Ordered
  <2>2. \A m \in Node \ {n} : /\ rx'[m] = rx[m] /\ rxBase'[m] = rxBase[m]
                              /\ rxGen'[m] = rxGen[m] /\ peerSession'[m] = peerSession[m]
    BY <1>4 DEF TypeOK, Restart
  <2> QED
    BY <2>1, <2>2, OneNode
<1> QED
  BY <1>2, <1>3, <1>4 DEF Application

\* No slot is in use after datlink_transport_init.
LEMMA InitOrdered == Init => OneAtATime
  BY DEF Init, OneAtATime

\* Every step of either board keeps the slots ordered.
LEMMA StepOrdered == TypeOK /\ OneAtATime /\ [Next]_vars => OneAtATime'
<1> SUFFICES ASSUME TypeOK, OneAtATime, [Next]_vars PROVE OneAtATime'
  OBVIOUS
<1>1. CASE UNCHANGED vars
  BY <1>1, UnchangedRx DEF vars
<1>2. ASSUME NEW n \in Node, TxTask(n) \/ RecoveryTick(n) PROVE OneAtATime'
  BY <1>2, UnchangedRx DEF TxTask, SendControl, AllocateSlot, SendSlot, SendFrame, SendHello,
     LinkDown, RecoveryTick, ResyncRetry, ResyncExhausted, GapTimeout
<1>3. CASE Next
  BY <1>2, <1>3, FrameOrdered, ServiceOrdered, ApplicationOrdered DEF Next
<1> QED
  BY <1>1, <1>3

\* At most the frame next to the base is handed out, slots never share a
\* sequence, and none outlives its receive session.
THEOREM DeliveryInOrder == Spec => []OneAtATime
<1>1. TypeOK /\ OneAtATime /\ [Next]_vars => (TypeOK /\ OneAtATime)'
  BY StepType, StepOrdered
<1>2. Init => TypeOK /\ OneAtATime
  BY InitType, InitOrdered
<1> QED
  BY <1>1, <1>2, PTL DEF Spec
-----------------------------------------------------------------------------
(***************************************************************************)
(* The receive side implements OrderedExecution.                           *)
(***************************************************************************)
Taken(slots, base) == \E s \in slots : s.seq = base + 1 /\ s.state # "RECEIVED"
TurnAt(slots, base) == base + (IF Taken(slots, base) THEN 2 ELSE 1)

\* Turn, as a function of the slots and the base.
LEMMA TurnDef == Turn = [n \in Node |-> TurnAt(rx[n], rxBase[n])]
  BY DEF Turn, TurnAt, HeadTaken, HeadSlot, Taken

\* The same after a step.
LEMMA TurnDefPrime == Turn' = [n \in Node |-> TurnAt(rx'[n], rxBase'[n])]
  BY DEF Turn, TurnAt, HeadTaken, HeadSlot, Taken

\* A step of n moves no other turn.
LEMMA TurnUpdate ==
    ASSUME NEW n \in Node,
           \A m \in Node \ {n} : rx'[m] = rx[m] /\ rxBase'[m] = rxBase[m]
    PROVE  Turn' = [Turn EXCEPT ![n] = TurnAt(rx'[n], rxBase'[n])]
  BY TurnDef, TurnDefPrime

\* Handing out one more frame logs one more entry.
LEMMA EntriesAppend ==
    ASSUME NEW q \in Seq(Token), NEW t \in Token
    PROVE  Entries(Append(q, t)) = Append(Entries(q), [gen |-> t.gen, seq |-> t.seq])
<1> DEFINE e == [gen |-> t.gen, seq |-> t.seq]
           a == Append(q, t)
<1>1. /\ Len(q) \in Nat /\ DOMAIN q = 1 .. Len(q) /\ Len(a) = Len(q) + 1
      /\ DOMAIN a = 1 .. Len(q) + 1
      /\ \A i \in 1 .. Len(q) : a[i] = q[i]
      /\ a[Len(q) + 1] = t
  OBVIOUS
<1>2. Entries(q) \in Seq([gen : Nat, seq : Nat]) /\ Len(Entries(q)) = Len(q)
  <2>1. \A i \in 1 .. Len(q) : [gen |-> q[i].gen, seq |-> q[i].seq] \in [gen : Nat, seq : Nat]
    <3>1. \A i \in 1 .. Len(q) : q[i] \in Token
      OBVIOUS
    <3>2. \A s \in Token : s.gen \in Nat /\ s.seq \in Nat
      BY DEF Token
    <3> QED
      BY <3>1, <3>2
  <2> QED
    BY <1>1, <2>1 DEF Entries
<1>3. e \in [gen : Nat, seq : Nat]
  BY DEF Token
<1>4. /\ DOMAIN Append(Entries(q), e) = 1 .. Len(q) + 1
      /\ \A i \in 1 .. Len(q) : Append(Entries(q), e)[i] = Entries(q)[i]
      /\ Append(Entries(q), e)[Len(q) + 1] = e
  BY <1>2, <1>3
<1>5. Entries(a) = [i \in 1 .. Len(q) + 1 |-> [gen |-> a[i].gen, seq |-> a[i].seq]]
  BY <1>1 DEF Entries
<1>6. \A i \in 1 .. Len(q) + 1 : Entries(a)[i] = Append(Entries(q), e)[i]
  BY <1>1, <1>4, <1>5 DEF Entries
<1>7. /\ Append(Entries(q), e) = [i \in 1 .. Len(q) + 1 |-> Append(Entries(q), e)[i]]
  BY <1>2, <1>3, <1>4
<1> QED
  BY <1>5, <1>6, <1>7

\* Where the receive side and the log stay, the execution does.
LEMMA Quiet ==
    ASSUME UNCHANGED recvVars, UNCHANGED runs
    PROVE  UNCHANGED Execution!vars
<1>1. Turn' = Turn
  BY TurnDef, TurnDefPrime DEF recvVars
<1> QED
  BY <1>1 DEF Execution!vars, RunLog, recvVars

\* A new receive session is a new session of the execution.
LEMMA ResetStarts ==
    ASSUME TypeOK, NEW n \in Node, NEW peer, ResetRx(n, peer), UNCHANGED runs
    PROVE  Execution!Next
<1>1. \A m \in Node \ {n} : rx'[m] = rx[m] /\ rxBase'[m] = rxBase[m]
  BY DEF TypeOK, ResetRx
<1>2. TurnAt(rx'[n], rxBase'[n]) = 1
  BY DEF TypeOK, ResetRx, TurnAt, Taken
<1>3. Turn' = [Turn EXCEPT ![n] = 1]
  BY <1>1, <1>2, TurnDef, TurnDefPrime
<1>4. Execution!NewSession(n)
  BY <1>3 DEF Execution!NewSession, ResetRx, RunLog
<1> QED
  BY <1>4 DEF Execution!Next

\* deliver_ordered runs the frame whose turn it is, refuses it, or waits.
LEMMA DeliverRuns ==
    ASSUME TypeOK, NEW n \in Node, NEW slots \in SUBSET RxSlot, NEW base \in Nat,
           Ordered(slots, base, rxGen[n], peerSession[n]),
           DeliverOrdered(n, slots, base),
           Turn[n] = TurnAt(slots, base),
           rxBase' = [rxBase EXCEPT ![n] = base], UNCHANGED rxGen
    PROVE  Execution!Next \/ UNCHANGED Execution!vars
<1>1. /\ rx \in [Node -> SUBSET RxSlot] /\ rxBase \in [Node -> Nat]
      /\ runs \in [Node -> Seq(Token)]
  BY DEF TypeOK
<1>2. rxBase'[n] = base /\ \A m \in Node \ {n} : rxBase'[m] = rxBase[m]
  BY <1>1
<1>3. ASSUME rx' = [rx EXCEPT ![n] = slots], UNCHANGED runs
      PROVE  UNCHANGED Execution!vars
  <2>1. rx'[n] = slots /\ \A m \in Node \ {n} : rx'[m] = rx[m]
    BY <1>1, <1>3
  <2>2. Turn' = Turn
    BY <1>2, <2>1, TurnDef, TurnDefPrime
  <2> QED
    BY <1>3, <2>2 DEF Execution!vars, RunLog
<1>4. ASSUME NEW s \in slots, s.seq = base + 1, s.state = "RECEIVED"
      PROVE  /\ (slots \ {s}) \cup {[s EXCEPT !.state = "RECEIVED"]} = slots
             /\ Turn[n] = base + 1
             /\ s.gen = rxGen[n]
  <2>1. s \in RxSlot
    OBVIOUS
  <2>2. [s EXCEPT !.state = "RECEIVED"] = s
    BY <1>4, <2>1 DEF RxSlot
  <2>3. ~Taken(slots, base)
    BY <1>4 DEF Taken, Ordered
  <2> QED
    BY <2>2, <2>3 DEF TurnAt, Ordered
<1>5. ASSUME NEW s \in slots, s.seq = base + 1, s.state = "RECEIVED",
             NEW state \in {"IN_PROGRESS", "ERROR_PENDING"},
             rx' = [rx EXCEPT ![n] = (slots \ {s}) \cup {[s EXCEPT !.state = state]}]
      PROVE  Turn' = [Turn EXCEPT ![n] = @ + 1]
  <2> DEFINE new == [s EXCEPT !.state = state]
  <2>1. new.seq = base + 1 /\ new.state # "RECEIVED"
    BY <1>5 DEF RxSlot
  <2>2. rx'[n] = (slots \ {s}) \cup {new} /\ \A m \in Node \ {n} : rx'[m] = rx[m]
    BY <1>1, <1>5
  <2> HIDE DEF new
  <2>3. TurnAt(rx'[n], rxBase'[n]) = base + 2
    BY <1>2, <2>1, <2>2 DEF TurnAt, Taken
  <2>4. Turn[n] + 1 = base + 2
    BY <1>4, <1>5
  <2>5. Turn' = [Turn EXCEPT ![n] = base + 2]
    BY <1>2, <2>2, <2>3, TurnUpdate
  <2> QED
    BY <2>4, <2>5
<1>6. ASSUME NEW s \in slots, s.seq = base + 1, s.state = "RECEIVED",
             rx' = [rx EXCEPT ![n] = (slots \ {s}) \cup {[s EXCEPT !.state = "ERROR_PENDING"]}],
             UNCHANGED runs
      PROVE  Execution!Refuse(n)
  BY <1>5, <1>6 DEF Execution!Refuse, RunLog
<1>7. ASSUME NEW s \in slots, s.seq = base + 1, s.state = "RECEIVED",
             rx' = [rx EXCEPT ![n] = (slots \ {s}) \cup {[s EXCEPT !.state = "IN_PROGRESS"]}],
             runs' = [runs EXCEPT ![n] = Append(@, TokenOf(s))]
      PROVE  Execution!Run(n)
  <2>1. TokenOf(s) \in Token /\ TokenOf(s).gen = s.gen /\ TokenOf(s).seq = s.seq
    BY DEF TokenOf, Token, RxSlot
  <2>2. TokenOf(s).gen = rxGen[n] /\ TokenOf(s).seq = Turn[n]
    BY <1>4, <1>7, <2>1
  <2>3. Entries(runs'[n]) = Append(Entries(runs[n]), [gen |-> rxGen[n], seq |-> Turn[n]])
    BY <1>1, <1>7, <2>1, <2>2, EntriesAppend
  <2>4. \A m \in Node \ {n} : runs'[m] = runs[m]
    BY <1>1, <1>7
  <2>5. RunLog' = [RunLog EXCEPT ![n] = Append(@, [gen |-> rxGen[n], seq |-> Turn[n]])]
    BY <2>3, <2>4 DEF RunLog
  <2> QED
    BY <1>5, <1>7, <2>5 DEF Execution!Run
<1> QED
  BY <1>3, <1>4, <1>6, <1>7 DEF DeliverOrdered, Ready, Execution!Next

\* A frame stores, resets or leaves the receive side: a session step or none.
LEMMA FrameExecution ==
    ASSUME TypeOK, NEW n \in Node, HandleFrame(n)
    PROVE  Execution!Next \/ UNCHANGED Execution!vars
<1> DEFINE f == Head(rawq[n])
<1>1. ASSUME RejectFrame(n) \/ ReceiveAck(n) PROVE UNCHANGED Execution!vars
  BY <1>1, Quiet DEF RejectFrame, ReceiveAck, history
<1>2. ASSUME AdoptSession(n, f), UNCHANGED runs
      PROVE  Execution!Next \/ UNCHANGED Execution!vars
  BY <1>2, Quiet, ResetStarts DEF AdoptSession
<1>3. ASSUME ReceiveRequest(n) PROVE Execution!Next \/ UNCHANGED Execution!vars
  BY <1>3, Quiet, ResetStarts DEF ReceiveRequest
<1>4. ASSUME ReceiveData(n) PROVE UNCHANGED Execution!vars
  <2>1. /\ StoreData(n, f) \/ RefuseData(n, f)
        /\ UNCHANGED <<peerSession, rxBase, rxGen, runs>>
    BY <1>4 DEF ReceiveData
  <2>2. rx' = rx \/ \E new : /\ rx' = [rx EXCEPT ![n] = @ \cup {new}]
                             /\ new.state = "RECEIVED"
    <3>1. rx' = rx \/ rx' = [rx EXCEPT ![n] = @ \cup {NewRxSlot(n, f)}]
      BY <2>1 DEF StoreData, RefuseData
    <3>2. NewRxSlot(n, f).state = "RECEIVED"
      BY DEF NewRxSlot
    <3> QED
      BY <3>1, <3>2
  <2>3. CASE rx' = rx
    BY <2>1, <2>3, Quiet DEF recvVars
  <2>4. ASSUME NEW new, rx' = [rx EXCEPT ![n] = @ \cup {new}], new.state = "RECEIVED"
        PROVE  UNCHANGED Execution!vars
    <3>1. rx'[n] = rx[n] \cup {new} /\ \A m \in Node \ {n} : rx'[m] = rx[m]
      BY <2>4 DEF TypeOK
    <3>2. Taken(rx'[n], rxBase[n]) <=> Taken(rx[n], rxBase[n])
      BY <2>4, <3>1 DEF Taken
    <3>3. Turn' = Turn
      BY <2>1, <3>1, <3>2, TurnDef, TurnDefPrime DEF TurnAt
    <3> QED
      BY <2>1, <3>3 DEF Execution!vars, RunLog
  <2> QED
    BY <2>2, <2>3, <2>4
<1> QED
  BY <1>1, <1>2, <1>3, <1>4 DEF HandleFrame, ReceiveHello, ReceiveReply

\* A pass of service_rx runs the next frame, refuses it or does neither.
LEMMA ServiceExecution ==
    ASSUME TypeOK, OneAtATime, NEW n \in Node, ServiceRx(n)
    PROVE  Execution!Next \/ UNCHANGED Execution!vars
<1>1. /\ rx \in [Node -> SUBSET RxSlot] /\ rxBase \in [Node -> Nat] /\ RxWindow \in Nat
  BY SizeAssumption DEF TypeOK
<1>2. OrderedAt(n) /\ (\A s \in rx[n] : s.seq \in Nat) /\ Turn[n] = TurnAt(rx[n], rxBase[n])
  BY <1>1, TurnDef DEF OneAtATime, OrderedAt, Ordered, RxSlot
<1>3. ASSUME NEW head \in HeadSlot(n), head.state # "RECEIVED", RetireHead(n, head),
             UNCHANGED rxGen
      PROVE  Execution!Next \/ UNCHANGED Execution!vars
  <2> DEFINE slots == rx[n] \ {head}
             base == rxBase[n] + 1
  <2>1. rxBase' = [rxBase EXCEPT ![n] = base] /\ DeliverOrdered(n, slots, base)
    BY <1>3 DEF RetireHead
  <2>2. slots \in SUBSET RxSlot /\ base \in Nat
    BY <1>1
  <2>3. head \in rx[n] /\ head.seq = base /\ \A s \in slots : s.seq # base
    BY <1>2 DEF HeadSlot, OrderedAt, Ordered
  <2>4. Ordered(slots, base, rxGen[n], peerSession[n])
    BY <1>1, <1>2, <2>3 DEF OrderedAt, Ordered
  <2>5. \A s \in slots : s.state = "RECEIVED"
    BY <1>2, <2>3 DEF OrderedAt, Ordered
  <2>6. Turn[n] = rxBase[n] + 2
    BY <1>2, <1>3, <2>3 DEF TurnAt, Taken
  <2>7. TurnAt(slots, base) = base + 1
    BY <2>5 DEF TurnAt, Taken
  <2>8. Turn[n] = TurnAt(slots, base)
    BY <1>1, <2>6, <2>7
  <2> HIDE DEF slots, base
  <2> QED
    BY <1>3, <2>1, <2>2, <2>4, <2>8, DeliverRuns
<1>4. ASSUME AdvanceCommitted(n) PROVE Execution!Next \/ UNCHANGED Execution!vars
  BY <1>3, <1>4 DEF AdvanceCommitted
<1>5. ASSUME QueueHeadError(n) PROVE Execution!Next \/ UNCHANGED Execution!vars
  BY <1>3, <1>5 DEF QueueHeadError
<1>6. ASSUME ServiceHead(n) PROVE Execution!Next \/ UNCHANGED Execution!vars
  <2>1. UNCHANGED <<rxBase, rxGen, peerSession>>
    BY <1>6 DEF ServiceHead
  <2>2. CASE DeliverOrdered(n, rx[n], rxBase[n])
    <3>1. rxBase' = [rxBase EXCEPT ![n] = rxBase[n]] /\ rxBase[n] \in Nat
      BY <1>1, <2>1
    <3> QED
      BY <1>1, <1>2, <2>1, <2>2, <3>1, DeliverRuns DEF OrderedAt
  <2>3. CASE /\ \E s \in HeadSlot(n) :
                  /\ s.state = "IN_PROGRESS"
                  /\ rx' = [rx EXCEPT ![n] = (@ \ {s})
                                             \cup {[s EXCEPT !.state = "ERROR_PENDING"]}]
             /\ UNCHANGED runs
    <3>1. PICK s \in HeadSlot(n) :
                  /\ s.state = "IN_PROGRESS"
                  /\ rx' = [rx EXCEPT ![n] = (@ \ {s})
                                             \cup {[s EXCEPT !.state = "ERROR_PENDING"]}]
      BY <2>3
    <3> DEFINE new == [s EXCEPT !.state = "ERROR_PENDING"]
    <3>2. s \in rx[n] /\ s.seq = rxBase[n] + 1 /\ s \in RxSlot
      BY <1>1 DEF HeadSlot
    <3>3. new.seq = s.seq /\ new.state = "ERROR_PENDING"
      BY <3>2 DEF RxSlot
    <3>4. rx'[n] = (rx[n] \ {s}) \cup {new} /\ \A m \in Node \ {n} : rx'[m] = rx[m]
      BY <1>1, <3>1
    <3> HIDE DEF new
    <3>5. Taken(rx'[n], rxBase[n]) /\ Taken(rx[n], rxBase[n])
      BY <3>1, <3>2, <3>3, <3>4 DEF Taken
    <3>6. Turn' = Turn
      BY <2>1, <3>4, <3>5, TurnDef, TurnDefPrime DEF TurnAt
    <3> QED
      BY <2>1, <2>3, <3>6 DEF Execution!vars, RunLog
  <2> QED
    BY <1>6, <2>2, <2>3 DEF ServiceHead
<1> QED
  BY <1>4, <1>5, <1>6 DEF ServiceRx

\* A completion is no step of the execution; a reboot is its reboot.
LEMMA ApplicationExecution ==
    ASSUME TypeOK, NEW n \in Node, Application(n)
    PROVE  Execution!Next \/ UNCHANGED Execution!vars
<1>1. rx \in [Node -> SUBSET RxSlot]
  BY DEF TypeOK
<1>2. ASSUME Send(n) \/ Recover(n) PROVE UNCHANGED Execution!vars
  BY <1>2, Quiet DEF Send, Recover, history
<1>3. ASSUME CompleteRx(n) PROVE UNCHANGED Execution!vars
  <2> DEFINE slots == Completes(n, Head(work[n]))
             moved(state) == {[s EXCEPT !.state = state] : s \in slots}
  <2>1. PICK state \in {"COMMITTED", "ERROR_PENDING"} :
          rx' = [rx EXCEPT ![n] = (@ \ slots) \cup moved(state)]
    BY <1>3, Zenon DEF CompleteRx
  <2>2. slots \subseteq rx[n] /\ \A s \in slots : s.state = "IN_PROGRESS" /\ s \in RxSlot
    BY <1>1 DEF Completes
  <2>3. \A t \in moved(state) : t.state # "RECEIVED" /\ \E s \in slots : t.seq = s.seq
    BY <2>1, <2>2 DEF RxSlot
  <2>4. \A s \in slots : \E t \in moved(state) : t.state # "RECEIVED" /\ t.seq = s.seq
    <3> TAKE s \in slots
    <3>1. [s EXCEPT !.state = state] \in moved(state)
      OBVIOUS
    <3>2. /\ [s EXCEPT !.state = state].state = state
          /\ [s EXCEPT !.state = state].seq = s.seq
      BY <2>2 DEF RxSlot
    <3> WITNESS [s EXCEPT !.state = state] \in moved(state)
    <3> QED
      BY <2>1, <3>2
  <2>5. UNCHANGED <<peerSession, rxBase, rxGen, runs>>
    BY <1>3 DEF CompleteRx
  <2> HIDE DEF slots, moved
  <2>6. rx'[n] = (rx[n] \ slots) \cup moved(state) /\ \A m \in Node \ {n} : rx'[m] = rx[m]
    BY <1>1, <2>1
  <2>7. Taken(rx'[n], rxBase[n]) <=> Taken(rx[n], rxBase[n])
    BY <2>2, <2>3, <2>4, <2>6 DEF Taken
  <2>8. Turn' = Turn
    BY <2>5, <2>6, <2>7, TurnDef, TurnDefPrime DEF TurnAt
  <2> QED
    BY <2>5, <2>8 DEF Execution!vars, RunLog
<1>4. ASSUME Restart(n) PROVE Execution!Next
  <2>1. /\ rx'[n] = {} /\ rxBase'[n] = 0
        /\ \A m \in Node \ {n} : rx'[m] = rx[m] /\ rxBase'[m] = rxBase[m]
    BY <1>4 DEF TypeOK, Restart
  <2>2. Turn' = [Turn EXCEPT ![n] = 1]
    BY <2>1, TurnDef, TurnDefPrime DEF TurnAt, Taken
  <2>3. runs'[n] = <<>> /\ \A m \in Node \ {n} : runs'[m] = runs[m]
    BY <1>4 DEF TypeOK, Restart
  <2>4. Entries(<<>>) = <<>>
    BY DEF Entries
  <2>5. RunLog' = [RunLog EXCEPT ![n] = <<>>]
    BY <2>3, <2>4 DEF RunLog
  <2>6. Execution!Reboot(n)
    BY <1>4, <2>2, <2>5 DEF Execution!Reboot, Restart
  <2> QED
    BY <2>6 DEF Execution!Next
<1> QED
  BY <1>2, <1>3, <1>4 DEF Application

\* The transport starts where the execution starts.
LEMMA InitExecution == Init => Execution!Init
<1> SUFFICES ASSUME Init PROVE Execution!Init
  OBVIOUS
<1>1. Turn = [n \in Node |-> 1]
  BY TurnDef DEF Init, TurnAt, Taken
<1>2. RunLog = [n \in Node |-> <<>>]
  BY DEF Init, RunLog, Entries
<1> QED
  BY <1>1, <1>2 DEF Init, Execution!Init

\* Every step of the transport is a step of the execution or none.
LEMMA StepExecution ==
    TypeOK /\ OneAtATime /\ [Next]_vars => [Execution!Next]_(Execution!vars)
<1> SUFFICES ASSUME TypeOK, OneAtATime, [Next]_vars
             PROVE  Execution!Next \/ UNCHANGED Execution!vars
  OBVIOUS
<1>1. CASE UNCHANGED vars
  BY <1>1, Quiet DEF vars, history
<1>2. ASSUME NEW n \in Node, TxTask(n) \/ RecoveryTick(n) PROVE UNCHANGED Execution!vars
  BY <1>2, Quiet DEF TxTask, SendControl, AllocateSlot, SendSlot, SendFrame, SendHello,
     LinkDown, RecoveryTick, ResyncRetry, ResyncExhausted, GapTimeout, history
<1>3. CASE Next
  BY <1>2, <1>3, FrameExecution, ServiceExecution, ApplicationExecution DEF Next
<1> QED
  BY <1>1, <1>3

\* In every receive session the application runs, or is spared, each sequence
\* number in turn: the receive side implements OrderedExecution.
THEOREM ImplementsOrderedExecution == Spec => ExecutionIsOrdered
<1>1. TypeOK /\ OneAtATime /\ [Next]_vars => [Execution!Next]_(Execution!vars)
  BY StepExecution
<1>2. Spec => []TypeOK
  BY TypeCorrect
<1>3. Spec => []OneAtATime
  BY DeliveryInOrder
<1> QED
  BY <1>1, <1>2, <1>3, InitExecution, PTL DEF Spec, ExecutionIsOrdered, Execution!Spec

(***************************************************************************)
(* What the abstract receiver guarantees holds of the transport.           *)
(***************************************************************************)
Receiver == INSTANCE OrderedExecutionProofs WITH gen <- rxGen, next <- Turn, log <- RunLog

\* The order of the log is the order of the frames handed out.
LEMMA LogIsRuns == Receiver!LogOrdered => InOrder
<1> SUFFICES ASSUME Receiver!LogOrdered, NEW n \in Node,
                    NEW i \in DOMAIN runs[n], NEW j \in DOMAIN runs[n], i < j
             PROVE  \/ runs[n][i].gen < runs[n][j].gen
                    \/ runs[n][i].gen = runs[n][j].gen /\ runs[n][i].seq < runs[n][j].seq
  BY DEF InOrder
<1>1. DOMAIN RunLog[n] = DOMAIN runs[n]
  BY DEF RunLog, Entries
<1>2. \A k \in DOMAIN runs[n] :
        RunLog[n][k].gen = runs[n][k].gen /\ RunLog[n][k].seq = runs[n][k].seq
  BY DEF RunLog, Entries
<1> QED
  BY <1>1, <1>2 DEF Receiver!LogOrdered

\* Within a receive session frames reach the application in sequence order and
\* none twice.
THEOREM RunsInOrder == Spec => []InOrder
<1>1. Execution!Init => Receiver!Init
  BY DEF Execution!Init, Receiver!Init
<1>2. [Execution!Next]_(Execution!vars) => [Receiver!Next]_(Receiver!vars)
  BY DEF Execution!Next, Execution!Run, Execution!Refuse, Execution!NewSession,
         Execution!Reboot, Execution!vars, Receiver!Next, Receiver!Run, Receiver!Refuse,
         Receiver!NewSession, Receiver!Reboot, Receiver!vars
<1>3. ExecutionIsOrdered => Receiver!Spec
  BY <1>1, <1>2, PTL DEF ExecutionIsOrdered, Execution!Spec, Receiver!Spec
<1>4. Receiver!Spec => []Receiver!LogOrdered
  BY Receiver!LogIsOrdered
<1> QED
  BY <1>3, <1>4, ImplementsOrderedExecution, LogIsRuns, PTL

-----------------------------------------------------------------------------
(***************************************************************************)
(* The application and the receive slots.  A token in the hands of the     *)
(* application is behind the turn, so the frame handed out next is none of *)
(* them, and a slot in progress is one of them.                            *)
(***************************************************************************)
BehindTurn(q, turn, gen) ==
    \A i \in DOMAIN q : \/ q[i].gen < gen
                        \/ q[i].gen = gen /\ q[i].seq < turn
HeldBy(q, slots) ==
    \A s \in slots : s.state = "IN_PROGRESS" =>
        \E i \in DOMAIN q : /\ q[i] = TokenOf(s)
                            /\ \A j \in DOMAIN q : q[j] = TokenOf(s) => j = i
WorkAt(n) == BehindTurn(work[n], Turn[n], rxGen[n]) /\ HeldBy(work[n], rx[n])
WorkInv == \A n \in Node : WorkAt(n)

\* The turn of one node.
LEMMA TurnOf ==
    ASSUME NEW n \in Node
    PROVE  Turn[n] = TurnAt(rx[n], rxBase[n]) /\ Turn'[n] = TurnAt(rx'[n], rxBase'[n])
  BY TurnDef, TurnDefPrime

\* A step of n that leaves the other nodes' slots and work only needs a look at n.
LEMMA OneWorker ==
    ASSUME WorkInv, NEW n \in Node, WorkAt(n)',
           \A m \in Node \ {n} : /\ rx'[m] = rx[m] /\ rxBase'[m] = rxBase[m]
                                 /\ rxGen'[m] = rxGen[m] /\ work'[m] = work[m]
    PROVE  WorkInv'
<1>1. ASSUME NEW m \in Node, m # n PROVE WorkAt(m)'
  <2>1. Turn'[m] = Turn[m] /\ rx'[m] = rx[m] /\ rxGen'[m] = rxGen[m] /\ work'[m] = work[m]
    BY <1>1, TurnOf
  <2>2. WorkAt(m)
    BY <1>1 DEF WorkInv
  <2> QED
    BY <2>1, <2>2 DEF WorkAt
<1> QED
  BY <1>1 DEF WorkInv

\* A step that touches neither the receive side nor the work.
LEMMA QuietWork == WorkInv /\ UNCHANGED <<rx, rxBase, rxGen, work>> => WorkInv'
<1> SUFFICES ASSUME WorkInv, UNCHANGED <<rx, rxBase, rxGen, work>>, NEW n \in Node
             PROVE  WorkAt(n)'
  BY DEF WorkInv
<1>1. Turn'[n] = Turn[n] /\ WorkAt(n)
  BY TurnOf DEF WorkInv
<1> QED
  BY <1>1 DEF WorkAt

\* After a reset no slot is in progress and every token is of an earlier generation.
LEMMA ResetWork ==
    ASSUME TypeOK, WorkInv, NEW n \in Node, NEW peer, ResetRx(n, peer), UNCHANGED work
    PROVE  WorkInv'
<1>1. /\ rx'[n] = {} /\ rxGen'[n] = rxGen[n] + 1 /\ rxGen[n] \in Nat
      /\ \A m \in Node \ {n} : /\ rx'[m] = rx[m] /\ rxBase'[m] = rxBase[m]
                               /\ rxGen'[m] = rxGen[m]
  BY DEF TypeOK, ResetRx
<1>2. HeldBy(work'[n], rx'[n])
  BY <1>1 DEF HeldBy
<1>3. \A i \in DOMAIN work[n] : work[n][i] \in Token
  BY DEF TypeOK
<1>4. BehindTurn(work[n], Turn[n], rxGen[n])
  BY DEF WorkInv, WorkAt
<1>5. BehindTurn(work'[n], Turn'[n], rxGen'[n])
  BY <1>1, <1>3, <1>4 DEF BehindTurn, Token
<1> QED
  BY <1>1, <1>2, <1>5, OneWorker DEF WorkAt

\* A frame that is stored takes no turn and is in nobody's hands.
LEMMA StoreWork ==
    ASSUME TypeOK, WorkInv, NEW n \in Node, NEW f, StoreData(n, f),
           UNCHANGED <<rxBase, rxGen, work>>
    PROVE  WorkInv'
<1>1. CASE UNCHANGED rx
  BY <1>1, QuietWork
<1>2. CASE rx' # rx
  <2> DEFINE new == NewRxSlot(n, f)
  <2>1. rx' = [rx EXCEPT ![n] = @ \cup {new}] /\ new.state = "RECEIVED"
    BY <1>2 DEF StoreData, NewRxSlot
  <2> HIDE DEF new
  <2>2. rx'[n] = rx[n] \cup {new} /\ \A m \in Node \ {n} : rx'[m] = rx[m]
    BY <2>1 DEF TypeOK
  <2>3. Turn'[n] = Turn[n]
    <3>1. Taken(rx'[n], rxBase[n]) <=> Taken(rx[n], rxBase[n])
      BY <2>1, <2>2 DEF Taken
    <3> QED
      BY <3>1, TurnOf DEF TurnAt
  <2>4. WorkAt(n)'
    BY <2>1, <2>2, <2>3 DEF WorkInv, WorkAt, HeldBy
  <2> QED
    BY <2>2, <2>4, OneWorker
<1> QED
  BY <1>1, <1>2

\* Delivery appends the token whose turn it is, which nobody holds.
LEMMA DeliverWork ==
    ASSUME TypeOK, WorkInv, NEW n \in Node, NEW slots \in SUBSET RxSlot, NEW base \in Nat,
           Ordered(slots, base, rxGen[n], peerSession[n]),
           DeliverOrdered(n, slots, base),
           BehindTurn(work[n], TurnAt(slots, base), rxGen[n]),
           HeldBy(work[n], slots),
           rxBase'[n] = base, \A m \in Node \ {n} : rxBase'[m] = rxBase[m],
           UNCHANGED rxGen
    PROVE  WorkInv'
<1>1. /\ rx \in [Node -> SUBSET RxSlot] /\ work \in [Node -> Seq(Token)]
      /\ work[n] \in Seq(Token)
  BY DEF TypeOK
<1>2. CASE rx' = [rx EXCEPT ![n] = slots] /\ UNCHANGED work
  <2>1. rx'[n] = slots /\ \A m \in Node \ {n} : rx'[m] = rx[m]
    BY <1>1, <1>2
  <2>2. WorkAt(n)'
    BY <1>2, <2>1, TurnOf DEF WorkAt
  <2> QED
    BY <1>2, <2>1, <2>2, OneWorker
<1>3. ASSUME NEW s \in slots, s.seq = base + 1, s.state = "RECEIVED"
      PROVE  /\ s \in RxSlot /\ TurnAt(slots, base) = base + 1
             /\ \A t \in slots \ {s} : t.state = "RECEIVED"
  BY <1>3 DEF Ordered, TurnAt, Taken
<1>4. ASSUME NEW s \in slots, s.seq = base + 1, s.state = "RECEIVED",
             NEW state \in {"IN_PROGRESS", "ERROR_PENDING"},
             rx' = [rx EXCEPT ![n] = (slots \ {s}) \cup {[s EXCEPT !.state = state]}]
      PROVE  /\ Turn'[n] = base + 2
             /\ \A m \in Node \ {n} : rx'[m] = rx[m]
             /\ \A t \in rx'[n] : t.state # "RECEIVED" =>
                    t.state = state /\ TokenOf(t) = TokenOf(s)
  <2> DEFINE new == [s EXCEPT !.state = state]
  <2>1. /\ new.seq = base + 1 /\ new.state = state /\ state # "RECEIVED"
        /\ TokenOf(new) = TokenOf(s)
    BY <1>3, <1>4 DEF RxSlot, TokenOf
  <2>2. rx'[n] = (slots \ {s}) \cup {new} /\ \A m \in Node \ {n} : rx'[m] = rx[m]
    BY <1>1, <1>4
  <2> HIDE DEF new
  <2>3. TurnAt(rx'[n], base) = base + 2
    BY <2>1, <2>2 DEF TurnAt, Taken
  <2> QED
    BY <1>3, <1>4, <2>1, <2>2, <2>3, TurnOf
<1>5. \A i \in DOMAIN work[n] : work[n][i] \in Token
  BY <1>1
<1>6. ASSUME BehindTurn(work[n], base + 1, rxGen[n])
      PROVE  BehindTurn(work[n], base + 2, rxGen[n])
  BY <1>5, <1>6 DEF BehindTurn, Token
<1>7. ASSUME NEW s \in slots, s.seq = base + 1, s.state = "RECEIVED", UNCHANGED work,
             rx' = [rx EXCEPT ![n] = (slots \ {s}) \cup {[s EXCEPT !.state = "ERROR_PENDING"]}]
      PROVE  WorkInv'
  <2>1. /\ Turn'[n] = base + 2 /\ \A m \in Node \ {n} : rx'[m] = rx[m]
        /\ \A t \in rx'[n] : t.state # "RECEIVED" => t.state = "ERROR_PENDING"
    BY <1>4, <1>7
  <2>2. WorkAt(n)'
    BY <1>3, <1>6, <1>7, <2>1 DEF WorkAt, HeldBy
  <2> QED
    BY <1>7, <2>1, <2>2, OneWorker
<1>8. ASSUME NEW s \in slots, s.seq = base + 1, s.state = "RECEIVED",
             work' = [work EXCEPT ![n] = Append(@, TokenOf(s))],
             rx' = [rx EXCEPT ![n] = (slots \ {s}) \cup {[s EXCEPT !.state = "IN_PROGRESS"]}]
      PROVE  WorkInv'
  <2> DEFINE t == TokenOf(s)
             q == work[n]
  <2>1. /\ Turn'[n] = base + 2 /\ \A m \in Node \ {n} : rx'[m] = rx[m]
        /\ \A u \in rx'[n] : u.state # "RECEIVED" => TokenOf(u) = t
    BY <1>4, <1>8
  <2>2. t \in Token /\ t.gen = rxGen[n] /\ t.seq = base + 1 /\ rxGen[n] \in Nat
    BY <1>3, <1>8 DEF TokenOf, Token, RxSlot, Ordered, TypeOK
  <2>3. work'[n] = Append(q, t) /\ \A m \in Node \ {n} : work'[m] = work[m]
    BY <1>1, <1>8
  <2>4. q \in Seq(Token) /\ BehindTurn(q, base + 1, rxGen[n])
    BY <1>1, <1>3, <1>8
  <2>5. \A i \in DOMAIN q : q[i].seq \in Nat /\ q[i].gen \in Nat
    BY <1>5 DEF Token
  <2> HIDE DEF t, q
  <2>6. \A i \in DOMAIN q : q[i] # t
    BY <2>2, <2>4, <2>5 DEF BehindTurn
  <2>7. /\ Len(q) \in Nat /\ DOMAIN q = 1 .. Len(q)
        /\ DOMAIN Append(q, t) = 1 .. Len(q) + 1
        /\ \A i \in 1 .. Len(q) : Append(q, t)[i] = q[i]
        /\ Append(q, t)[Len(q) + 1] = t
    BY <2>2, <2>4
  <2>8. BehindTurn(work'[n], base + 2, rxGen[n])
    <3>1. BehindTurn(q, base + 2, rxGen[n])
      BY <1>6, <2>4 DEF q
    <3> QED
      BY <2>2, <2>3, <2>7, <3>1 DEF BehindTurn
  <2>9. HeldBy(work'[n], rx'[n])
    BY <2>1, <2>3, <2>7, <2>6 DEF HeldBy
  <2> QED
    BY <2>1, <2>3, <2>8, <2>9, OneWorker DEF WorkAt
<1>9. ASSUME NEW s \in slots, s.state = "RECEIVED",
             rx' = [rx EXCEPT ![n] = (slots \ {s}) \cup {[s EXCEPT !.state = "RECEIVED"]}]
      PROVE  rx' = [rx EXCEPT ![n] = slots]
  <2>1. [s EXCEPT !.state = "RECEIVED"] = s
    BY <1>9 DEF RxSlot
  <2> QED
    BY <1>9, <2>1
<1> QED
  BY <1>2, <1>7, <1>8, <1>9 DEF DeliverOrdered, Ready

\* A pass of service_rx retires the head before it hands out the next frame.
LEMMA ServiceWork ==
    ASSUME TypeOK, OneAtATime, WorkInv, NEW n \in Node, ServiceRx(n)
    PROVE  WorkInv'
<1>1. /\ rx \in [Node -> SUBSET RxSlot] /\ rxBase \in [Node -> Nat] /\ RxWindow \in Nat
  BY SizeAssumption DEF TypeOK
<1>2. OrderedAt(n) /\ (\A s \in rx[n] : s.seq \in Nat) /\ WorkAt(n)
      /\ Turn[n] = TurnAt(rx[n], rxBase[n])
  BY <1>1, TurnOf DEF OneAtATime, OrderedAt, Ordered, RxSlot, WorkInv
<1>3. ASSUME NEW head \in HeadSlot(n), head.state # "RECEIVED", RetireHead(n, head),
             UNCHANGED rxGen
      PROVE  WorkInv'
  <2> DEFINE slots == rx[n] \ {head}
             base == rxBase[n] + 1
  <2>1. rxBase' = [rxBase EXCEPT ![n] = base] /\ DeliverOrdered(n, slots, base)
    BY <1>3 DEF RetireHead
  <2>2. slots \in SUBSET RxSlot /\ base \in Nat
    BY <1>1
  <2>3. head \in rx[n] /\ head.seq = base /\ \A s \in slots : s.seq # base
    BY <1>2 DEF HeadSlot, OrderedAt, Ordered
  <2>4. Ordered(slots, base, rxGen[n], peerSession[n])
    BY <1>1, <1>2, <2>3 DEF OrderedAt, Ordered
  <2>5. \A s \in slots : s.state = "RECEIVED"
    BY <1>2, <2>3 DEF OrderedAt, Ordered
  <2>6. Turn[n] = rxBase[n] + 2 /\ TurnAt(slots, base) = base + 1
    BY <1>2, <1>3, <2>3, <2>5 DEF TurnAt, Taken
  <2>7. BehindTurn(work[n], TurnAt(slots, base), rxGen[n])
    <3>1. Turn[n] = TurnAt(slots, base)
      BY <1>1, <2>6
    <3> QED
      BY <1>2, <3>1 DEF WorkAt
  <2>8. HeldBy(work[n], slots)
    BY <2>5 DEF HeldBy
  <2>9. rxBase'[n] = base /\ \A m \in Node \ {n} : rxBase'[m] = rxBase[m]
    BY <1>1, <2>1
  <2> HIDE DEF slots, base
  <2> QED
    BY <1>3, <2>1, <2>2, <2>4, <2>7, <2>8, <2>9, DeliverWork
<1>4. ASSUME AdvanceCommitted(n) PROVE WorkInv'
  BY <1>3, <1>4 DEF AdvanceCommitted
<1>5. ASSUME QueueHeadError(n) PROVE WorkInv'
  BY <1>3, <1>5 DEF QueueHeadError
<1>6. ASSUME ServiceHead(n) PROVE WorkInv'
  <2>1. UNCHANGED <<rxBase, rxGen, peerSession>>
    BY <1>6 DEF ServiceHead
  <2>2. CASE DeliverOrdered(n, rx[n], rxBase[n])
    BY <1>1, <1>2, <2>1, <2>2, DeliverWork DEF OrderedAt, WorkAt
  <2>3. CASE /\ \E s \in HeadSlot(n) :
                  /\ s.state = "IN_PROGRESS"
                  /\ rx' = [rx EXCEPT ![n] = (@ \ {s})
                                             \cup {[s EXCEPT !.state = "ERROR_PENDING"]}]
             /\ UNCHANGED work
    <3>1. PICK s \in HeadSlot(n) :
                  /\ s.state = "IN_PROGRESS"
                  /\ rx' = [rx EXCEPT ![n] = (@ \ {s})
                                             \cup {[s EXCEPT !.state = "ERROR_PENDING"]}]
      BY <2>3
    <3> DEFINE new == [s EXCEPT !.state = "ERROR_PENDING"]
    <3>2. s \in rx[n] /\ s.seq = rxBase[n] + 1 /\ s \in RxSlot
      BY <1>1 DEF HeadSlot
    <3>3. new.seq = s.seq /\ new.state = "ERROR_PENDING"
      BY <3>2 DEF RxSlot
    <3>4. rx'[n] = (rx[n] \ {s}) \cup {new} /\ \A m \in Node \ {n} : rx'[m] = rx[m]
      BY <1>1, <3>1
    <3> HIDE DEF new
    <3>5. Taken(rx'[n], rxBase[n]) /\ Taken(rx[n], rxBase[n])
      BY <3>1, <3>2, <3>3, <3>4 DEF Taken
    <3>6. Turn'[n] = Turn[n]
      BY <2>1, <3>5, TurnOf DEF TurnAt
    <3>7. HeldBy(work[n], rx'[n])
      BY <1>2, <3>3, <3>4 DEF WorkAt, HeldBy
    <3> QED
      BY <1>2, <2>1, <2>3, <3>4, <3>6, <3>7, OneWorker DEF WorkAt
  <2> QED
    BY <1>6, <2>2, <2>3 DEF ServiceHead
<1> QED
  BY <1>4, <1>5, <1>6 DEF ServiceRx

\* A completion drops the oldest token; the slot it names is no longer in progress.
LEMMA ApplicationWork ==
    ASSUME TypeOK, WorkInv, NEW n \in Node, Application(n)
    PROVE  WorkInv'
<1>1. rx \in [Node -> SUBSET RxSlot] /\ work \in [Node -> Seq(Token)] /\ WorkAt(n)
  BY DEF TypeOK, WorkInv
<1>2. ASSUME Send(n) \/ Recover(n) PROVE WorkInv'
  BY <1>2, QuietWork DEF Send, Recover, recvVars
<1>3. ASSUME CompleteRx(n) PROVE WorkInv'
  <2> DEFINE q == work[n]
             slots == Completes(n, Head(q))
             moved(state) == {[s EXCEPT !.state = state] : s \in slots}
  <2>1. PICK state \in {"COMMITTED", "ERROR_PENDING"} :
          rx' = [rx EXCEPT ![n] = (@ \ slots) \cup moved(state)]
    BY <1>3, Zenon DEF CompleteRx
  <2>2. slots \subseteq rx[n] /\ \A s \in slots : s.state = "IN_PROGRESS" /\ s \in RxSlot
    BY <1>1 DEF Completes
  <2>3. \A t \in moved(state) :
          t.state # "RECEIVED" /\ t.state # "IN_PROGRESS" /\ \E s \in slots : t.seq = s.seq
    BY <2>1, <2>2 DEF RxSlot
  <2>4. \A s \in slots : \E t \in moved(state) : t.state # "RECEIVED" /\ t.seq = s.seq
    <3> TAKE s \in slots
    <3>1. [s EXCEPT !.state = state] \in moved(state)
      OBVIOUS
    <3>2. /\ [s EXCEPT !.state = state].state = state
          /\ [s EXCEPT !.state = state].seq = s.seq
      BY <2>2 DEF RxSlot
    <3> WITNESS [s EXCEPT !.state = state] \in moved(state)
    <3> QED
      BY <2>1, <3>2
  <2>5. \A s \in rx[n] \ slots : s.state = "IN_PROGRESS" => TokenOf(s) # Head(q)
    BY DEF Completes
  <2>6. /\ UNCHANGED <<rxBase, rxGen>> /\ q # <<>> /\ q \in Seq(Token)
        /\ work' = [work EXCEPT ![n] = Tail(@)]
    BY <1>1, <1>3 DEF CompleteRx
  <2>7. work'[n] = Tail(q) /\ \A m \in Node \ {n} : work'[m] = work[m]
    BY <1>1, <2>6
  <2> HIDE DEF slots, moved
  <2>8. rx'[n] = (rx[n] \ slots) \cup moved(state) /\ \A m \in Node \ {n} : rx'[m] = rx[m]
    BY <1>1, <2>1
  <2>9. Turn'[n] = Turn[n]
    <3>1. Taken(rx'[n], rxBase[n]) <=> Taken(rx[n], rxBase[n])
      BY <2>2, <2>3, <2>4, <2>8 DEF Taken
    <3> QED
      BY <2>6, <3>1, TurnOf DEF TurnAt
  <2>10. BehindTurn(q, Turn[n], rxGen[n]) /\ HeldBy(q, rx[n])
    BY <1>1 DEF WorkAt
  <2> HIDE DEF q
  <2>11. /\ Len(q) \in Nat \ {0} /\ DOMAIN q = 1 .. Len(q)
         /\ DOMAIN Tail(q) = 1 .. Len(q) - 1
         /\ \A i \in 1 .. Len(q) - 1 : Tail(q)[i] = q[i + 1]
         /\ Head(q) = q[1]
    BY <2>6
  <2>12. BehindTurn(Tail(q), Turn[n], rxGen[n])
    BY <2>10, <2>11 DEF BehindTurn
  <2>13. HeldBy(Tail(q), rx'[n])
    <3>1. SUFFICES ASSUME NEW s \in rx[n] \ slots, s.state = "IN_PROGRESS"
                   PROVE  \E i \in DOMAIN Tail(q) :
                              /\ Tail(q)[i] = TokenOf(s)
                              /\ \A j \in DOMAIN Tail(q) : Tail(q)[j] = TokenOf(s) => j = i
      BY <2>3, <2>8 DEF HeldBy
    <3>2. PICK k \in 1 .. Len(q) : /\ q[k] = TokenOf(s)
                                   /\ \A j \in 1 .. Len(q) : q[j] = TokenOf(s) => j = k
      BY <2>10, <2>11, <3>1 DEF HeldBy
    <3>3. k # 1
      BY <2>5, <2>11, <3>1, <3>2
    <3>4. k - 1 \in 1 .. Len(q) - 1 /\ Tail(q)[k - 1] = TokenOf(s)
      BY <2>11, <3>2, <3>3
    <3>5. ASSUME NEW j \in 1 .. Len(q) - 1, Tail(q)[j] = TokenOf(s) PROVE j = k - 1
      <4>1. j + 1 \in 1 .. Len(q) /\ q[j + 1] = TokenOf(s)
        BY <2>11, <3>5
      <4> QED
        BY <3>2, <4>1
    <3> QED
      BY <2>11, <3>4, <3>5
  <2> QED
    BY <2>6, <2>7, <2>8, <2>9, <2>12, <2>13, OneWorker DEF WorkAt
<1>4. ASSUME Restart(n) PROVE WorkInv'
  <2>1. /\ rx'[n] = {} /\ work'[n] = <<>>
        /\ \A m \in Node \ {n} : /\ rx'[m] = rx[m] /\ rxBase'[m] = rxBase[m]
                                 /\ rxGen'[m] = rxGen[m] /\ work'[m] = work[m]
    BY <1>4 DEF TypeOK, Restart
  <2>2. WorkAt(n)'
    BY <2>1 DEF WorkAt, BehindTurn, HeldBy
  <2> QED
    BY <2>1, <2>2, OneWorker
<1> QED
  BY <1>2, <1>3, <1>4 DEF Application

\* Every step of either board keeps the work behind the turn.
LEMMA StepWork == TypeOK /\ OneAtATime /\ WorkInv /\ [Next]_vars => WorkInv'
<1> SUFFICES ASSUME TypeOK, OneAtATime, WorkInv, [Next]_vars PROVE WorkInv'
  OBVIOUS
<1>1. CASE UNCHANGED vars
  BY <1>1, QuietWork DEF vars, recvVars
<1>2. ASSUME NEW n \in Node, TxTask(n) \/ RecoveryTick(n) PROVE WorkInv'
  BY <1>2, QuietWork DEF TxTask, SendControl, AllocateSlot, SendSlot, SendFrame, SendHello,
     LinkDown, RecoveryTick, ResyncRetry, ResyncExhausted, GapTimeout, recvVars
<1>3. ASSUME NEW n \in Node, HandleFrame(n) PROVE WorkInv'
  <2> DEFINE f == Head(rawq[n])
  <2>1. UNCHANGED work
    BY <1>3 DEF HandleFrame, RejectFrame, ReceiveAck, ReceiveHello, ReceiveData,
       ReceiveRequest, ReceiveReply
  <2>2. CASE UNCHANGED recvVars
    BY <2>1, <2>2, QuietWork DEF recvVars
  <2>3. CASE \E peer : ResetRx(n, peer)
    BY <2>1, <2>3, ResetWork
  <2>4. CASE (StoreData(n, f) \/ RefuseData(n, f)) /\ UNCHANGED <<rxBase, rxGen>>
    BY <2>1, <2>4, StoreWork, QuietWork DEF RefuseData
  <2>5. \/ UNCHANGED recvVars
        \/ \E peer : ResetRx(n, peer)
        \/ (StoreData(n, f) \/ RefuseData(n, f)) /\ UNCHANGED <<rxBase, rxGen>>
    BY <1>3, Zenon DEF HandleFrame, RejectFrame, ReceiveAck, ReceiveHello, ReceiveData,
       ReceiveRequest, ReceiveReply, AdoptSession
  <2> QED
    BY <2>2, <2>3, <2>4, <2>5
<1>4. CASE Next
  BY <1>2, <1>3, <1>4, ServiceWork, ApplicationWork DEF Next
<1> QED
  BY <1>1, <1>4

\* A slot in progress is in the hands of the application exactly once, so its
\* completion will come and find it.
THEOREM ProgressHasWorker == Spec => []InProgressHasWorker
<1>1. Init => WorkInv
  BY DEF Init, WorkInv, WorkAt, BehindTurn, HeldBy
<1>2. TypeOK /\ OneAtATime /\ WorkInv /\ [Next]_vars => WorkInv'
  BY StepWork
<1>3. WorkInv => InProgressHasWorker
  BY DEF WorkInv, WorkAt, HeldBy, InProgressHasWorker
<1> QED
  BY <1>1, <1>2, <1>3, TypeCorrect, DeliveryInOrder, PTL DEF Spec
-----------------------------------------------------------------------------
(***************************************************************************)
(* Who commits.  Only a completion makes a receive slot COMMITTED, and     *)
(* only the slot its token names.                                          *)
(***************************************************************************)
CommittedIn(slots) == {s \in slots : s.state = "COMMITTED"}

\* Delivery commits nothing.
LEMMA DeliverCommits ==
    ASSUME TypeOK, NEW n \in Node, NEW slots \in SUBSET rx[n], NEW base,
           DeliverOrdered(n, slots, base)
    PROVE  \A m \in Node : CommittedIn(rx'[m]) \subseteq CommittedIn(rx[m])
<1>1. rx \in [Node -> SUBSET RxSlot] /\ \A s \in slots : s \in RxSlot
  BY DEF TypeOK
<1>2. CASE rx' = [rx EXCEPT ![n] = slots]
  BY <1>1, <1>2 DEF CommittedIn
<1>3. ASSUME NEW s \in slots, NEW state \in {"RECEIVED", "IN_PROGRESS", "ERROR_PENDING"},
             rx' = [rx EXCEPT ![n] = (slots \ {s}) \cup {[s EXCEPT !.state = state]}]
      PROVE  \A m \in Node : CommittedIn(rx'[m]) \subseteq CommittedIn(rx[m])
  <2> DEFINE new == [s EXCEPT !.state = state]
  <2>1. new.state # "COMMITTED"
    BY <1>1, <1>3 DEF RxSlot
  <2> HIDE DEF new
  <2>2. rx'[n] = (slots \ {s}) \cup {new} /\ \A m \in Node \ {n} : rx'[m] = rx[m]
    BY <1>1, <1>3 DEF new
  <2> QED
    BY <2>1, <2>2 DEF CommittedIn
<1> QED
  BY <1>2, <1>3 DEF DeliverOrdered, Ready

\* No step but a completion makes a slot COMMITTED.
LEMMA OnlyCompletionCommits ==
    ASSUME TypeOK, NEW n \in Node,
           TxTask(n) \/ HandleFrame(n) \/ ServiceRx(n) \/ RecoveryTick(n)
           \/ Send(n) \/ Recover(n) \/ Restart(n)
    PROVE  \A m \in Node : CommittedIn(rx'[m]) \subseteq CommittedIn(rx[m])
<1>1. rx \in [Node -> SUBSET RxSlot]
  BY DEF TypeOK
<1>2. CASE UNCHANGED rx
  BY <1>2
<1>3. CASE TxTask(n) \/ RecoveryTick(n) \/ Send(n) \/ Recover(n)
  BY <1>2, <1>3 DEF TxTask, SendControl, AllocateSlot, SendSlot, SendFrame, SendHello,
     LinkDown, RecoveryTick, ResyncRetry, ResyncExhausted, GapTimeout, Send, Recover, recvVars
<1>4. ASSUME rx' = [rx EXCEPT ![n] = {}]
      PROVE  \A m \in Node : CommittedIn(rx'[m]) \subseteq CommittedIn(rx[m])
  BY <1>1, <1>4 DEF CommittedIn
<1>5. CASE HandleFrame(n)
  <2> DEFINE f == Head(rawq[n])
  <2>1. CASE rx' = [rx EXCEPT ![n] = @ \cup {NewRxSlot(n, f)}]
    <3>1. NewRxSlot(n, f).state = "RECEIVED"
      BY DEF NewRxSlot
    <3>2. /\ rx'[n] = rx[n] \cup {NewRxSlot(n, f)}
          /\ \A m \in Node \ {n} : rx'[m] = rx[m]
      BY <1>1, <2>1
    <3> QED
      BY <3>1, <3>2 DEF CommittedIn
  <2>2. \/ UNCHANGED recvVars
        \/ \E peer : ResetRx(n, peer)
        \/ StoreData(n, f) \/ RefuseData(n, f)
    BY <1>5, Zenon DEF HandleFrame, RejectFrame, ReceiveAck, ReceiveHello, ReceiveData,
       ReceiveRequest, ReceiveReply, AdoptSession
  <2> QED
    BY <1>2, <1>4, <2>1, <2>2 DEF ResetRx, StoreData, RefuseData, recvVars
<1>6. CASE ServiceRx(n)
  <2>1. ASSUME NEW head \in HeadSlot(n), RetireHead(n, head)
        PROVE  \A m \in Node : CommittedIn(rx'[m]) \subseteq CommittedIn(rx[m])
    BY <2>1, DeliverCommits DEF RetireHead
  <2>2. ASSUME NEW s \in HeadSlot(n),
               rx' = [rx EXCEPT ![n] = (@ \ {s}) \cup {[s EXCEPT !.state = "ERROR_PENDING"]}]
        PROVE  \A m \in Node : CommittedIn(rx'[m]) \subseteq CommittedIn(rx[m])
    <3> DEFINE new == [s EXCEPT !.state = "ERROR_PENDING"]
    <3>1. s \in RxSlot
      BY <1>1 DEF HeadSlot
    <3>2. new.state # "COMMITTED"
      BY <3>1 DEF RxSlot
    <3> HIDE DEF new
    <3>3. rx'[n] = (rx[n] \ {s}) \cup {new} /\ \A m \in Node \ {n} : rx'[m] = rx[m]
      BY <1>1, <2>2 DEF new
    <3> QED
      BY <3>2, <3>3 DEF CommittedIn
  <2> QED
    BY <1>6, <2>1, <2>2, DeliverCommits DEF ServiceRx, AdvanceCommitted, QueueHeadError,
       ServiceHead
<1>7. CASE Restart(n)
  BY <1>4, <1>7 DEF Restart
<1> QED
  BY <1>3, <1>5, <1>6, <1>7

\* What a completion commits is the slot of the token it was given.
LEMMA CompletionNamesSlot ==
    ASSUME TypeOK, OneAtATime, NEW n \in Node, CompleteRx(n),
           NEW m \in Node, NEW s \in rx[m], s.state = "IN_PROGRESS",
           [s EXCEPT !.state = "COMMITTED"] \in rx'[m]
    PROVE  work[m] # <<>> /\ Head(work[m]) = TokenOf(s)
<1> DEFINE slots == Completes(n, Head(work[n]))
           moved(state) == {[t EXCEPT !.state = state] : t \in slots}
           c == [s EXCEPT !.state = "COMMITTED"]
<1>1. PICK state \in {"COMMITTED", "ERROR_PENDING"} :
        rx' = [rx EXCEPT ![n] = (@ \ slots) \cup moved(state)]
  BY Zenon DEF CompleteRx
<1>2. /\ rx \in [Node -> SUBSET RxSlot] /\ s \in RxSlot /\ work[n] # <<>>
      /\ slots \subseteq rx[n] /\ \A t \in slots : TokenOf(t) = Head(work[n])
  BY DEF TypeOK, Completes, CompleteRx
<1>3. c.seq = s.seq /\ c.state = "COMMITTED"
  BY <1>2 DEF RxSlot
<1>4. \A t \in rx[m] : t.seq = s.seq => t = s
  BY DEF OneAtATime
<1>5. \A u \in moved(state) : \E t \in slots : u.seq = t.seq
  BY <1>2 DEF RxSlot
<1> HIDE DEF slots, moved, c
<1>6. /\ rx'[n] = (rx[n] \ slots) \cup moved(state)
      /\ \A k \in Node \ {n} : rx'[k] = rx[k]
  BY <1>1, <1>2
<1>7. c \notin rx[m]
  BY <1>3, <1>4
<1>8. m = n /\ c \in moved(state)
  BY <1>6, <1>7 DEF c
<1>9. PICK t \in slots : t.seq = s.seq
  BY <1>3, <1>5, <1>8
<1> QED
  BY <1>2, <1>4, <1>8, <1>9

\* A worker's completion commits only the delivery it was given, not a later
\* frame that took the same sequence number.
THEOREM CompletionsAreCurrent == Spec => CompletionIsCurrent
<1> DEFINE Current == \A n \in Node : \A s \in rx[n] :
             (/\ s.state = "IN_PROGRESS"
              /\ [s EXCEPT !.state = "COMMITTED"] \in rx'[n])
             => work[n] # <<>> /\ Head(work[n]) = TokenOf(s)
<1>1. TypeOK /\ OneAtATime /\ [Next]_vars => [Current]_vars
  <2> SUFFICES ASSUME TypeOK, OneAtATime, NEW k \in Node,
                      \/ TxTask(k) \/ HandleFrame(k) \/ ServiceRx(k) \/ RecoveryTick(k)
                      \/ Application(k),
                      NEW n \in Node, NEW s \in rx[n], s.state = "IN_PROGRESS",
                      [s EXCEPT !.state = "COMMITTED"] \in rx'[n]
               PROVE  work[n] # <<>> /\ Head(work[n]) = TokenOf(s)
    BY DEF Next
  <2>1. CASE CompleteRx(k)
    BY <2>1, CompletionNamesSlot
  <2>2. ASSUME \A m \in Node : CommittedIn(rx'[m]) \subseteq CommittedIn(rx[m])
        PROVE  FALSE
    <3> DEFINE c == [s EXCEPT !.state = "COMMITTED"]
    <3>1. s \in RxSlot
      BY DEF TypeOK
    <3>2. c.seq = s.seq /\ c.state = "COMMITTED"
      BY <3>1 DEF RxSlot
    <3> HIDE DEF c
    <3>3. c \in rx[n]
      BY <2>2, <3>2 DEF CommittedIn, c
    <3> QED
      BY <3>2, <3>3 DEF OneAtATime
  <2> QED
    BY <2>1, <2>2, OnlyCompletionCommits DEF Application
<1> QED
  BY <1>1, TypeCorrect, DeliveryInOrder, PTL DEF Spec, CompletionIsCurrent
-----------------------------------------------------------------------------
(***************************************************************************)
(* The sender's window.  A frame acknowledges beyond its base at most the  *)
(* next sequence, for only the slot next to the base is ever COMMITTED; so *)
(* what an acknowledgement releases is the front of the window.            *)
(***************************************************************************)
Members(q) == {q[i] : i \in DOMAIN q}
Air(n) == Members(rawq[n])
NextOnly == \A n \in Node : \A f \in Air(n) : f.ackBits \subseteq {f.ackBase + 1}
Contiguous(slots, next) ==
    \A s \in slots : /\ s.seq < next
                     /\ \A q \in s.seq .. (next - 1) : \E t \in slots : t.seq = q

\* Taking a frame off the air leaves frames that were there.
LEMMA AirTail ==
    ASSUME NEW S, NEW q \in Seq(S), q # <<>>
    PROVE  Members(Tail(q)) \subseteq Members(q)
<1>1. /\ Len(q) \in Nat \ {0} /\ DOMAIN q = 1 .. Len(q) /\ DOMAIN Tail(q) = 1 .. Len(q) - 1
      /\ \A i \in 1 .. Len(q) - 1 : Tail(q)[i] = q[i + 1]
  OBVIOUS
<1> QED
  BY <1>1 DEF Members

\* Putting a frame on the air adds that frame.
LEMMA AirAppend ==
    ASSUME NEW S, NEW q \in Seq(S), NEW x \in S
    PROVE  Members(Append(q, x)) = Members(q) \cup {x}
<1>1. /\ Len(q) \in Nat /\ DOMAIN q = 1 .. Len(q) /\ DOMAIN Append(q, x) = 1 .. Len(q) + 1
      /\ \A i \in 1 .. Len(q) : Append(q, x)[i] = q[i]
      /\ Append(q, x)[Len(q) + 1] = x
  OBVIOUS
<1> QED
  BY <1>1 DEF Members

\* Every frame on the air is well formed.
LEMMA AirType ==
    ASSUME TypeOK, NEW n \in Node
    PROVE  Air(n) \subseteq Frame
<1>1. rawq[n] \in Seq(Frame)
  BY DEF TypeOK
<1> QED
  BY <1>1 DEF Air, Members

\* The frame that physical_send builds.
SentFrame(n, body) ==
    [body |-> body, session |-> session[n], ackBase |-> rxBase[n], ackBits |-> AckBits(n)]

\* It is well formed.
LEMMA SentFrameType ==
    ASSUME TypeOK, NEW n \in Node, NEW body \in Control \cup {Hello} \cup Data
    PROVE  SentFrame(n, body) \in Frame
<1>1. AckBits(n) \subseteq Nat
  BY DEF TypeOK, AckBits, RxSlot
<1> QED
  BY <1>1 DEF TypeOK, Frame, SentFrame

\* physical_send puts that frame on the air to the peer, or nothing.
LEMMA AirSend ==
    ASSUME TypeOK, NEW n \in Node, NEW body \in Control \cup {Hello} \cup Data,
           PhysicalSend(n, body), NEW m \in Node
    PROVE  \/ Air(m)' = Air(m)
           \/ m = Peer[n] /\ Air(m)' = Air(m) \cup {SentFrame(n, body)}
<1>1. rawq \in [Node -> Seq(Frame)] /\ Peer[n] \in Node /\ SentFrame(n, body) \in Frame
  BY NodeAssumption, SentFrameType DEF TypeOK
<1>2. CASE UNCHANGED rawq
  BY <1>2 DEF Air
<1>3. CASE rawq' = [rawq EXCEPT ![Peer[n]] = Append(@, SentFrame(n, body))]
  <2>1. CASE m = Peer[n]
    <3>1. rawq'[m] = Append(rawq[m], SentFrame(n, body)) /\ rawq[m] \in Seq(Frame)
      BY <1>1, <1>3, <2>1
    <3>2. Members(Append(rawq[m], SentFrame(n, body)))
            = Members(rawq[m]) \cup {SentFrame(n, body)}
      BY <1>1, <3>1, AirAppend
    <3> QED
      BY <2>1, <3>1, <3>2 DEF Air
  <2>2. CASE m # Peer[n]
    BY <1>1, <1>3, <2>2 DEF Air
  <2> QED
    BY <2>1, <2>2
<1> QED
  BY <1>2, <1>3 DEF PhysicalSend, SentFrame

\* Every step of tx_task sends at most one well-formed frame.
LEMMA TxTaskSends ==
    ASSUME TypeOK, NEW n \in Node, TxTask(n)
    PROVE  \/ UNCHANGED rawq
           \/ \E body \in Control \cup {Hello} \cup Data :
                /\ PhysicalSend(n, body)
                /\ \/ body.type # "DATA"
                   \/ \E s \in tx[n] : body = [type |-> "DATA", seq |-> s.seq, item |-> s.item]
<1>1. CASE SendControl(n)
  <2>1. ctrlq[n] \in Seq(Control) /\ ctrlq[n] # <<>>
    BY <1>1 DEF TypeOK, SendControl
  <2>2. Head(ctrlq[n]) \in Control
    BY <2>1, HeadTail
  <2>3. Head(ctrlq[n]).type # "DATA"
    BY <2>2 DEF Control, Ack, Request, Reply
  <2> QED
    BY <1>1, <2>2, <2>3 DEF SendControl
<1>2. CASE SendSlot(n)
  <2>1. PICK s \in tx[n] : PhysicalSend(n, [type |-> "DATA", seq |-> s.seq, item |-> s.item])
    BY <1>2 DEF SendSlot, SendFrame
  <2>2. [type |-> "DATA", seq |-> s.seq, item |-> s.item] \in Data
    BY <2>1 DEF TypeOK, TxSlot, Data
  <2> QED
    BY <2>1, <2>2
<1>3. CASE SendHello(n)
  <2>1. PhysicalSend(n, Hello) /\ Hello.type # "DATA"
    BY <1>3 DEF SendHello, Hello
  <2> QED
    BY <2>1
<1>4. CASE AllocateSlot(n) \/ LinkDown(n)
  BY <1>4 DEF AllocateSlot, LinkDown
<1> QED
  BY <1>1, <1>2, <1>3, <1>4 DEF TxTask

\* What a step of any other task does to the air: a frame is taken, or all.
LEMMA AirShrinks ==
    ASSUME TypeOK, NEW n \in Node,
           HandleFrame(n) \/ ServiceRx(n) \/ RecoveryTick(n) \/ Application(n),
           NEW m \in Node
    PROVE  Air(m)' \subseteq Air(m)
<1>1. rawq \in [Node -> Seq(Frame)]
  BY DEF TypeOK
<1>2. CASE rawq' = rawq
  BY <1>2 DEF Air
<1>3. CASE rawq' = [rawq EXCEPT ![n] = Tail(@)] /\ rawq[n] # <<>>
  <2>1. CASE m = n
    <3>1. rawq'[m] = Tail(rawq[m]) /\ rawq[m] \in Seq(Frame) /\ rawq[m] # <<>>
      BY <1>1, <1>3, <2>1
    <3> QED
      BY <3>1, AirTail DEF Air
  <2>2. CASE m # n
    BY <1>1, <1>3, <2>2 DEF Air
  <2> QED
    BY <2>1, <2>2
<1>4. CASE rawq' = [rawq EXCEPT ![n] = <<>>]
  BY SMTT(30), <1>1, <1>4 DEF Air, Members
<1>5. CASE HandleFrame(n)
  BY <1>3, <1>5 DEF HandleFrame, RejectFrame, ReceiveAck, ReceiveHello, ReceiveData,
     ReceiveRequest, ReceiveReply, TakeFrame
<1>6. CASE ServiceRx(n) \/ RecoveryTick(n)
  BY <1>2, <1>6 DEF ServiceRx, AdvanceCommitted, QueueHeadError, ServiceHead, RecoveryTick,
     ResyncRetry, ResyncExhausted, GapTimeout
<1>7. CASE Application(n)
  BY <1>2, <1>4, <1>7 DEF Application, Send, CompleteRx, Recover, Restart
<1> QED
  BY <1>5, <1>6, <1>7

\* The ack bitmap of a frame put on the air names at most the next sequence.
LEMMA BitsNextOnly ==
    ASSUME OneAtATime, NEW n \in Node
    PROVE  AckBits(n) \subseteq {rxBase[n] + 1}
  BY DEF OneAtATime, AckBits

\* Every step keeps that of all frames on the air.
LEMMA StepNextOnly == TypeOK /\ OneAtATime /\ NextOnly /\ [Next]_vars => NextOnly'
<1> SUFFICES ASSUME TypeOK, OneAtATime, NextOnly, [Next]_vars,
                    NEW m \in Node, NEW f \in Air(m)'
             PROVE  f.ackBits \subseteq {f.ackBase + 1}
  BY DEF NextOnly
<1>1. CASE f \in Air(m)
  BY <1>1 DEF NextOnly
<1>2. CASE UNCHANGED vars
  BY <1>1, <1>2 DEF vars, Air
<1>3. ASSUME NEW n \in Node, TxTask(n) PROVE f.ackBits \subseteq {f.ackBase + 1}
  <2>1. CASE UNCHANGED rawq
    BY <1>1, <2>1 DEF Air
  <2>2. ASSUME NEW body \in Control \cup {Hello} \cup Data, PhysicalSend(n, body)
        PROVE  f.ackBits \subseteq {f.ackBase + 1}
    <3>1. f \in Air(m) \/ f = SentFrame(n, body)
      BY <2>2, AirSend
    <3>2. /\ SentFrame(n, body).ackBase = rxBase[n]
          /\ SentFrame(n, body).ackBits = AckBits(n)
      BY DEF SentFrame
    <3> QED
      BY <1>1, <3>1, <3>2, BitsNextOnly
  <2> QED
    BY <1>3, <2>1, <2>2, TxTaskSends
<1>4. CASE Next
  BY <1>1, <1>3, <1>4, AirShrinks DEF Next
<1> QED
  BY <1>2, <1>4

\* process_ack releases the front of the window.
LEMMA AckKeepsContiguous ==
    ASSUME TypeOK, NextOnly, NEW n \in Node, Contiguous(tx[n], nextSeq[n]), NEW f \in Air(n)
    PROVE  Contiguous(tx[n] \ AckedSlots(n, f), nextSeq[n])
<1>1. tx[n] \in SUBSET TxSlot /\ nextSeq[n] \in Nat /\ \A s \in tx[n] : s.seq \in Nat
  BY DEF TypeOK, TxSlot
<1>2. f.ackBase \in Nat /\ f.ackBits \subseteq {f.ackBase + 1}
  BY AirType DEF NextOnly, Frame
<1>3. \A s \in tx[n] : s \in AckedSlots(n, f) <=> s.seq <= f.ackBase \/ s.seq \in f.ackBits
  BY DEF AckedSlots
<1>4. SUFFICES ASSUME NEW s \in tx[n] \ AckedSlots(n, f), NEW q \in s.seq .. (nextSeq[n] - 1)
               PROVE  \E t \in tx[n] \ AckedSlots(n, f) : t.seq = q
  BY DEF Contiguous
<1>5. PICK t \in tx[n] : t.seq = q
  BY DEF Contiguous
<1>6. s.seq > f.ackBase /\ s.seq \notin f.ackBits
  BY <1>1, <1>2, <1>3
<1>7. q \in Int /\ q >= s.seq
  BY <1>1
<1>8. q \notin f.ackBits
  <2>1. CASE q = s.seq
    BY <1>6, <2>1
  <2>2. CASE q # s.seq
    BY <1>1, <1>2, <1>6, <1>7, <2>2
  <2> QED
    BY <2>1, <2>2
<1>9. ~(t.seq <= f.ackBase)
  BY <1>1, <1>2, <1>5, <1>6, <1>7
<1> QED
  BY <1>3, <1>5, <1>8, <1>9

\* Whatever is sent or asked for again keeps its sequence.
LEMMA SameSequences ==
    ASSUME NEW slots, NEW new, NEW next, Contiguous(slots, next),
           \A s \in new : \E t \in slots : t.seq = s.seq,
           \A s \in slots : \E t \in new : t.seq = s.seq
    PROVE  Contiguous(new, next)
  BY DEF Contiguous

\* The same frames, apart from what was sent when.
SameFrames(new, old) ==
    /\ \A s \in new : \E t \in old : t.seq = s.seq /\ t.item = s.item
    /\ \A s \in old : \E t \in new : t.seq = s.seq /\ t.item = s.item

\* The slots of n lose at most what one frame on the air acknowledges.
SlotsKept(n) ==
    /\ session'[n] = session[n] /\ nextSeq'[n] = nextSeq[n]
    /\ \/ SameFrames(tx'[n], tx[n])
       \/ \E f \in Air(n) : SameFrames(tx'[n], tx[n] \ AckedSlots(n, f))

\* A new slot takes the next sequence and the head of the tx queue.
SlotAdded(n) ==
    /\ session'[n] = session[n] /\ nextSeq'[n] = nextSeq[n] + 1
    /\ txq[n] # <<>> /\ txq' = [txq EXCEPT ![n] = Tail(@)]
    /\ \E new : /\ tx'[n] = tx[n] \cup {new}
                /\ new.seq = nextSeq[n] /\ new.item = Head(txq[n])
    /\ UNCHANGED <<rawq, recvVars, work, recovery, ctrlq, history>>

\* A session of n ends: its slots are free again.
SlotsDropped(n) == session'[n] = session[n] + 1 /\ nextSeq'[n] = 1 /\ tx'[n] = {}

\* rotate_local_epoch and a reboot drop the slots.
LEMMA RotateDrops ==
    ASSUME TypeOK, NEW n \in Node, NEW slots, RotateEpoch(n, slots)
    PROVE  SlotsDropped(n)
  BY DEF TypeOK, RotateEpoch, SlotsDropped

\* A step of n leaves the sender of every other node alone.
LEMMA OtherSender ==
    ASSUME TypeOK, NEW n \in Node,
           \/ TxTask(n) \/ HandleFrame(n) \/ ServiceRx(n) \/ RecoveryTick(n)
           \/ Application(n),
           NEW m \in Node, m # n
    PROVE  session'[m] = session[m] /\ nextSeq'[m] = nextSeq[m] /\ tx'[m] = tx[m]
<1>1. session \in [Node -> Nat] /\ nextSeq \in [Node -> Nat] /\ tx \in [Node -> SUBSET TxSlot]
  BY DEF TypeOK
<1>2. CASE TxTask(n)
  BY <1>1, <1>2 DEF TxTask, SendControl, AllocateSlot, SendSlot, SendFrame, SendHello, LinkDown,
     sendVars
<1>3. CASE HandleFrame(n)
  BY <1>1, <1>3 DEF HandleFrame, RejectFrame, ReceiveAck, ReceiveHello, ReceiveData,
     ReceiveRequest, ReceiveReply, AcceptPlain, RotateEpoch, sendVars
<1>4. CASE ServiceRx(n) \/ RecoveryTick(n)
  BY <1>1, <1>4 DEF ServiceRx, AdvanceCommitted, QueueHeadError, ServiceHead, RecoveryTick,
     ResyncRetry, ResyncExhausted, GapTimeout, sendVars
<1>5. CASE Application(n)
  BY <1>1, <1>5 DEF Application, Send, CompleteRx, Recover, Restart, sendVars
<1> QED
  BY <1>2, <1>3, <1>4, <1>5

\* What a step of n does to its own slots.
LEMMA OwnSender ==
    ASSUME TypeOK, NEW n \in Node,
           \/ TxTask(n) \/ HandleFrame(n) \/ ServiceRx(n) \/ RecoveryTick(n)
           \/ Application(n)
    PROVE  SlotsKept(n) \/ SlotAdded(n) \/ SlotsDropped(n)
<1> DEFINE f == Head(rawq[n])
           slots == tx[n] \ AckedSlots(n, f)
<1>1. session \in [Node -> Nat] /\ nextSeq \in [Node -> Nat] /\ tx \in [Node -> SUBSET TxSlot]
  BY DEF TypeOK
<1>2. \A old : SameFrames(old, old)
  BY DEF SameFrames
<1>3. ASSUME UNCHANGED <<session, nextSeq, tx>> PROVE SlotsKept(n)
  BY <1>2, <1>3 DEF SlotsKept
<1>4. CASE TxTask(n)
  <2>1. CASE AllocateSlot(n)
    <3> DEFINE new == [seq |-> nextSeq[n], item |-> Head(txq[n]), sent |-> FALSE]
    <3>1. new.seq = nextSeq[n] /\ new.item = Head(txq[n])
      OBVIOUS
    <3>2. tx'[n] = tx[n] \cup {new} /\ nextSeq'[n] = nextSeq[n] + 1 /\ session'[n] = session[n]
      BY <1>1, <2>1 DEF AllocateSlot
    <3> HIDE DEF new
    <3> QED
      BY <2>1, <3>1, <3>2 DEF AllocateSlot, SlotAdded
  <2>2. CASE SendSlot(n)
    <3>1. PICK s \in tx[n] : SendFrame(n, s)
      BY <2>2 DEF SendSlot
    <3> DEFINE new == [s EXCEPT !.sent = TRUE]
    <3>2. new.seq = s.seq /\ new.item = s.item
      BY <1>1 DEF TxSlot
    <3>3. tx'[n] = (tx[n] \ {s}) \cup {new}
      BY <1>1, <3>1 DEF SendFrame
    <3> HIDE DEF new
    <3>4. SameFrames(tx'[n], tx[n])
      BY <3>2, <3>3 DEF SameFrames
    <3> QED
      BY <3>1, <3>4 DEF SlotsKept, SendFrame
  <2> QED
    BY <1>3, <1>4, <2>1, <2>2 DEF TxTask, SendControl, SendHello, LinkDown, sendVars
<1>5. ASSUME rawq[n] # <<>> PROVE f \in Air(n)
  <2>1. rawq[n] \in Seq(Frame)
    BY DEF TypeOK
  <2>2. 1 \in DOMAIN rawq[n] /\ f = rawq[n][1]
    BY <1>5, <2>1
  <2> QED
    BY <2>2 DEF Air, Members
<1>6. ASSUME rawq[n] # <<>>, SameFrames(tx'[n], slots), UNCHANGED <<session, nextSeq>>
      PROVE  SlotsKept(n)
  BY <1>5, <1>6 DEF SlotsKept
<1>7. CASE HandleFrame(n)
  <2> DEFINE wanted == {s \in slots : s.seq = f.body.expected}
             again == {[s EXCEPT !.sent = FALSE] : s \in wanted}
  <2>1. ASSUME tx' = [tx EXCEPT ![n] = slots], rawq[n] # <<>>, UNCHANGED <<session, nextSeq>>
        PROVE  SlotsKept(n)
    <3>1. tx'[n] = slots
      BY <1>1, <2>1
    <3> HIDE DEF slots
    <3> QED
      BY <1>2, <1>6, <2>1, <3>1
  <2>2. ASSUME tx' = [tx EXCEPT ![n] = (slots \ wanted) \cup again], rawq[n] # <<>>,
               UNCHANGED <<session, nextSeq>>
        PROVE  SlotsKept(n)
    <3>1. tx'[n] = (slots \ wanted) \cup again
      BY <1>1, <2>2
    <3>2. \A s \in wanted : /\ [s EXCEPT !.sent = FALSE].seq = s.seq
                            /\ [s EXCEPT !.sent = FALSE].item = s.item
      BY <1>1 DEF TxSlot
    <3>3. \A s \in again : \E t \in wanted : t.seq = s.seq /\ t.item = s.item
      BY <3>2
    <3>4. \A s \in wanted : \E t \in again : t.seq = s.seq /\ t.item = s.item
      BY <3>2
    <3>5. wanted \subseteq slots
      OBVIOUS
    <3> HIDE DEF slots, wanted, again
    <3>6. SameFrames(tx'[n], slots)
      BY <3>1, <3>3, <3>4, <3>5 DEF SameFrames
    <3> QED
      BY <1>6, <2>2, <3>6
  <2>3. CASE RejectFrame(n)
    BY <1>3, <2>3 DEF RejectFrame, sendVars
  <2>4. CASE ReceiveAck(n) \/ ReceiveHello(n) \/ ReceiveData(n)
    BY <2>1, <2>4 DEF ReceiveAck, ReceiveHello, ReceiveData, TakeFrame, AcceptPlain
  <2>5. CASE ReceiveReply(n)
    BY <2>1, <2>5, RotateDrops DEF ReceiveReply, TakeFrame
  <2>6. CASE ReceiveRequest(n)
    <3>1. /\ rawq[n] # <<>>
          /\ \/ tx' = [tx EXCEPT ![n] = slots] /\ UNCHANGED <<session, nextSeq>>
             \/ /\ tx' = [tx EXCEPT ![n] = (slots \ wanted) \cup again]
                /\ UNCHANGED <<session, nextSeq>>
             \/ RotateEpoch(n, slots)
      BY <2>6, Zenon DEF ReceiveRequest, TakeFrame
    <3> HIDE DEF slots, wanted, again
    <3> QED
      BY <2>1, <2>2, <3>1, RotateDrops
  <2> QED
    BY <1>7, <2>3, <2>4, <2>5, <2>6 DEF HandleFrame
<1>8. CASE ServiceRx(n) \/ RecoveryTick(n)
  BY <1>3, <1>8 DEF ServiceRx, AdvanceCommitted, QueueHeadError, ServiceHead, RecoveryTick,
     ResyncRetry, ResyncExhausted, GapTimeout, sendVars
<1>9. CASE Application(n)
  <2>1. CASE Restart(n)
    BY <1>1, <2>1 DEF Restart, SlotsDropped
  <2> QED
    BY <1>3, <1>9, <2>1 DEF Application, Send, CompleteRx, Recover, sendVars
<1> QED
  BY <1>4, <1>7, <1>8, <1>9

\* Every step keeps every window without a hole.
LEMMA StepContiguous ==
    TypeOK /\ NextOnly /\ TxWindowContiguous /\ [Next]_vars => TxWindowContiguous'
<1> SUFFICES ASSUME TypeOK, NextOnly, TxWindowContiguous, [Next]_vars, NEW m \in Node
             PROVE  Contiguous(tx'[m], nextSeq'[m])
  BY DEF TxWindowContiguous, Contiguous
<1>1. Contiguous(tx[m], nextSeq[m])
  BY DEF TxWindowContiguous, Contiguous
<1>2. CASE UNCHANGED vars
  BY <1>1, <1>2 DEF vars, sendVars
<1>3. CASE SlotsKept(m)
  <2>1. ASSUME NEW slots, Contiguous(slots, nextSeq[m]), SameFrames(tx'[m], slots)
        PROVE  Contiguous(tx'[m], nextSeq[m])
    BY <2>1, SameSequences DEF SameFrames
  <2> QED
    BY <1>1, <1>3, <2>1, AckKeepsContiguous DEF SlotsKept
<1>4. CASE SlotAdded(m)
  <2>1. PICK new : tx'[m] = tx[m] \cup {new} /\ new.seq = nextSeq[m]
    BY <1>4 DEF SlotAdded
  <2>2. nextSeq[m] \in Nat /\ nextSeq'[m] = nextSeq[m] + 1 /\ \A s \in tx[m] : s.seq \in Nat
    BY <1>4 DEF TypeOK, SlotAdded, TxSlot
  <2>3. ASSUME NEW s \in tx[m] \cup {new}, NEW q \in s.seq .. (nextSeq[m] + 1 - 1)
        PROVE  \E t \in tx[m] \cup {new} : t.seq = q
    <3>1. CASE q = nextSeq[m]
      BY <2>1, <3>1
    <3>2. CASE q # nextSeq[m]
      <4>1. s \in tx[m] /\ q \in s.seq .. (nextSeq[m] - 1)
        BY <2>1, <2>2, <2>3, <3>2
      <4> QED
        BY <1>1, <4>1 DEF Contiguous
    <3> QED
      BY <3>1, <3>2
  <2>4. \A s \in tx[m] \cup {new} : s.seq < nextSeq[m] + 1
    BY <1>1, <2>1, <2>2 DEF Contiguous
  <2> QED
    BY <2>1, <2>2, <2>3, <2>4 DEF Contiguous
<1>5. CASE SlotsDropped(m)
  BY <1>5 DEF SlotsDropped, Contiguous
<1>6. CASE Next
  BY <1>1, <1>3, <1>4, <1>5, <1>6, OtherSender, OwnSender DEF Next
<1> QED
  BY <1>2, <1>6

\* Selective acknowledgement never leaves a hole in the sender's window, and so
\* never lets it run more than a window ahead of the oldest frame.
THEOREM WindowHasNoHole == Spec => []TxWindowContiguous
<1>1. Init => NextOnly /\ TxWindowContiguous
  BY DEF Init, NextOnly, Air, Members, TxWindowContiguous
<1>2. /\ TypeOK /\ OneAtATime /\ NextOnly /\ TxWindowContiguous /\ [Next]_vars
      => NextOnly' /\ TxWindowContiguous'
  BY StepNextOnly, StepContiguous
<1> QED
  BY <1>1, <1>2, TypeCorrect, DeliveryInOrder, PTL DEF Spec
-----------------------------------------------------------------------------
(***************************************************************************)
(* One direction of the link in the first session of both boards: the      *)
(* slots and the next sequence of the sender; the base, the held slots and *)
(* what was committed of the receiver; the frames on their way to the      *)
(* receiver and the acknowledgements on their way back.  A sequence names  *)
(* one item everywhere, and whatever is passed, committed or acknowledged  *)
(* is committed.                                                           *)
(***************************************************************************)
IsData(f) == f.body.type = "DATA"
Acknowledges(f, q) == q <= f.ackBase \/ q \in f.ackBits

Below(slots, next, base, held, inc, out) ==
    /\ base < next
    /\ \A s \in slots : s.seq < next
    /\ \A r \in held : r.seq < next
    /\ \A f \in inc : IsData(f) => f.body.seq < next
    /\ \A f \in out : f.ackBase < next /\ \A q \in f.ackBits : q < next
SameItem(slots, held, inc) ==
    \A s \in slots :
        /\ \A t \in slots : t.seq = s.seq => t.item = s.item
        /\ \A r \in held : r.seq = s.seq => r.item = s.item
        /\ \A f \in inc : IsData(f) /\ f.body.seq = s.seq => f.body.item = s.item
Done(slots, base, held, done, out) ==
    \A s \in slots :
        /\ s.seq <= base => s.item \in done
        /\ \A r \in held : r.state = "COMMITTED" /\ r.seq = s.seq => s.item \in done
        /\ \A f \in out : Acknowledges(f, s.seq) => s.item \in done
Direction(slots, next, base, held, done, inc, out) ==
    /\ Below(slots, next, base, held, inc, out)
    /\ SameItem(slots, held, inc)
    /\ Done(slots, base, held, done, out)

DirectionAt(n) ==
    Direction(tx[n], nextSeq[n], rxBase[Peer[n]], rx[Peer[n]], committed[Peer[n]],
              Air(Peer[n]), Air(n))
Greeted(n) ==
    /\ peerSession[n] \in {0, 1}
    /\ peerSession[n] = 0 => rx[n] = {} /\ rxBase[n] = 0
FirstInv ==
    /\ \A n \in Node : session[n] >= 1
    /\ FirstSessions =>
        \A n \in Node : /\ Greeted(n) /\ DirectionAt(n)
                        /\ \A f \in Air(n) : f.session = 1
                        /\ acked[n] \subseteq committed[Peer[n]]

\* A DATA frame carries a sequence and an item.
LEMMA DataType ==
    ASSUME NEW f \in Frame, IsData(f)
    PROVE  f.body.seq \in Nat /\ f.body.item \in Item
<1>1. f.body \in Data
  BY DEF Frame, IsData, Control, Ack, Hello, Request, Reply, Data
<1> QED
  BY <1>1 DEF Data

\* The sender lets slots go, or sends them again.
LEMMA DirectionKept ==
    ASSUME NEW slots, NEW next, NEW base, NEW held, NEW done, NEW inc, NEW out,
           Direction(slots, next, base, held, done, inc, out),
           NEW new, \A s \in new : \E t \in slots : t.seq = s.seq /\ t.item = s.item
    PROVE  Direction(new, next, base, held, done, inc, out)
<1>1. Below(new, next, base, held, inc, out)
  BY DEF Direction, Below
<1>2. SameItem(new, held, inc)
  BY DEF Direction, SameItem
<1>3. Done(new, base, held, done, out)
  BY DEF Direction, Done
<1> QED
  BY <1>1, <1>2, <1>3 DEF Direction

\* The sender takes a new sequence, which nobody has heard of.
LEMMA DirectionAdded ==
    ASSUME NEW slots \in SUBSET TxSlot, NEW next \in Nat, NEW base \in Nat,
           NEW held \in SUBSET RxSlot, NEW done, NEW inc \in SUBSET Frame,
           NEW out \in SUBSET Frame,
           Direction(slots, next, base, held, done, inc, out),
           NEW new, new.seq = next
    PROVE  Direction(slots \cup {new}, next + 1, base, held, done, inc, out)
<1>1. /\ \A s \in slots : s.seq \in Nat
      /\ \A r \in held : r.seq \in Nat
      /\ \A f \in inc : IsData(f) => f.body.seq \in Nat
      /\ \A f \in out : f.ackBase \in Nat /\ f.ackBits \in SUBSET Nat
  BY DataType DEF TxSlot, RxSlot, Frame
<1>2. Below(slots, next, base, held, inc, out)
  BY DEF Direction
<1>3. Below(slots \cup {new}, next + 1, base, held, inc, out)
  BY <1>1, <1>2 DEF Below
<1>4. /\ \A s \in slots : s.seq # next
      /\ \A r \in held : r.seq # next
      /\ \A f \in inc : IsData(f) => f.body.seq # next
      /\ \A f \in out : ~Acknowledges(f, next)
      /\ ~(next <= base)
  BY <1>1, <1>2 DEF Below, Acknowledges
<1>5. SameItem(slots \cup {new}, held, inc)
  BY <1>4 DEF Direction, SameItem
<1>6. Done(slots \cup {new}, base, held, done, out)
  BY <1>4 DEF Direction, Done
<1> QED
  BY <1>3, <1>5, <1>6 DEF Direction

\* Frames leave the air, more is committed.
LEMMA DirectionShrinks ==
    ASSUME NEW slots, NEW next, NEW base, NEW held, NEW done, NEW inc, NEW out,
           Direction(slots, next, base, held, done, inc, out),
           NEW more, done \subseteq more, NEW inc2 \in SUBSET inc, NEW out2 \in SUBSET out
    PROVE  Direction(slots, next, base, held, more, inc2, out2)
<1>1. Below(slots, next, base, held, inc2, out2) /\ SameItem(slots, held, inc2)
  BY DEF Direction, Below, SameItem
<1>2. Done(slots, base, held, more, out2)
  BY DEF Direction, Done
<1> QED
  BY <1>1, <1>2 DEF Direction

\* The sender puts a frame on the air: the data of one of its slots, or no data.
LEMMA DirectionSends ==
    ASSUME NEW slots, NEW next, NEW base, NEW held, NEW done, NEW inc, NEW out,
           Direction(slots, next, base, held, done, inc, out),
           NEW f, ~IsData(f) \/ \E s \in slots : f.body.seq = s.seq /\ f.body.item = s.item
    PROVE  Direction(slots, next, base, held, done, inc \cup {f}, out)
<1>1. Below(slots, next, base, held, inc \cup {f}, out)
  BY DEF Direction, Below
<1>2. SameItem(slots, held, inc \cup {f})
  BY DEF Direction, SameItem
<1> QED
  BY <1>1, <1>2 DEF Direction

\* The receiver puts its base and its committed slots on the air.
LEMMA DirectionAcks ==
    ASSUME NEW slots, NEW next, NEW base, NEW held, NEW done, NEW inc, NEW out,
           Direction(slots, next, base, held, done, inc, out),
           NEW f, f.ackBase = base,
           \A q \in f.ackBits : \E r \in held : r.state = "COMMITTED" /\ r.seq = q
    PROVE  Direction(slots, next, base, held, done, inc, out \cup {f})
<1>1. Below(slots, next, base, held, inc, out \cup {f})
  BY DEF Direction, Below
<1>2. Done(slots, base, held, done, out \cup {f})
  BY DEF Direction, Done, Acknowledges
<1> QED
  BY <1>1, <1>2 DEF Direction

\* The receiver stores, hands out, commits and retires.
HeldFrom(new, held, done, inc) ==
    \A r \in new :
        \/ \E t \in held : /\ t.seq = r.seq /\ t.item = r.item
                           /\ \/ r.state # "COMMITTED"
                              \/ t.state = "COMMITTED"
                              \/ r.item \in done
        \/ /\ r.state # "COMMITTED"
           /\ \E f \in inc : IsData(f) /\ f.body.seq = r.seq /\ f.body.item = r.item
BaseFrom(new, base, held, done) ==
    \/ new = base
    \/ /\ new = base + 1
       /\ \E h \in held : h.seq = base + 1 /\ (h.state = "COMMITTED" \/ h.item \in done)

\* Such a step keeps the direction.
LEMMA DirectionReceives ==
    ASSUME NEW slots \in SUBSET TxSlot, NEW next \in Nat, NEW base \in Nat, NEW held, NEW done,
           NEW inc, NEW out,
           Direction(slots, next, base, held, done, inc, out),
           NEW more, done \subseteq more,
           NEW held2, HeldFrom(held2, held, more, inc),
           NEW base2, BaseFrom(base2, base, held, more)
    PROVE  Direction(slots, next, base2, held2, more, inc, out)
<1>1. /\ Below(slots, next, base, held, inc, out) /\ SameItem(slots, held, inc)
      /\ Done(slots, base, held, done, out)
  BY DEF Direction
<1>2. Below(slots, next, base2, held2, inc, out)
  <2>1. base2 < next
    BY <1>1 DEF Below, BaseFrom
  <2>2. \A r \in held2 : r.seq < next
    BY <1>1 DEF Below, HeldFrom
  <2> QED
    BY <1>1, <2>1, <2>2 DEF Below
<1>3. SameItem(slots, held2, inc)
  BY <1>1 DEF SameItem, HeldFrom
<1>4. Done(slots, base2, held2, more, out)
  <2> SUFFICES ASSUME NEW s \in slots
               PROVE  /\ s.seq <= base2 => s.item \in more
                      /\ \A r \in held2 : r.state = "COMMITTED" /\ r.seq = s.seq
                                            => s.item \in more
                      /\ \A f \in out : Acknowledges(f, s.seq) => s.item \in more
    BY DEF Done
  <2>1. ASSUME s.seq <= base2 PROVE s.item \in more
    <3>1. CASE s.seq <= base
      BY <1>1, <3>1 DEF Done
    <3>2. CASE ~(s.seq <= base)
      <4>1. PICK h \in held : h.seq = base + 1 /\ (h.state = "COMMITTED" \/ h.item \in more)
            /\ base2 = base + 1
        BY <2>1, <3>2 DEF BaseFrom
      <4>2. s.seq = h.seq
        BY <2>1, <3>2, <4>1 DEF TxSlot
      <4>3. h.item = s.item
        BY <1>1, <4>2 DEF SameItem
      <4> QED
        BY <1>1, <4>1, <4>2, <4>3 DEF Done
    <3> QED
      BY <3>1, <3>2
  <2>2. ASSUME NEW r \in held2, r.state = "COMMITTED", r.seq = s.seq PROVE s.item \in more
    BY <1>1, <2>2 DEF HeldFrom, Done, SameItem
  <2>3. \A f \in out : Acknowledges(f, s.seq) => s.item \in more
    BY <1>1 DEF Done
  <2> QED
    BY <2>1, <2>2, <2>3
<1> QED
  BY <1>2, <1>3, <1>4 DEF Direction

(***************************************************************************)
(* What a step of n does to its own receive side.                          *)
(***************************************************************************)
Accepted(n) == {f \in Air(n) : f.session = peerSession[n]}

\* It stores an accepted frame, hands out, commits or retires,
Received(n) ==
    /\ session'[n] = session[n] /\ peerSession'[n] = peerSession[n]
    /\ committed[n] \subseteq committed'[n]
    /\ HeldFrom(rx'[n], rx[n], committed'[n], Accepted(n))
    /\ BaseFrom(rxBase'[n], rxBase[n], rx[n], committed'[n])

\* or follows the session of a frame,
Adopted(n) ==
    /\ \E f \in Air(n) : f.session # peerSession[n] /\ ResetRx(n, f.session)
    /\ committed'[n] = committed[n]

\* or starts a session of its own.
Renewed(n) == session'[n] = session[n] + 1

\* A step of n leaves the receiver of every other node alone.
LEMMA OtherReceiver ==
    ASSUME TypeOK, NEW n \in Node,
           \/ TxTask(n) \/ HandleFrame(n) \/ ServiceRx(n) \/ RecoveryTick(n)
           \/ Application(n),
           NEW m \in Node, m # n
    PROVE  /\ rx'[m] = rx[m] /\ rxBase'[m] = rxBase[m] /\ peerSession'[m] = peerSession[m]
           /\ rxGen'[m] = rxGen[m] /\ runs'[m] = runs[m] /\ committed'[m] = committed[m]
<1>1. /\ rx \in [Node -> SUBSET RxSlot] /\ rxBase \in [Node -> Nat]
      /\ peerSession \in [Node -> Nat] /\ rxGen \in [Node -> Nat]
      /\ runs \in [Node -> Seq(Token)] /\ committed \in [Node -> SUBSET Item]
  BY DEF TypeOK
<1>2. CASE TxTask(n) \/ RecoveryTick(n)
  BY <1>1, <1>2 DEF TxTask, SendControl, AllocateSlot, SendSlot, SendFrame, SendHello, LinkDown,
     RecoveryTick, ResyncRetry, ResyncExhausted, GapTimeout, recvVars, history
<1>3. CASE HandleFrame(n)
  BY <1>1, <1>3 DEF HandleFrame, RejectFrame, ReceiveAck, ReceiveHello, ReceiveData,
     ReceiveRequest, ReceiveReply, AdoptSession, ResetRx, StoreData, RefuseData, recvVars,
     history
<1>4. ASSUME NEW slots, NEW base, DeliverOrdered(n, slots, base)
      PROVE  rx'[m] = rx[m] /\ runs'[m] = runs[m]
  BY <1>1, <1>4 DEF DeliverOrdered
<1>5. CASE ServiceRx(n)
  BY <1>1, <1>4, <1>5 DEF ServiceRx, AdvanceCommitted, QueueHeadError, ServiceHead, RetireHead
<1>6. CASE Application(n)
  <2>1. CASE CompleteRx(n)
    <3> DEFINE slots == Completes(n, Head(work[n]))
    <3>1. PICK state \in {"COMMITTED", "ERROR_PENDING"} :
            /\ rx' = [rx EXCEPT ![n] = (@ \ slots)
                                       \cup {[s EXCEPT !.state = state] : s \in slots}]
            /\ committed' = [committed EXCEPT ![n] =
                  @ \cup {s.item : s \in {t \in slots : state = "COMMITTED"}}]
      BY <2>1, Zenon DEF CompleteRx
    <3>2. rx'[m] = rx[m] /\ committed'[m] = committed[m]
      BY <1>1, <3>1
    <3> QED
      BY <2>1, <3>2 DEF CompleteRx
  <2>2. CASE Send(n) \/ Recover(n) \/ Restart(n)
    BY <1>1, <2>2 DEF Send, Recover, Restart, recvVars, history
  <2> QED
    BY <1>6, <2>1, <2>2 DEF Application
<1> QED
  BY <1>2, <1>3, <1>5, <1>6

\* Delivery keeps the sequence and the item of every slot and commits none.
LEMMA DeliverKeeps ==
    ASSUME TypeOK, NEW n \in Node, NEW slots \in SUBSET rx[n], NEW base,
           DeliverOrdered(n, slots, base)
    PROVE  \A r \in rx'[n] : \E t \in slots :
             /\ t.seq = r.seq /\ t.item = r.item /\ t.session = r.session
             /\ r.state = "COMMITTED" => t.state = "COMMITTED"
<1>1. rx \in [Node -> SUBSET RxSlot] /\ \A s \in slots : s \in RxSlot
  BY DEF TypeOK
<1>2. CASE rx' = [rx EXCEPT ![n] = slots]
  BY <1>1, <1>2
<1>3. ASSUME NEW s \in slots, NEW state \in {"RECEIVED", "IN_PROGRESS", "ERROR_PENDING"},
             rx' = [rx EXCEPT ![n] = (slots \ {s}) \cup {[s EXCEPT !.state = state]}]
      PROVE  \A r \in rx'[n] : \E t \in slots :
               /\ t.seq = r.seq /\ t.item = r.item /\ t.session = r.session
               /\ r.state = "COMMITTED" => t.state = "COMMITTED"
  <2> DEFINE new == [s EXCEPT !.state = state]
  <2>1. /\ new.seq = s.seq /\ new.item = s.item /\ new.session = s.session
        /\ new.state # "COMMITTED"
    BY <1>1, <1>3 DEF RxSlot
  <2>2. rx'[n] = (slots \ {s}) \cup {new}
    BY <1>1, <1>3
  <2> HIDE DEF new
  <2> QED
    BY <2>1, <2>2
<1> QED
  BY <1>2, <1>3 DEF DeliverOrdered, Ready

\* The three kinds of step.
LEMMA OwnReceiver ==
    ASSUME TypeOK, NEW n \in Node,
           \/ TxTask(n) \/ HandleFrame(n) \/ ServiceRx(n) \/ RecoveryTick(n)
           \/ Application(n)
    PROVE  Received(n) \/ Adopted(n) \/ Renewed(n)
<1> DEFINE f == Head(rawq[n])
<1>1. /\ rx \in [Node -> SUBSET RxSlot] /\ rxBase \in [Node -> Nat]
      /\ session \in [Node -> Nat] /\ committed \in [Node -> SUBSET Item]
  BY DEF TypeOK
<1>2. ASSUME rx'[n] = rx[n], rxBase'[n] = rxBase[n], peerSession'[n] = peerSession[n],
             committed'[n] = committed[n], session'[n] = session[n]
      PROVE  Received(n)
  BY <1>2 DEF Received, HeldFrom, BaseFrom
<1>3. CASE TxTask(n) \/ RecoveryTick(n) \/ Send(n) \/ Recover(n)
  BY ZenonT(60), <1>2, <1>3 DEF TxTask, SendControl, AllocateSlot, SendSlot, SendFrame, SendHello, LinkDown,
     RecoveryTick, ResyncRetry, ResyncExhausted, GapTimeout, Send, Recover, recvVars, history,
     sendVars
<1>4. CASE HandleFrame(n)
  <2>1. rawq[n] \in Seq(Frame) /\ rawq[n] # <<>>
    BY <1>4 DEF TypeOK, HandleFrame, RejectFrame, ReceiveAck, ReceiveHello, ReceiveData,
       ReceiveRequest, ReceiveReply, TakeFrame
  <2>2. f \in Air(n)
    <3>1. 1 \in DOMAIN rawq[n] /\ f = rawq[n][1]
      BY <2>1
    <3> QED
      BY <3>1 DEF Air, Members
  <2>3. UNCHANGED committed
    BY <1>4 DEF HandleFrame, RejectFrame, ReceiveAck, ReceiveHello, ReceiveData,
       ReceiveRequest, ReceiveReply, history
  <2>4. CASE ReceiveData(n)
    <3>1. /\ UNCHANGED <<session, peerSession, rxBase>> /\ IsData(f) /\ f.session = peerSession[n]
          /\ UNCHANGED rx \/ rx' = [rx EXCEPT ![n] = @ \cup {NewRxSlot(n, f)}]
      BY <2>4 DEF ReceiveData, StoreData, RefuseData, TakeFrame, Accepts, IsData
    <3> DEFINE new == NewRxSlot(n, f)
    <3>2. new.seq = f.body.seq /\ new.item = f.body.item /\ new.state = "RECEIVED"
      BY DEF NewRxSlot
    <3>3. CASE UNCHANGED rx
      BY <1>2, <2>3, <3>1, <3>3
    <3>4. CASE rx' = [rx EXCEPT ![n] = @ \cup {new}]
      <4>1. rx'[n] = rx[n] \cup {new}
        BY <1>1, <3>4
      <4>2. f \in Accepted(n)
        BY <2>2, <3>1 DEF Accepted
      <4> HIDE DEF new, f
      <4>3. HeldFrom(rx'[n], rx[n], committed'[n], Accepted(n))
        BY <3>1, <3>2, <4>1, <4>2 DEF HeldFrom
      <4> QED
        BY <2>3, <3>1, <4>3 DEF Received, BaseFrom
    <3> QED
      BY <3>1, <3>3, <3>4
  <2>5. CASE RejectFrame(n) \/ ReceiveAck(n)
    BY <1>2, <2>3, <2>5 DEF RejectFrame, ReceiveAck, recvVars, sendVars
  <2>6. ASSUME AdoptSession(n, f), UNCHANGED session PROVE Received(n) \/ Adopted(n)
    BY <1>2, <2>2, <2>3, <2>6 DEF AdoptSession, Adopted, recvVars
  <2>7. ASSUME NEW slots, RotateEpoch(n, slots) PROVE Renewed(n)
    BY <1>1, <2>7 DEF RotateEpoch, Renewed
  <2>8. CASE ReceiveHello(n) \/ ReceiveReply(n)
    BY <2>6, <2>7, <2>8 DEF ReceiveHello, ReceiveReply
  <2>9. CASE ReceiveRequest(n)
    <3>1. \/ UNCHANGED <<session, recvVars>>
          \/ \E slots : RotateEpoch(n, slots)
      BY <2>9, Zenon DEF ReceiveRequest
    <3> QED
      BY <1>2, <2>3, <2>7, <3>1 DEF recvVars
  <2> QED
    BY <1>4, <2>4, <2>5, <2>8, <2>9 DEF HandleFrame
<1>5. CASE ServiceRx(n)
  <2>1. UNCHANGED <<session, peerSession>>
    BY <1>5 DEF ServiceRx, AdvanceCommitted, QueueHeadError, ServiceHead, sendVars
  <2>2. ASSUME NEW slots \in SUBSET rx[n], NEW base, DeliverOrdered(n, slots, base)
        PROVE  HeldFrom(rx'[n], rx[n], committed'[n], Accepted(n))
    BY <2>2, DeliverKeeps DEF HeldFrom
  <2>3. ASSUME NEW head \in HeadSlot(n), RetireHead(n, head),
               head.state = "COMMITTED" \/ head.item \in committed'[n],
               committed[n] \subseteq committed'[n]
        PROVE  Received(n)
    <3>1. HeldFrom(rx'[n], rx[n], committed'[n], Accepted(n))
      BY <2>2, <2>3 DEF RetireHead
    <3>2. rxBase'[n] = rxBase[n] + 1
      BY <1>1, <2>3 DEF RetireHead
    <3>3. BaseFrom(rxBase'[n], rxBase[n], rx[n], committed'[n])
      BY <2>3, <3>2 DEF BaseFrom, HeadSlot
    <3> QED
      BY <2>1, <2>3, <3>1, <3>3 DEF Received
  <2>4. CASE AdvanceCommitted(n)
    BY <2>3, <2>4 DEF AdvanceCommitted
  <2>5. CASE QueueHeadError(n)
    <3>1. PICK head \in HeadSlot(n) :
            committed' = [committed EXCEPT ![n] = @ \cup {head.item}] /\ RetireHead(n, head)
      BY <2>5 DEF QueueHeadError
    <3>2. committed'[n] = committed[n] \cup {head.item}
      BY <1>1, <3>1
    <3> QED
      BY <2>3, <3>1, <3>2
  <2>6. CASE ServiceHead(n)
    <3>1. UNCHANGED <<rxBase, committed>>
      BY <2>6 DEF ServiceHead
    <3>2. ASSUME NEW s \in HeadSlot(n),
                 rx' = [rx EXCEPT ![n] = (@ \ {s}) \cup {[s EXCEPT !.state = "ERROR_PENDING"]}]
          PROVE  HeldFrom(rx'[n], rx[n], committed'[n], Accepted(n))
      <4> DEFINE new == [s EXCEPT !.state = "ERROR_PENDING"]
      <4>1. s \in rx[n] /\ s \in RxSlot
        BY <1>1 DEF HeadSlot
      <4>2. new.seq = s.seq /\ new.item = s.item /\ new.state # "COMMITTED"
        BY <4>1 DEF RxSlot
      <4>3. rx'[n] = (rx[n] \ {s}) \cup {new}
        BY <1>1, <3>2
      <4> HIDE DEF new
      <4> QED
        BY <4>1, <4>2, <4>3 DEF HeldFrom
    <3>3. HeldFrom(rx'[n], rx[n], committed'[n], Accepted(n))
      BY <2>2, <2>6, <3>2 DEF ServiceHead
    <3> QED
      BY <2>1, <3>1, <3>3 DEF Received, BaseFrom
  <2> QED
    BY <1>5, <2>4, <2>5, <2>6 DEF ServiceRx
<1>6. CASE CompleteRx(n)
  <2> DEFINE slots == Completes(n, Head(work[n]))
             moved(state) == {[s EXCEPT !.state = state] : s \in slots}
             chosen(state) == {t \in slots : state = "COMMITTED"}
             done(state) == {s.item : s \in chosen(state)}
  <2>7. PICK state \in {"COMMITTED", "ERROR_PENDING"} :
          /\ rx' = [rx EXCEPT ![n] = (@ \ slots)
                                     \cup {[s EXCEPT !.state = state] : s \in slots}]
          /\ committed' = [committed EXCEPT ![n] =
                @ \cup {s.item : s \in {t \in slots : state = "COMMITTED"}}]
    BY <1>6, Zenon DEF CompleteRx
  <2>1. /\ rx' = [rx EXCEPT ![n] = (@ \ slots) \cup moved(state)]
        /\ committed' = [committed EXCEPT ![n] = @ \cup done(state)]
    BY <2>7
  <2>2. slots \subseteq rx[n] /\ \A s \in slots : s \in RxSlot
    BY <1>1 DEF Completes
  <2>3. \A u \in moved(state) : \E t \in slots :
          t.seq = u.seq /\ t.item = u.item /\ (u.state # "COMMITTED" \/ u.item \in done(state))
    <3> TAKE u \in moved(state)
    <3>1. PICK t \in slots : u = [t EXCEPT !.state = state]
      OBVIOUS
    <3>2. u.seq = t.seq /\ u.item = t.item /\ u.state = state
      BY <2>2, <2>7, <3>1 DEF RxSlot
    <3>3. ASSUME state = "COMMITTED" PROVE t.item \in done(state)
      <4>1. t \in chosen(state)
        BY <3>3
      <4> HIDE DEF chosen
      <4> QED
        BY <4>1
    <3> QED
      BY <3>2, <3>3
  <2>4. UNCHANGED <<session, peerSession, rxBase>>
    BY <1>6 DEF CompleteRx, sendVars
  <2> HIDE DEF slots, moved, done
  <2>5. /\ rx'[n] = (rx[n] \ slots) \cup moved(state)
        /\ committed'[n] = committed[n] \cup done(state)
    BY <1>1, <2>1
  <2>6. HeldFrom(rx'[n], rx[n], committed'[n], Accepted(n))
    BY <2>2, <2>3, <2>5 DEF HeldFrom
  <2> QED
    BY <2>4, <2>5, <2>6 DEF Received, BaseFrom
<1>7. CASE Restart(n)
  BY <1>1, <1>7 DEF Restart, Renewed
<1> QED
  BY <1>3, <1>4, <1>5, <1>6, <1>7 DEF Application

\* What a step of any node does to what was acknowledged to m.
LEMMA AckedGrows ==
    ASSUME TypeOK, NEW n \in Node,
           \/ TxTask(n) \/ HandleFrame(n) \/ ServiceRx(n) \/ RecoveryTick(n)
           \/ Application(n),
           NEW m \in Node
    PROVE  \/ acked'[m] = acked[m]
           \/ /\ m = n
              /\ \E f \in Air(n) :
                    acked'[n] = acked[n] \cup {s.item : s \in AckedSlots(n, f)}
<1>1. acked \in [Node -> SUBSET Item] /\ rawq[n] \in Seq(Frame)
  BY DEF TypeOK
<1>2. CASE UNCHANGED acked
  BY <1>2
<1>3. ASSUME NEW type, TakeFrame(n, type)
      PROVE  \/ acked'[m] = acked[m]
             \/ /\ m = n
                /\ \E f \in Air(n) :
                      acked'[n] = acked[n] \cup {s.item : s \in AckedSlots(n, f)}
  <2> DEFINE f == Head(rawq[n])
             items == {s.item : s \in AckedSlots(n, f)}
  <2>1. f \in Air(n)
    <3>1. 1 \in DOMAIN rawq[n] /\ f = rawq[n][1]
      BY <1>1, <1>3 DEF TakeFrame
    <3> QED
      BY <3>1 DEF Air, Members
  <2>2. acked' = [acked EXCEPT ![n] = @ \cup items]
    BY <1>3 DEF TakeFrame
  <2>3. m # n => acked'[m] = acked[m]
    BY <1>1, <2>2
  <2>4. acked'[n] = acked[n] \cup items
    BY SMTT(30), <1>1, <2>2
  <2> QED
    BY <2>1, <2>3, <2>4
<1>4. CASE HandleFrame(n)
  BY <1>2, <1>3, <1>4 DEF HandleFrame, RejectFrame, ReceiveAck, ReceiveHello, ReceiveData,
     ReceiveRequest, ReceiveReply, history
<1>5. CASE TxTask(n) \/ RecoveryTick(n)
  BY <1>2, <1>5 DEF TxTask, SendControl, AllocateSlot, SendSlot, SendFrame, SendHello, LinkDown,
     RecoveryTick, ResyncRetry, ResyncExhausted, GapTimeout, history
<1>6. CASE ServiceRx(n) \/ Application(n)
  BY <1>2, <1>6 DEF ServiceRx, AdvanceCommitted, QueueHeadError, ServiceHead, Application, Send,
     CompleteRx, Recover, Restart, history
<1> QED
  BY <1>4, <1>5, <1>6

\* An adopted session is no change while both boards are in their first: only
\* the first session is on the air, so the peer was not followed yet.
LEMMA FirstAdoption ==
    ASSUME TypeOK, NEW n \in Node, Greeted(n), \A f \in Air(n) : f.session = 1, Adopted(n)
    PROVE  /\ rx'[n] = rx[n] /\ rxBase'[n] = rxBase[n] /\ committed'[n] = committed[n]
           /\ Greeted(n)'
<1>1. PICK f \in Air(n) : f.session # peerSession[n] /\ ResetRx(n, f.session)
  BY DEF Adopted
<1>2. /\ peerSession \in [Node -> Nat] /\ rx \in [Node -> SUBSET RxSlot]
      /\ rxBase \in [Node -> Nat] /\ f.session = 1
  BY DEF TypeOK
<1>3. rx[n] = {} /\ rxBase[n] = 0
  BY <1>1, <1>2 DEF Greeted
<1>4. peerSession'[n] = 1 /\ rx'[n] = {} /\ rxBase'[n] = 0
  BY <1>1, <1>2 DEF ResetRx
<1> QED
  BY <1>3, <1>4 DEF Greeted, Adopted

\* A step of the receiver.
LEMMA ReceiverDirection ==
    ASSUME TypeOK, NEW n \in Node, DirectionAt(n), Greeted(Peer[n]),
           \A f \in Air(Peer[n]) : f.session = 1,
           Received(Peer[n]) \/ Adopted(Peer[n])
    PROVE  Direction(tx[n], nextSeq[n], rxBase'[Peer[n]], rx'[Peer[n]], committed'[Peer[n]],
                     Air(Peer[n]), Air(n))
<1> DEFINE p == Peer[n]
<1>1. p \in Node
  BY NodeAssumption
<1>2. CASE Adopted(p)
  BY <1>1, <1>2, FirstAdoption DEF DirectionAt
<1>3. CASE Received(p)
  <2>1. /\ committed[p] \subseteq committed'[p]
        /\ HeldFrom(rx'[p], rx[p], committed'[p], Accepted(p))
        /\ BaseFrom(rxBase'[p], rxBase[p], rx[p], committed'[p])
    BY <1>3 DEF Received
  <2>2. HeldFrom(rx'[p], rx[p], committed'[p], Air(p))
    BY <2>1 DEF HeldFrom, Accepted
  <2>3. tx[n] \in SUBSET TxSlot /\ nextSeq[n] \in Nat /\ rxBase[p] \in Nat
    BY <1>1 DEF TypeOK
  <2>4. Direction(tx[n], nextSeq[n], rxBase[p], rx[p], committed[p], Air(p), Air(n))
    BY DEF DirectionAt
  <2> HIDE DEF p
  <2>5. Direction(tx[n], nextSeq[n], rxBase'[p], rx'[p], committed'[p], Air(p), Air(n))
    BY <2>1, <2>2, <2>3, <2>4, DirectionReceives
  <2> QED
    BY <2>5 DEF p
<1> QED
  BY <1>2, <1>3

\* A received frame, or an adoption, leaves the node greeted.
LEMMA StepGreeted ==
    ASSUME TypeOK, NEW n \in Node, Greeted(n), \A f \in Air(n) : f.session = 1,
           Received(n) \/ Adopted(n)
    PROVE  Greeted(n)'
<1>1. CASE Adopted(n)
  BY <1>1, FirstAdoption
<1>2. CASE Received(n)
  <2>1. peerSession'[n] = peerSession[n]
    BY <1>2 DEF Received
  <2>2. ASSUME peerSession[n] = 0 PROVE rx'[n] = {} /\ rxBase'[n] = 0
    <3>1. Accepted(n) = {} /\ rx[n] = {} /\ rxBase[n] = 0
      BY <2>2 DEF Accepted, Greeted
    <3> QED
      BY <1>2, <3>1 DEF Received, HeldFrom, BaseFrom
  <2> QED
    BY <2>1, <2>2 DEF Greeted
<1> QED
  BY <1>1, <1>2

\* A step of tx_task puts data of the slots, or no data, on the air, with the
\* acknowledgement of the sender's own receive side.
LEMMA TxTaskAir ==
    ASSUME TypeOK, NEW n \in Node, TxTask(n), NEW m \in Node
    PROVE  \/ Air(m)' = Air(m)
           \/ /\ m = Peer[n]
              /\ \E f \in Frame :
                    /\ Air(m)' = Air(m) \cup {f}
                    /\ f.session = session[n] /\ f.ackBase = rxBase[n] /\ f.ackBits = AckBits(n)
                    /\ \/ ~IsData(f)
                       \/ \E s \in tx[n] : f.body.seq = s.seq /\ f.body.item = s.item
<1>1. CASE UNCHANGED rawq
  BY <1>1 DEF Air
<1>2. ASSUME NEW body \in Control \cup {Hello} \cup Data, PhysicalSend(n, body),
             \/ body.type # "DATA"
             \/ \E s \in tx[n] : body = [type |-> "DATA", seq |-> s.seq, item |-> s.item]
      PROVE  \/ Air(m)' = Air(m)
             \/ /\ m = Peer[n]
                /\ \E f \in Frame :
                    /\ Air(m)' = Air(m) \cup {f}
                    /\ f.session = session[n] /\ f.ackBase = rxBase[n] /\ f.ackBits = AckBits(n)
                    /\ \/ ~IsData(f)
                       \/ \E s \in tx[n] : f.body.seq = s.seq /\ f.body.item = s.item
  <2> DEFINE f == SentFrame(n, body)
  <2>1. /\ f \in Frame /\ f.body = body /\ f.session = session[n] /\ f.ackBase = rxBase[n]
        /\ f.ackBits = AckBits(n)
    BY SentFrameType DEF SentFrame
  <2>2. ~IsData(f) \/ \E s \in tx[n] : f.body.seq = s.seq /\ f.body.item = s.item
    BY <1>2, <2>1 DEF IsData
  <2>3. Air(m)' = Air(m) \/ (m = Peer[n] /\ Air(m)' = Air(m) \cup {f})
    BY <1>2, AirSend
  <2> HIDE DEF f
  <2> QED
    BY <2>1, <2>2, <2>3
<1> QED
  BY <1>1, <1>2, TxTaskSends

\* Every step that stays in the first session keeps every direction.
LEMMA StepDirection ==
    ASSUME TypeOK, NEW k \in Node,
           \/ TxTask(k) \/ HandleFrame(k) \/ ServiceRx(k) \/ RecoveryTick(k)
           \/ Application(k),
           ~Renewed(k),
           \A m \in Node : Greeted(m) /\ \A f \in Air(m) : f.session = 1,
           NEW n \in Node, DirectionAt(n)
    PROVE  DirectionAt(n)'
<1> DEFINE p == Peer[n]
           D(slots, next, inc, out) ==
               Direction(slots, next, rxBase[p], rx[p], committed[p], inc, out)
<1>1. p \in Node /\ p # n /\ Peer[p] = n /\ Peer[k] \in Node /\ Peer[Peer[k]] = k
  BY NodeAssumption
<1>2. /\ tx[n] \in SUBSET TxSlot /\ nextSeq[n] \in Nat /\ rxBase[p] \in Nat
      /\ rx[p] \in SUBSET RxSlot
  BY <1>1 DEF TypeOK
<1>3. D(tx[n], nextSeq[n], Air(p), Air(n))
  BY DEF DirectionAt
<1>4. k # n => session'[n] = session[n] /\ nextSeq'[n] = nextSeq[n] /\ tx'[n] = tx[n]
  BY OtherSender
<1>5. k # p => rx'[p] = rx[p] /\ rxBase'[p] = rxBase[p] /\ committed'[p] = committed[p]
  BY <1>1, OtherReceiver
<1>6. CASE k = n
  <2>1. k # p
    BY <1>1, <1>6
  <2>2. Air(n)' \subseteq Air(n)
    <3>1. TxTask(k) => Air(n)' = Air(n)
      BY <1>1, <1>6, TxTaskAir
    <3> QED
      BY <3>1, AirShrinks
  <2>3. D(tx[n], nextSeq[n], Air(p)', Air(n)')
    <3>1. CASE Air(p)' \subseteq Air(p)
      BY <1>3, <2>2, <3>1, DirectionShrinks
    <3>2. ASSUME NEW f, Air(p)' = Air(p) \cup {f},
                 ~IsData(f) \/ \E s \in tx[n] : f.body.seq = s.seq /\ f.body.item = s.item
          PROVE  D(tx[n], nextSeq[n], Air(p)', Air(n)')
      <4>1. D(tx[n], nextSeq[n], Air(p) \cup {f}, Air(n))
        BY <1>3, <3>2, DirectionSends
      <4> QED
        BY <2>2, <3>2, <4>1, DirectionShrinks
    <3> QED
      BY <1>1, <1>6, <3>1, <3>2, TxTaskAir, AirShrinks
  <2>4. D(tx'[n], nextSeq'[n], Air(p)', Air(n)')
    <3>1. ASSUME NEW slots \in SUBSET tx[n], SameFrames(tx'[n], slots),
                 nextSeq'[n] = nextSeq[n]
          PROVE  D(tx'[n], nextSeq'[n], Air(p)', Air(n)')
      BY <2>3, <3>1, DirectionKept DEF SameFrames
    <3>2. CASE SlotsKept(n)
      BY <3>1, <3>2 DEF SlotsKept
    <3>3. CASE SlotAdded(n)
      <4>1. PICK new : tx'[n] = tx[n] \cup {new} /\ new.seq = nextSeq[n]
        BY <3>3 DEF SlotAdded
      <4>2. nextSeq'[n] = nextSeq[n] + 1 /\ rawq' = rawq
        BY <3>3 DEF SlotAdded
      <4>3. Air(p)' = Air(p) /\ Air(n)' = Air(n)
        BY <4>2 DEF Air
      <4>4. Air(p) \subseteq Frame /\ Air(n) \subseteq Frame
        BY <1>1, AirType
      <4> QED
        BY <1>2, <1>3, <4>1, <4>2, <4>3, <4>4, DirectionAdded
    <3>4. ~SlotsDropped(n)
      BY <1>6 DEF SlotsDropped, Renewed
    <3> QED
      BY <1>6, <3>2, <3>3, <3>4, OwnSender
  <2> QED
    BY <1>5, <2>1, <2>4 DEF DirectionAt
<1>7. CASE k = p
  <2>1. k # n
    BY <1>1, <1>7
  <2>2. Received(p) \/ Adopted(p)
    BY <1>7, OwnReceiver
  <2>3. Direction(tx[n], nextSeq[n], rxBase'[p], rx'[p], committed'[p], Air(p), Air(n))
    BY <1>1, <2>2, ReceiverDirection
  <2>4. CASE TxTask(k)
    <3>1. rx'[p] = rx[p] /\ rxBase'[p] = rxBase[p] /\ committed'[p] = committed[p]
      BY <2>4, <1>7 DEF TxTask, SendControl, AllocateSlot, SendSlot, SendFrame, SendHello,
         LinkDown, recvVars, history
    <3>2. Air(p)' = Air(p)
      BY <1>1, <1>7, <2>4, TxTaskAir
    <3>3. CASE Air(n)' = Air(n)
      BY <1>4, <2>1, <2>3, <3>2, <3>3 DEF DirectionAt
    <3>4. ASSUME NEW f, Air(n)' = Air(n) \cup {f}, f.ackBase = rxBase[p],
                 f.ackBits = AckBits(p)
          PROVE  DirectionAt(n)'
      <4>1. \A q \in f.ackBits : \E r \in rx[p] : r.state = "COMMITTED" /\ r.seq = q
        BY <3>4 DEF AckBits
      <4>2. D(tx[n], nextSeq[n], Air(p), Air(n) \cup {f})
        BY <1>3, <3>4, <4>1, DirectionAcks
      <4> QED
        BY <1>4, <2>1, <3>1, <3>2, <3>4, <4>2 DEF DirectionAt
    <3> QED
      BY <1>7, <2>4, <3>3, <3>4, TxTaskAir
  <2>5. CASE ~TxTask(k)
    <3>1. Air(p)' \subseteq Air(p) /\ Air(n)' \subseteq Air(n)
      BY <1>1, <2>5, AirShrinks
    <3> QED
      BY <1>4, <2>1, <2>3, <3>1, DirectionShrinks DEF DirectionAt
  <2> QED
    BY <2>4, <2>5
<1>8. CASE k # n /\ k # p
  <2>1. Air(p)' \subseteq Air(p) /\ Air(n)' \subseteq Air(n)
    BY <1>1, <1>8, TxTaskAir, AirShrinks
  <2> QED
    BY <1>3, <1>4, <1>5, <1>8, <2>1, DirectionShrinks DEF DirectionAt
<1> QED
  BY <1>6, <1>7, <1>8

\* Every step keeps the invariant of the first session.
LEMMA StepFirst == TypeOK /\ FirstInv /\ [Next]_vars => FirstInv'
<1> SUFFICES ASSUME TypeOK, FirstInv, [Next]_vars PROVE FirstInv'
  OBVIOUS
<1>1. CASE UNCHANGED vars
  BY <1>1 DEF vars, sendVars, recvVars, history, FirstInv, FirstSessions, Greeted, DirectionAt,
     Air
<1>2. ASSUME NEW k \in Node,
             \/ TxTask(k) \/ HandleFrame(k) \/ ServiceRx(k) \/ RecoveryTick(k)
             \/ Application(k)
      PROVE  FirstInv'
  <2>1. \A n \in Node : session'[n] = session[n] \/ (n = k /\ Renewed(k))
    <3>1. \A n \in Node : n # k => session'[n] = session[n]
      BY <1>2, OtherSender
    <3>2. session'[k] = session[k] \/ Renewed(k)
      BY <1>2, OwnSender DEF SlotsKept, SlotAdded, SlotsDropped, Renewed
    <3> QED
      BY <3>1, <3>2
  <2>2. \A n \in Node : session[n] \in Nat /\ session[n] >= 1
    BY DEF TypeOK, FirstInv
  <2>3. \A n \in Node : session'[n] >= 1
    BY <2>1, <2>2 DEF Renewed
  <2>4. ASSUME FirstSessions' PROVE FirstSessions /\ ~Renewed(k)
    BY <2>1, <2>2, <2>4 DEF FirstSessions, Renewed
  <2>5. ASSUME FirstSessions', NEW n \in Node
        PROVE  /\ Greeted(n)' /\ DirectionAt(n)'
               /\ \A f \in Air(n)' : f.session = 1
               /\ acked'[n] \subseteq committed'[Peer[n]]
    <3>1. /\ FirstSessions /\ ~Renewed(k)
          /\ \A m \in Node : /\ Greeted(m) /\ DirectionAt(m)
                             /\ \A f \in Air(m) : f.session = 1
                             /\ acked[m] \subseteq committed[Peer[m]]
      BY <2>4, <2>5 DEF FirstInv
    <3>2. Received(k) \/ Adopted(k)
      BY <1>2, <3>1, OwnReceiver
    <3>3. Greeted(n)'
      <4>1. CASE n = k
        BY <3>1, <3>2, <4>1, StepGreeted
      <4>2. CASE n # k
        <5>1. rx'[n] = rx[n] /\ rxBase'[n] = rxBase[n] /\ peerSession'[n] = peerSession[n]
          BY <1>2, <4>2, OtherReceiver
        <5> QED
          BY <3>1, <5>1 DEF Greeted
      <4> QED
        BY <4>1, <4>2
    <3>4. DirectionAt(n)'
      BY <1>2, <3>1, StepDirection
    <3>5. \A f \in Air(n)' : f.session = 1
      BY <1>2, <3>1, TxTaskAir, AirShrinks DEF FirstSessions
    <3>6. committed[Peer[n]] \subseteq committed'[Peer[n]]
      <4>1. Peer[n] \in Node
        BY NodeAssumption
      <4>2. CASE Peer[n] = k
        BY <3>2, <4>2 DEF Received, Adopted
      <4>3. CASE Peer[n] # k
        BY <1>2, <4>1, <4>3, OtherReceiver
      <4> QED
        BY <4>2, <4>3
    <3>7. acked'[n] \subseteq committed[Peer[n]]
      <4>1. \A f \in Air(n) : {s.item : s \in AckedSlots(n, f)} \subseteq committed[Peer[n]]
        BY <3>1 DEF DirectionAt, Direction, Done, Acknowledges, AckedSlots
      <4> QED
        BY <1>2, <3>1, <4>1, AckedGrows
    <3> QED
      BY <3>3, <3>4, <3>5, <3>6, <3>7
  <2> QED
    BY <2>3, <2>5 DEF FirstInv
<1>3. CASE Next
  BY <1>2, <1>3 DEF Next
<1> QED
  BY <1>1, <1>3

\* Nothing is held, sent or acknowledged after datlink_transport_init.
LEMMA InitFirst == Init => FirstInv
<1> SUFFICES ASSUME Init PROVE FirstInv
  OBVIOUS
<1>1. /\ \A n \in Node : Peer[n] \in Node
      /\ \A n \in Node : /\ session[n] = 1 /\ tx[n] = {} /\ nextSeq[n] = 1 /\ rxBase[n] = 0
                         /\ rx[n] = {} /\ acked[n] = {} /\ peerSession[n] = 0 /\ Air(n) = {}
  BY NodeAssumption DEF Init, Air, Members
<1>2. ASSUME NEW n \in Node PROVE DirectionAt(n)
  BY <1>1 DEF DirectionAt, Direction, Below, SameItem, Done
<1>3. ASSUME NEW n \in Node PROVE Greeted(n)
  BY <1>1 DEF Greeted
<1> QED
  BY <1>1, <1>2, <1>3 DEF FirstInv

\* While both boards are in their first session an acknowledgement never runs
\* ahead: what a sender lets go of was committed by the receiver.
THEOREM AcksNeverRunAhead == Spec => []AckedWereCommitted
<1>1. FirstInv => AckedWereCommitted
  BY DEF FirstInv, FirstSessions, AckedWereCommitted
<1> QED
  BY <1>1, InitFirst, StepFirst, TypeCorrect, PTL DEF Spec

-----------------------------------------------------------------------------
(***************************************************************************)
(* Without a manual recovery no command runs twice in one boot.  Every     *)
(* command is bound to one session and sequence of its sender, wherever it *)
(* is carried; the sessions a receiver follows only grow, because frames   *)
(* arrive in order and only a manual recovery makes it forget its peer; so *)
(* its generations are sessions, and InOrder keeps them apart.             *)
(***************************************************************************)
IsCommand(item) == item.type = "COMMAND"

\* Where the commands of n's peer are: its slots, the air, n's slots, n's log.
Bind(ses, seq, item) == [session |-> ses, seq |-> seq, item |-> item]
SentBinds(n) == {Bind(session[Peer[n]], s.seq, s.item) : s \in tx[Peer[n]]}
AirBinds(n) == {Bind(f.session, f.body.seq, f.body.item) : f \in {g \in Air(n) : IsData(g)}}
HeldBinds(n) == {Bind(s.session, s.seq, s.item) : s \in rx[n]}
RunBinds(n) == {Bind(t.session, t.seq, t.item) : t \in Members(runs[n])}
Carried(n) == SentBinds(n) \cup AirBinds(n) \cup HeldBinds(n) \cup RunBinds(n)

\* No recovery was asked for by the user.
GapOnly(controls) == \A c \in controls : c.type = "RESYNC_REQUEST" => c.reason = "GAP"
AutomaticAt(n) ==
    /\ recovery[n].reason = "GAP"
    /\ GapOnly(Members(ctrlq[n]))
    /\ GapOnly({f.body : f \in Air(n)})

\* The sessions on the air to n, and the one it follows, grow.
Sorted(q) == \A i, j \in DOMAIN q : i < j => q[i].session <= q[j].session
MonotoneAt(n) ==
    /\ peerSession[n] <= session[Peer[n]]
    /\ \A f \in Air(n) : peerSession[n] <= f.session /\ f.session <= session[Peer[n]]
    /\ Sorted(rawq[n])

\* A generation of n is a session of its peer.
SessionPerGen(q, gen, peer) ==
    /\ \A i \in DOMAIN q : \/ q[i].gen = gen /\ q[i].session = peer
                           \/ q[i].gen < gen /\ q[i].session < peer
    /\ \A i, j \in DOMAIN q : q[i].gen < q[j].gen => q[i].session < q[j].session
RunsAt(n) == SessionPerGen(runs[n], rxGen[n], peerSession[n])

\* A command is waiting at most once, or carried under one session and sequence.
Distinct(q) == \A i, j \in DOMAIN q : IsCommand(q[i]) /\ q[i] = q[j] => i = j
Issued(items, last) == \A x \in items : IsCommand(x) => x.id <= last
OneBind(binds) == \A a, b \in binds : IsCommand(a.item) /\ a.item = b.item
                                        => a.session = b.session /\ a.seq = b.seq
BindAt(n) ==
    /\ OneBind(Carried(n))
    /\ Issued({b.item : b \in Carried(n)}, issued[Peer[n]])
    /\ \A b \in Carried(n) : IsCommand(b.item) => b.item \notin Members(txq[Peer[n]])
    /\ Distinct(txq[n]) /\ Issued(Members(txq[n]), issued[n])

OnceInv == \A n \in Node : AutomaticAt(n) /\ MonotoneAt(n) /\ RunsAt(n) /\ BindAt(n)

\* The members of a queue that lost its head, kept only its head, or is empty.
LEMMA MembersShrink ==
    ASSUME NEW S, NEW q \in Seq(S)
    PROVE  /\ Members(<<>>) = {}
           /\ q # <<>> => Members(Tail(q)) \subseteq Members(q)
           /\ q # <<>> => Members(<<Head(q)>>) = {Head(q)} /\ Head(q) \in Members(q)
<1>1. Members(<<>>) = {}
  BY DEF Members
<1>2. q # <<>> => Members(Tail(q)) \subseteq Members(q)
  BY AirTail
<1>3. ASSUME q # <<>> PROVE Members(<<Head(q)>>) = {Head(q)} /\ Head(q) \in Members(q)
  <2>1. DOMAIN <<Head(q)>> = {1} /\ <<Head(q)>>[1] = Head(q)
    OBVIOUS
  <2>2. 1 \in DOMAIN q /\ Head(q) = q[1]
    BY <1>3
  <2> QED
    BY <2>1, <2>2 DEF Members
<1> QED
  BY <1>1, <1>2, <1>3

\* Commands stay distinct when the queue shrinks or takes another item.
LEMMA DistinctKept ==
    ASSUME NEW S, NEW q \in Seq(S), Distinct(q)
    PROVE  /\ Distinct(<<>>)
           /\ q # <<>> => Distinct(Tail(q)) /\ Distinct(<<Head(q)>>)
           /\ q # <<>> /\ IsCommand(Head(q)) => Head(q) \notin Members(Tail(q))
           /\ \A x \in S : ~IsCommand(x) \/ x \notin Members(q) => Distinct(Append(q, x))
<1>1. Distinct(<<>>)
  BY DEF Distinct
<1>2. ASSUME q # <<>>
      PROVE  /\ Distinct(Tail(q)) /\ Distinct(<<Head(q)>>)
             /\ IsCommand(Head(q)) => Head(q) \notin Members(Tail(q))
  <2>1. /\ Len(q) \in Nat \ {0} /\ DOMAIN q = 1 .. Len(q) /\ DOMAIN Tail(q) = 1 .. Len(q) - 1
        /\ \A i \in 1 .. Len(q) - 1 : Tail(q)[i] = q[i + 1] /\ i + 1 \in 1 .. Len(q)
        /\ Head(q) = q[1] /\ DOMAIN <<Head(q)>> = {1}
    BY <1>2
  <2>2. \A i, j \in 1 .. Len(q) : IsCommand(q[i]) /\ q[i] = q[j] => i = j
    BY <2>1 DEF Distinct
  <2>3. ASSUME NEW i \in 1 .. Len(q) - 1, NEW j \in 1 .. Len(q) - 1,
               IsCommand(Tail(q)[i]), Tail(q)[i] = Tail(q)[j]
        PROVE  i = j
    <3>1. i + 1 = j + 1
      BY <2>1, <2>2, <2>3
    <3> QED
      BY <2>1, <3>1
  <2>4. ASSUME NEW i \in 1 .. Len(q) - 1, IsCommand(Head(q)), Tail(q)[i] = Head(q)
        PROVE  FALSE
    <3>1. 1 = i + 1
      BY <2>1, <2>2, <2>4
    <3> QED
      BY <2>1, <3>1
  <2> QED
    BY <2>1, <2>3, <2>4 DEF Distinct, Members
<1>3. ASSUME NEW x \in S, ~IsCommand(x) \/ x \notin Members(q) PROVE Distinct(Append(q, x))
  <2>1. /\ Len(q) \in Nat /\ DOMAIN q = 1 .. Len(q) /\ DOMAIN Append(q, x) = 1 .. Len(q) + 1
        /\ \A i \in 1 .. Len(q) : Append(q, x)[i] = q[i]
        /\ Append(q, x)[Len(q) + 1] = x
    OBVIOUS
  <2>2. \A i \in 1 .. Len(q) : IsCommand(q[i]) => q[i] # x
    BY <1>3, <2>1 DEF Members
  <2> QED
    BY <2>1, <2>2 DEF Distinct
<1> QED
  BY <1>1, <1>2, <1>3
-----------------------------------------------------------------------------
(* Only gaps start a recovery. *)

\* What a full or free control queue holds after one more message.
LEMMA EnqueueMembers ==
    ASSUME NEW q \in Seq(Control), NEW c \in Control
    PROVE  Members(Enqueue(q, c)) \subseteq Members(q) \cup {c}
  BY AirAppend DEF Enqueue

\* Every control message a step queues is no request of a user.
LEMMA StepControls ==
    ASSUME TypeOK, Operators = {}, NEW k \in Node,
           \/ TxTask(k) \/ HandleFrame(k) \/ ServiceRx(k) \/ RecoveryTick(k)
           \/ Application(k),
           \A n \in Node : AutomaticAt(n),
           NEW n \in Node
    PROVE  recovery'[n].reason = "GAP" /\ GapOnly(Members(ctrlq'[n]))
<1>1. /\ recovery \in [Node -> Recovery] /\ ctrlq \in [Node -> Seq(Control)]
      /\ ctrlq[k] \in Seq(Control) /\ recovery[k] \in Recovery
  BY DEF TypeOK
<1>2. /\ recovery[n].reason = "GAP" /\ GapOnly(Members(ctrlq[n]))
      /\ recovery[k].reason = "GAP" /\ GapOnly(Members(ctrlq[k]))
  BY DEF AutomaticAt
<1>3. ASSUME recovery' = recovery \/ recovery'[n] = recovery[n]
      PROVE  recovery'[n].reason = "GAP"
  BY <1>2, <1>3
<1>4. ASSUME NEW r \in Recovery, r.reason = "GAP", recovery' = [recovery EXCEPT ![k] = r]
      PROVE  recovery'[n].reason = "GAP"
  BY <1>1, <1>2, <1>4
<1>5. ASSUME NEW c \in Control, c.type = "RESYNC_REQUEST" => c.reason = "GAP",
             ctrlq' = [ctrlq EXCEPT ![k] = Enqueue(@, c)]
      PROVE  GapOnly(Members(ctrlq'[n]))
  <2>1. n # k => ctrlq'[n] = ctrlq[n]
    BY <1>1, <1>5
  <2>2. ctrlq'[k] = Enqueue(ctrlq[k], c)
    BY <1>1, <1>5
  <2>3. Members(ctrlq'[k]) \subseteq Members(ctrlq[k]) \cup {c}
    BY <1>1, <2>2, EnqueueMembers
  <2> QED
    BY <1>2, <1>5, <2>1, <2>3 DEF GapOnly
<1>6. Ack \in Control /\ Ack.type # "RESYNC_REQUEST"
  BY DEF Ack, Control
<1>7. ASSUME NEW r \in Recovery, r.reason = "GAP"
      PROVE  /\ RequestOf(k, r) \in Control
             /\ RequestOf(k, r).reason = "GAP"
  BY <1>7, RequestType DEF RequestOf
<1>8. ASSUME MayRecover(k)
      PROVE  /\ NewRecovery(k, "GAP", rxBase[k] + 1) \in Recovery
             /\ NewRecovery(k, "GAP", rxBase[k] + 1).reason = "GAP"
  BY <1>8, RecoveryType DEF NewRecovery, Reason
<1>9. /\ [recovery[k] EXCEPT !.retries = @ + 1] \in Recovery
      /\ [recovery[k] EXCEPT !.retries = @ + 1].reason = "GAP"
      /\ [recovery[k] EXCEPT !.active = FALSE] \in Recovery
      /\ [recovery[k] EXCEPT !.active = FALSE].reason = "GAP"
      /\ Ended(recovery[k]) \in Recovery /\ Ended(recovery[k]).reason = "GAP"
  <2>1. recovery[k] \in Recovery /\ recovery[k].retries + 1 \in Nat
    BY <1>1 DEF Recovery
  <2>2. \A r \in Recovery : \A i \in Nat :
          [r EXCEPT !.retries = i] \in Recovery /\ [r EXCEPT !.retries = i].reason = r.reason
    BY DEF Recovery
  <2>3. \A r \in Recovery : /\ [r EXCEPT !.active = FALSE] \in Recovery
                            /\ [r EXCEPT !.active = FALSE].reason = r.reason
                            /\ Ended(r) \in Recovery /\ Ended(r).reason = r.reason
    BY DEF Recovery, Ended
  <2> QED
    BY <1>2, <2>1, <2>2, <2>3
<1>10. CASE TxTask(k)
  <2>1. UNCHANGED recovery
    BY <1>10 DEF TxTask, SendControl, AllocateSlot, SendSlot, SendFrame, SendHello, LinkDown
  <2>2. ctrlq' = ctrlq \/ (ctrlq[k] # <<>> /\ ctrlq' = [ctrlq EXCEPT ![k] = Tail(@)])
    BY <1>10 DEF TxTask, SendControl, AllocateSlot, SendSlot, SendFrame, SendHello, LinkDown
  <2>3. ctrlq[k] # <<>> => Members(Tail(ctrlq[k])) \subseteq Members(ctrlq[k])
    BY <1>1, AirTail
  <2>4. GapOnly(Members(ctrlq'[n]))
    BY <1>1, <1>2, <2>2, <2>3 DEF GapOnly
  <2> QED
    BY <1>3, <2>1, <2>4
<1>11. CASE HandleFrame(k)
  <2> DEFINE f == Head(rawq[k])
             answer(action) == [type |-> "RESYNC_REPLY", nonce |-> f.body.nonce,
                                action |-> action]
  <2>1. CASE RejectFrame(k) \/ ReceiveAck(k)
    BY <1>2, <2>1 DEF RejectFrame, ReceiveAck
  <2>2. CASE ReceiveHello(k)
    BY <1>3, <1>5, <1>6, <2>2 DEF ReceiveHello
  <2>3. CASE ReceiveData(k)
    <3>1. StoreData(k, f) \/ RefuseData(k, f)
      BY <2>3 DEF ReceiveData
    <3> DEFINE r == NewRecovery(k, "GAP", rxBase[k] + 1)
               c == RequestOf(k, r)
    <3>2. CASE /\ MayRecover(k)
               /\ recovery' = [recovery EXCEPT ![k] = r]
               /\ ctrlq' = [ctrlq EXCEPT ![k] = Enqueue(Enqueue(@, c), Ack)]
      <4>1. recovery'[n].reason = "GAP"
        BY <1>4, <1>8, <3>2
      <4>2. c \in Control /\ c.reason = "GAP"
        BY <1>7, <1>8, <3>2
      <4> HIDE DEF r, c
      <4>3. ctrlq'[k] = Enqueue(Enqueue(ctrlq[k], c), Ack) /\ (n # k => ctrlq'[n] = ctrlq[n])
        BY <1>1, <3>2
      <4>4. Enqueue(ctrlq[k], c) \in Seq(Control)
        BY <1>1, <4>2, EnqueueType
      <4>5. Members(ctrlq'[k]) \subseteq Members(ctrlq[k]) \cup {c, Ack}
        BY <1>1, <1>6, <4>2, <4>3, <4>4, EnqueueMembers
      <4>6. GapOnly(Members(ctrlq'[n]))
        BY <1>2, <1>6, <4>2, <4>3, <4>5 DEF GapOnly
      <4> QED
        BY <4>1, <4>6
    <3>3. CASE UNCHANGED recovery /\ ctrlq' = [ctrlq EXCEPT ![k] = Enqueue(@, Ack)]
      BY <1>3, <1>5, <1>6, <3>3
    <3> QED
      BY <3>1, <3>2, <3>3 DEF StoreData, RefuseData
  <2>4. CASE ReceiveRequest(k)
    <3>1. TakeFrame(k, "RESYNC_REQUEST")
      BY <2>4 DEF ReceiveRequest
    <3>2. f \in Frame /\ f.body.type = "RESYNC_REQUEST"
      BY <3>1, TakeFrameType
    <3>3. f.body.nonce \in Nat
      BY <3>2 DEF Frame, Control, Ack, Hello, Request, Reply, Data
    <3>4. \A action \in {"RETRANSMIT", "NEW_EPOCH"} :
            answer(action) \in Control /\ answer(action).type # "RESYNC_REQUEST"
      BY <3>3 DEF Control, Reply
    <3>5. /\ UNCHANGED recovery
          /\ \/ UNCHANGED ctrlq
             \/ ctrlq' = [ctrlq EXCEPT ![k] = Enqueue(@, answer("RETRANSMIT"))]
             \/ ctrlq' = [ctrlq EXCEPT ![k] = Enqueue(@, answer("NEW_EPOCH"))]
      BY <2>4, Zenon DEF ReceiveRequest
    <3> HIDE DEF answer
    <3> QED
      BY <1>2, <1>3, <1>5, <3>4, <3>5
  <2>5. CASE ReceiveReply(k)
    <3>1. UNCHANGED ctrlq
      BY <2>5 DEF ReceiveReply
    <3>2. UNCHANGED recovery \/ recovery' = [recovery EXCEPT ![k] = Ended(@)]
      BY <2>5 DEF ReceiveReply
    <3> QED
      BY <1>2, <1>4, <1>9, <3>1, <3>2
  <2> QED
    BY <1>11, <2>1, <2>2, <2>3, <2>4, <2>5 DEF HandleFrame
<1>12. CASE ServiceRx(k)
  <2>1. UNCHANGED recovery
    BY <1>12 DEF ServiceRx, AdvanceCommitted, QueueHeadError, ServiceHead
  <2>2. UNCHANGED ctrlq \/ ctrlq' = [ctrlq EXCEPT ![k] = Enqueue(@, Ack)]
    BY <1>12 DEF ServiceRx, AdvanceCommitted, QueueHeadError, ServiceHead, RetireHead
  <2> QED
    BY <1>2, <1>3, <1>5, <1>6, <2>1, <2>2
<1>13. CASE RecoveryTick(k)
  <2>1. CASE ResyncRetry(k)
    <3> DEFINE r == [recovery[k] EXCEPT !.retries = @ + 1]
    <3>1. /\ recovery' = [recovery EXCEPT ![k] = r]
          /\ ctrlq' = [ctrlq EXCEPT ![k] = Enqueue(@, RequestOf(k, r))]
      BY <2>1, Zenon DEF ResyncRetry
    <3>2. r \in Recovery /\ r.reason = "GAP"
      BY <1>9
    <3> HIDE DEF r
    <3> QED
      BY <1>4, <1>5, <1>7, <3>1, <3>2
  <2>2. CASE ResyncExhausted(k)
    BY <1>2, <1>4, <1>9, <2>2 DEF ResyncExhausted
  <2>3. CASE GapTimeout(k)
    <3> DEFINE r == NewRecovery(k, "GAP", rxBase[k] + 1)
    <3>1. /\ MayRecover(k)
          /\ recovery' = [recovery EXCEPT ![k] = r]
          /\ ctrlq' = [ctrlq EXCEPT ![k] = Enqueue(@, RequestOf(k, r))]
      BY <2>3, Zenon DEF GapTimeout
    <3>2. r \in Recovery /\ r.reason = "GAP"
      BY <1>8, <3>1
    <3> HIDE DEF r
    <3> QED
      BY <1>4, <1>5, <1>7, <3>1, <3>2
  <2> QED
    BY <1>13, <2>1, <2>2, <2>3 DEF RecoveryTick
<1>14. CASE Application(k)
  <2>1. CASE Send(k) \/ CompleteRx(k)
    BY <1>2, <2>1 DEF Send, CompleteRx
  <2>2. CASE Restart(k)
    <3>1. recovery' = [recovery EXCEPT ![k] = Ended(@)] /\ ctrlq' = [ctrlq EXCEPT ![k] = <<>>]
      BY <2>2 DEF Restart
    <3>2. GapOnly(Members(ctrlq'[n]))
      BY <1>1, <1>2, <3>1 DEF GapOnly, Members
    <3> QED
      BY <1>4, <1>9, <3>1, <3>2
  <2>3. ~Recover(k)
    BY DEF Recover
  <2> QED
    BY <1>14, <2>1, <2>2, <2>3 DEF Application
<1> QED
  BY <1>10, <1>11, <1>12, <1>13, <1>14

\* So is what a step puts on the air.
LEMMA StepAutomatic ==
    ASSUME TypeOK, Operators = {}, NEW k \in Node,
           \/ TxTask(k) \/ HandleFrame(k) \/ ServiceRx(k) \/ RecoveryTick(k)
           \/ Application(k),
           \A n \in Node : AutomaticAt(n),
           NEW n \in Node
    PROVE  AutomaticAt(n)'
<1>1. recovery'[n].reason = "GAP" /\ GapOnly(Members(ctrlq'[n]))
  BY StepControls
<1>2. GapOnly({f.body : f \in Air(n)})
  BY DEF AutomaticAt
<1>3. CASE Air(n)' \subseteq Air(n)
  BY <1>1, <1>2, <1>3 DEF AutomaticAt, GapOnly
<1>4. ASSUME NEW body \in Control \cup {Hello} \cup Data, PhysicalSend(k, body),
             body.type = "RESYNC_REQUEST" => body.reason = "GAP"
      PROVE  AutomaticAt(n)'
  <2>1. Air(n)' \subseteq Air(n) \cup {SentFrame(k, body)}
    BY <1>4, AirSend
  <2>2. SentFrame(k, body).body = body
    BY DEF SentFrame
  <2>3. GapOnly({f.body : f \in Air(n)'})
    BY <1>2, <1>4, <2>1, <2>2 DEF GapOnly
  <2> QED
    BY <1>1, <2>3 DEF AutomaticAt
<1>5. CASE SendControl(k)
  <2>1. ctrlq[k] \in Seq(Control) /\ ctrlq[k] # <<>> /\ PhysicalSend(k, Head(ctrlq[k]))
    BY <1>5 DEF TypeOK, SendControl
  <2>2. Head(ctrlq[k]) \in Control /\ Head(ctrlq[k]) \in Members(ctrlq[k])
    BY <2>1, HeadTail, MembersShrink
  <2>3. GapOnly(Members(ctrlq[k]))
    BY DEF AutomaticAt
  <2> QED
    BY <1>4, <2>1, <2>2, <2>3 DEF GapOnly
<1>6. CASE SendSlot(k)
  <2>1. PICK s \in tx[k] : PhysicalSend(k, [type |-> "DATA", seq |-> s.seq, item |-> s.item])
    BY <1>6 DEF SendSlot, SendFrame
  <2> DEFINE body == [type |-> "DATA", seq |-> s.seq, item |-> s.item]
  <2>2. body \in Data /\ body.type # "RESYNC_REQUEST" /\ PhysicalSend(k, body)
    <3>1. s \in TxSlot /\ PhysicalSend(k, body) /\ body.type = "DATA"
      BY <2>1 DEF TypeOK
    <3>2. body \in Data
      BY <3>1 DEF TxSlot, Data
    <3> QED
      BY <3>1, <3>2
  <2> HIDE DEF body
  <2> QED
    BY <1>4, <2>2
<1>7. CASE SendHello(k)
  <2>1. PhysicalSend(k, Hello) /\ Hello.type # "RESYNC_REQUEST"
    BY <1>7 DEF SendHello, Hello
  <2> QED
    BY <1>4, <2>1
<1>8. CASE AllocateSlot(k) \/ LinkDown(k)
  BY <1>3, <1>8 DEF AllocateSlot, LinkDown, Air
<1> QED
  BY <1>3, <1>5, <1>6, <1>7, <1>8, AirShrinks DEF TxTask
-----------------------------------------------------------------------------
(* The sessions a receiver follows only grow. *)

\* What a step of k does to the frames of m: one more at the end, one less at
\* the front, or none left.
RawGrows(k, m) ==
    /\ m = Peer[k] /\ TxTask(k)
    /\ \E f \in Frame : f.session = session[k] /\ rawq'[m] = Append(rawq[m], f)
RawTaken(k, m) == m = k /\ rawq[m] # <<>> /\ rawq'[m] = Tail(rawq[m])

\* Those are the four outcomes.
LEMMA RawStep ==
    ASSUME TypeOK, NEW k \in Node,
           \/ TxTask(k) \/ HandleFrame(k) \/ ServiceRx(k) \/ RecoveryTick(k)
           \/ Application(k),
           NEW m \in Node
    PROVE  \/ rawq'[m] = rawq[m] \/ RawGrows(k, m) \/ RawTaken(k, m)
           \/ rawq'[m] = <<>>
<1>1. rawq \in [Node -> Seq(Frame)] /\ Peer[k] \in Node
  BY NodeAssumption DEF TypeOK
<1>2. CASE TxTask(k)
  <2>1. ASSUME NEW body \in Control \cup {Hello} \cup Data, PhysicalSend(k, body)
        PROVE  rawq'[m] = rawq[m] \/ RawGrows(k, m)
    <3> DEFINE f == SentFrame(k, body)
    <3>1. f \in Frame /\ f.session = session[k]
      BY SentFrameType DEF SentFrame
    <3>2. UNCHANGED rawq \/ rawq' = [rawq EXCEPT ![Peer[k]] = Append(@, f)]
      BY <2>1 DEF PhysicalSend, SentFrame
    <3> HIDE DEF f
    <3>3. rawq'[m] = rawq[m] \/ (m = Peer[k] /\ rawq'[m] = Append(rawq[m], f))
      BY <1>1, <3>2
    <3> QED
      BY <1>2, <3>1, <3>3 DEF RawGrows
  <2> QED
    BY <1>2, <2>1, TxTaskSends
<1>3. CASE HandleFrame(k)
  <2>1. rawq' = [rawq EXCEPT ![k] = Tail(@)] /\ rawq[k] # <<>>
    BY <1>3 DEF HandleFrame, RejectFrame, ReceiveAck, ReceiveHello, ReceiveData,
       ReceiveRequest, ReceiveReply, TakeFrame
  <2> QED
    BY SMTT(30), <1>1, <2>1 DEF RawTaken
<1>4. CASE ServiceRx(k) \/ RecoveryTick(k)
  BY <1>4 DEF ServiceRx, AdvanceCommitted, QueueHeadError, ServiceHead, RecoveryTick,
     ResyncRetry, ResyncExhausted, GapTimeout
<1>5. CASE Application(k)
  BY <1>1, <1>5 DEF Application, Send, CompleteRx, Recover, Restart
<1> QED
  BY <1>2, <1>3, <1>4, <1>5

\* A sorted queue stays sorted when its head goes or a later session joins.
LEMMA SortedKept ==
    ASSUME NEW q \in Seq(Frame), Sorted(q)
    PROVE  /\ q # <<>> => /\ Sorted(Tail(q))
                          /\ \A f \in Members(Tail(q)) : Head(q).session <= f.session
           /\ \A x \in Frame : (\A f \in Members(q) : f.session <= x.session)
                                  => Sorted(Append(q, x))
<1>1. ASSUME q # <<>>
      PROVE  /\ Sorted(Tail(q))
             /\ \A f \in Members(Tail(q)) : Head(q).session <= f.session
  <2>1. /\ Len(q) \in Nat \ {0} /\ DOMAIN q = 1 .. Len(q) /\ DOMAIN Tail(q) = 1 .. Len(q) - 1
        /\ \A i \in 1 .. Len(q) - 1 : Tail(q)[i] = q[i + 1] /\ i + 1 \in 1 .. Len(q)
        /\ Head(q) = q[1]
    BY <1>1
  <2>2. ASSUME NEW i \in 1 .. Len(q) - 1, NEW j \in 1 .. Len(q) - 1, i < j
        PROVE  Tail(q)[i].session <= Tail(q)[j].session
    <3>1. i + 1 < j + 1 /\ i + 1 \in 1 .. Len(q) /\ j + 1 \in 1 .. Len(q)
      BY <2>1, <2>2
    <3> QED
      BY <2>1, <3>1 DEF Sorted
  <2>3. ASSUME NEW i \in 1 .. Len(q) - 1 PROVE Head(q).session <= Tail(q)[i].session
    <3>1. 1 < i + 1 /\ 1 \in 1 .. Len(q) /\ i + 1 \in 1 .. Len(q)
      BY <2>1, <2>3
    <3> QED
      BY <2>1, <3>1 DEF Sorted
  <2> QED
    BY <2>1, <2>2, <2>3 DEF Sorted, Members
<1>2. ASSUME NEW x \in Frame, \A f \in Members(q) : f.session <= x.session
      PROVE  Sorted(Append(q, x))
  <2>1. /\ Len(q) \in Nat /\ DOMAIN q = 1 .. Len(q) /\ DOMAIN Append(q, x) = 1 .. Len(q) + 1
        /\ \A i \in 1 .. Len(q) : Append(q, x)[i] = q[i]
        /\ Append(q, x)[Len(q) + 1] = x
    OBVIOUS
  <2>2. \A i \in 1 .. Len(q) : q[i].session <= x.session
    BY <1>2, <2>1 DEF Members
  <2> QED
    BY <2>1, <2>2 DEF Sorted
<1> QED
  BY <1>1, <1>2

\* What a step of k does to its receive session and its log, no recovery being
\* the user's: nothing, a frame handed out, a new session, or a reboot.
Follows(k) ==
    /\ rawq[k] # <<>> /\ rawq'[k] = Tail(rawq[k]) /\ runs'[k] = runs[k]
    /\ Head(rawq[k]).session # peerSession[k] /\ ResetRx(k, Head(rawq[k]).session)
StaysWith(k) ==
    /\ peerSession'[k] = peerSession[k] /\ rxGen'[k] = rxGen[k]
    /\ \/ runs'[k] = runs[k]
       \/ \E s \in rx[k] : runs'[k] = Append(runs[k], TokenOf(s))

\* Every step is one of them.
LEMMA RunsStep ==
    ASSUME TypeOK, NEW k \in Node, AutomaticAt(k),
           \/ TxTask(k) \/ HandleFrame(k) \/ ServiceRx(k) \/ RecoveryTick(k)
           \/ Application(k)
    PROVE  Restart(k) \/ Follows(k) \/ StaysWith(k)
<1> DEFINE f == Head(rawq[k])
<1>1. /\ rawq \in [Node -> Seq(Frame)] /\ runs \in [Node -> Seq(Token)]
      /\ rx \in [Node -> SUBSET RxSlot]
  BY DEF TypeOK
<1>2. ASSUME UNCHANGED <<peerSession, rxGen, runs>> PROVE StaysWith(k)
  BY <1>2 DEF StaysWith
<1>3. CASE TxTask(k) \/ RecoveryTick(k) \/ Send(k) \/ Recover(k) \/ CompleteRx(k)
  BY <1>2, <1>3 DEF TxTask, SendControl, AllocateSlot, SendSlot, SendFrame, SendHello, LinkDown,
     RecoveryTick, ResyncRetry, ResyncExhausted, GapTimeout, Send, Recover, CompleteRx, recvVars,
     history
<1>4. CASE HandleFrame(k)
  <2>1. UNCHANGED runs /\ rawq[k] # <<>> /\ rawq'[k] = Tail(rawq[k])
    BY <1>1, <1>4 DEF HandleFrame, RejectFrame, ReceiveAck, ReceiveHello, ReceiveData,
       ReceiveRequest, ReceiveReply, TakeFrame, history
  <2>2. ASSUME AdoptSession(k, f) PROVE Follows(k) \/ StaysWith(k)
    BY <1>2, <2>1, <2>2 DEF AdoptSession, Follows, recvVars
  <2>3. CASE ReceiveRequest(k)
    <3>1. TakeFrame(k, "RESYNC_REQUEST")
      BY <2>3 DEF ReceiveRequest
    <3>2. f \in Members(rawq[k]) /\ f.body.type = "RESYNC_REQUEST"
      BY <1>1, <2>1, <3>1, TakeFrameType, MembersShrink
    <3>3. f.body.reason = "GAP"
      BY <3>2 DEF AutomaticAt, GapOnly, Air
    <3>4. UNCHANGED recvVars \/ f.body.reason = "MANUAL"
      BY <2>3, Zenon DEF ReceiveRequest
    <3>5. UNCHANGED recvVars
      BY <3>3, <3>4
    <3> QED
      BY <1>2, <2>1, <3>5 DEF recvVars
  <2>4. CASE RejectFrame(k) \/ ReceiveAck(k) \/ ReceiveData(k)
    BY <1>2, <2>1, <2>4 DEF RejectFrame, ReceiveAck, ReceiveData, recvVars
  <2> QED
    BY <1>4, <2>2, <2>3, <2>4 DEF HandleFrame, ReceiveHello, ReceiveReply
<1>5. CASE ServiceRx(k)
  <2>1. UNCHANGED <<peerSession, rxGen>>
    BY <1>5 DEF ServiceRx, AdvanceCommitted, QueueHeadError, ServiceHead
  <2>2. ASSUME NEW slots \in SUBSET rx[k], NEW base, DeliverOrdered(k, slots, base)
        PROVE  StaysWith(k)
    BY <1>1, <2>1, <2>2 DEF DeliverOrdered, Ready, StaysWith
  <2> QED
    BY <1>2, <1>5, <2>1, <2>2 DEF ServiceRx, AdvanceCommitted, QueueHeadError, ServiceHead,
       RetireHead
<1> QED
  BY <1>3, <1>4, <1>5 DEF Application

\* Sessions of a sender only grow.
LEMMA SessionGrows ==
    ASSUME TypeOK, NEW k \in Node,
           \/ TxTask(k) \/ HandleFrame(k) \/ ServiceRx(k) \/ RecoveryTick(k)
           \/ Application(k),
           NEW n \in Node
    PROVE  session[n] \in Nat /\ session'[n] \in Nat /\ session'[n] >= session[n]
<1>1. session[n] \in Nat /\ (session'[n] = session[n] \/ session'[n] = session[n] + 1)
  BY OtherSender, OwnSender DEF TypeOK, SlotsKept, SlotAdded, SlotsDropped
<1> QED
  BY <1>1

\* So the sessions on the air, and the one followed, stay in order.
LEMMA StepMonotone ==
    ASSUME TypeOK, NEW k \in Node,
           \/ TxTask(k) \/ HandleFrame(k) \/ ServiceRx(k) \/ RecoveryTick(k)
           \/ Application(k),
           AutomaticAt(k), NEW n \in Node, MonotoneAt(n)
    PROVE  MonotoneAt(n)'
<1>1. /\ Peer[n] \in Node /\ Peer[n] # n /\ rawq[n] \in Seq(Frame) /\ peerSession[n] \in Nat
      /\ \A g \in Members(rawq[n]) : g \in Frame /\ g.session \in Nat
  BY NodeAssumption, AirType DEF TypeOK, Air, Frame
<1>2. /\ session[Peer[n]] \in Nat /\ session'[Peer[n]] \in Nat
      /\ session'[Peer[n]] >= session[Peer[n]]
  BY <1>1, SessionGrows
<1>3. /\ peerSession[n] <= session[Peer[n]]
      /\ \A g \in Members(rawq[n]) : peerSession[n] <= g.session /\ g.session <= session[Peer[n]]
      /\ Sorted(rawq[n])
  BY DEF MonotoneAt, Air
<1>4. SUFFICES /\ peerSession'[n] <= session'[Peer[n]]
               /\ \A g \in Members(rawq'[n]) :
                    peerSession'[n] <= g.session /\ g.session <= session'[Peer[n]]
               /\ Sorted(rawq'[n])
  BY DEF MonotoneAt, Air
<1>5. CASE peerSession'[n] = peerSession[n]
  <2>1. CASE rawq'[n] = rawq[n]
    BY <1>1, <1>2, <1>3, <1>5, <2>1
  <2>2. CASE RawGrows(k, n)
    <3>1. PICK f \in Frame : f.session = session[k] /\ rawq'[n] = Append(rawq[n], f)
      BY <2>2 DEF RawGrows
    <3>2. Peer[n] = k
      BY <2>2, NodeAssumption DEF RawGrows
    <3>3. Members(rawq'[n]) = Members(rawq[n]) \cup {f}
      BY <1>1, <3>1, AirAppend
    <3>4. Sorted(rawq'[n])
      BY <1>1, <1>3, <3>1, <3>2, SortedKept
    <3> QED
      BY <1>1, <1>2, <1>3, <1>5, <3>1, <3>2, <3>3, <3>4
  <2>3. CASE RawTaken(k, n)
    <3>1. /\ rawq[n] # <<>> /\ rawq'[n] = Tail(rawq[n])
          /\ Members(Tail(rawq[n])) \subseteq Members(rawq[n]) /\ Sorted(Tail(rawq[n]))
      BY <1>1, <1>3, <2>3, AirTail, SortedKept DEF RawTaken
    <3> QED
      BY <1>1, <1>2, <1>3, <1>5, <3>1
  <2>4. CASE rawq'[n] = <<>>
    <3>1. Members(rawq'[n]) = {} /\ Sorted(rawq'[n])
      BY <2>4 DEF Members, Sorted
    <3> QED
      BY <1>1, <1>2, <1>3, <1>5, <3>1
  <2> QED
    BY <2>1, <2>2, <2>3, <2>4, RawStep
<1>6. CASE n = k /\ Follows(k)
  <2>1. peerSession'[n] = Head(rawq[n]).session
    BY <1>6 DEF TypeOK, Follows, ResetRx
  <2>2. rawq[n] # <<>> /\ rawq'[n] = Tail(rawq[n])
    BY <1>6 DEF Follows
  <2>3. Head(rawq[n]) \in Members(rawq[n]) /\ Members(Tail(rawq[n])) \subseteq Members(rawq[n])
    BY <1>1, <2>2, MembersShrink, AirTail
  <2>4. /\ Sorted(Tail(rawq[n]))
        /\ \A g \in Members(Tail(rawq[n])) : Head(rawq[n]).session <= g.session
    BY <1>1, <1>3, <2>2, SortedKept
  <2> QED
    BY <1>1, <1>2, <1>3, <2>1, <2>2, <2>3, <2>4
<1>7. CASE n = k /\ Restart(k)
  <2>1. peerSession'[n] = 0 /\ rawq'[n] = <<>>
    BY <1>7 DEF TypeOK, Restart
  <2>2. Members(rawq'[n]) = {} /\ Sorted(rawq'[n])
    BY <2>1 DEF Members, Sorted
  <2> QED
    BY <1>2, <2>1, <2>2
<1>8. CASE n # k
  BY <1>5, <1>8, OtherReceiver
<1>9. CASE n = k /\ StaysWith(k)
  BY <1>5, <1>9 DEF StaysWith
<1> QED
  BY <1>6, <1>7, <1>8, <1>9, RunsStep

\* A generation stays a session: a new one follows a later session.
LEMMA StepRuns ==
    ASSUME TypeOK, OneAtATime, NEW k \in Node,
           \/ TxTask(k) \/ HandleFrame(k) \/ ServiceRx(k) \/ RecoveryTick(k)
           \/ Application(k),
           AutomaticAt(k), NEW n \in Node, MonotoneAt(n), RunsAt(n)
    PROVE  RunsAt(n)'
<1>1. /\ runs[n] \in Seq(Token) /\ peerSession[n] \in Nat /\ rxGen[n] \in Nat
      /\ rawq[n] \in Seq(Frame) /\ rx[n] \in SUBSET RxSlot
  BY DEF TypeOK
<1>2. SessionPerGen(runs[n], rxGen[n], peerSession[n])
  BY DEF RunsAt
<1>3. \A i \in DOMAIN runs[n] : runs[n][i].gen \in Nat /\ runs[n][i].session \in Nat
  <2>1. \A i \in DOMAIN runs[n] : runs[n][i] \in Token
    BY <1>1
  <2> QED
    BY <2>1 DEF Token
<1>4. CASE n # k
  <2>1. runs'[n] = runs[n] /\ rxGen'[n] = rxGen[n] /\ peerSession'[n] = peerSession[n]
    BY <1>4, OtherReceiver
  <2> QED
    BY <1>2, <2>1 DEF RunsAt
<1>5. CASE n = k /\ Restart(k)
  <2>1. runs'[n] = <<>>
    BY <1>5 DEF TypeOK, Restart
  <2> QED
    BY <2>1 DEF RunsAt, SessionPerGen
<1>6. CASE n = k /\ Follows(k)
  <2>1. /\ runs'[n] = runs[n] /\ rxGen'[n] = rxGen[n] + 1
        /\ peerSession'[n] = Head(rawq[n]).session
        /\ Head(rawq[n]).session # peerSession[n]
    BY <1>6 DEF TypeOK, Follows, ResetRx
  <2>2. Head(rawq[n]) \in Air(n) /\ Head(rawq[n]) \in Frame
    BY <1>1, <1>6, MembersShrink, AirType DEF Follows, Air
  <2>3. peerSession'[n] \in Nat /\ peerSession'[n] > peerSession[n]
    <3>1. Head(rawq[n]).session \in Nat
      BY <2>2 DEF Frame
    <3>2. peerSession[n] <= Head(rawq[n]).session
      BY <2>2 DEF MonotoneAt
    <3> QED
      BY <1>1, <2>1, <3>1, <3>2
  <2> QED
    BY <1>1, <1>2, <1>3, <2>1, <2>3 DEF RunsAt, SessionPerGen
<1>7. CASE n = k /\ StaysWith(k)
  <2>1. peerSession'[n] = peerSession[n] /\ rxGen'[n] = rxGen[n]
    BY <1>7 DEF StaysWith
  <2>2. CASE runs'[n] = runs[n]
    BY <1>2, <2>1, <2>2 DEF RunsAt
  <2>3. ASSUME NEW s \in rx[n], runs'[n] = Append(runs[n], TokenOf(s)) PROVE RunsAt(n)'
    <3> DEFINE t == TokenOf(s)
               q == runs[n]
    <3>1. t \in Token /\ t.gen = rxGen[n] /\ t.session = peerSession[n]
      BY <1>1 DEF TokenOf, Token, RxSlot, OneAtATime
    <3>2. q \in Seq(Token) /\ runs'[n] = Append(q, t)
      BY <1>1, <2>3
    <3> HIDE DEF t, q
    <3>3. /\ Len(q) \in Nat /\ DOMAIN q = 1 .. Len(q) /\ DOMAIN Append(q, t) = 1 .. Len(q) + 1
          /\ \A i \in 1 .. Len(q) : Append(q, t)[i] = q[i]
          /\ Append(q, t)[Len(q) + 1] = t
      BY <3>1, <3>2
    <3>4. /\ \A i \in 1 .. Len(q) : q[i].gen \in Nat /\ q[i].session \in Nat
          /\ SessionPerGen(q, rxGen[n], peerSession[n])
      BY <1>2, <1>3, <3>3 DEF q
    <3>5. \A i \in 1 .. Len(q) :
            \/ q[i].gen = rxGen[n] /\ q[i].session = peerSession[n]
            \/ q[i].gen < rxGen[n] /\ q[i].session < peerSession[n]
      BY <3>3, <3>4 DEF SessionPerGen
    <3>6. \A i, j \in 1 .. Len(q) : q[i].gen < q[j].gen => q[i].session < q[j].session
      BY <3>3, <3>4 DEF SessionPerGen
    <3>7. ASSUME NEW i \in 1 .. Len(q) + 1
          PROVE  \/ Append(q, t)[i].gen = rxGen[n] /\ Append(q, t)[i].session = peerSession[n]
                 \/ Append(q, t)[i].gen < rxGen[n] /\ Append(q, t)[i].session < peerSession[n]
      BY <3>1, <3>3, <3>5
    <3>8. ASSUME NEW i \in 1 .. Len(q) + 1, NEW j \in 1 .. Len(q) + 1,
                 Append(q, t)[i].gen < Append(q, t)[j].gen
          PROVE  Append(q, t)[i].session < Append(q, t)[j].session
      <4>1. ASSUME i = Len(q) + 1 PROVE FALSE
        <5>1. Append(q, t)[i].gen = rxGen[n]
          BY <3>1, <3>3, <4>1
        <5>2. /\ Append(q, t)[j].gen = rxGen[n] \/ Append(q, t)[j].gen < rxGen[n]
              /\ Append(q, t)[j].gen > rxGen[n]
          BY <3>7, <3>8, <5>1
        <5>3. Append(q, t)[j].gen \in Nat
          BY <1>1, <3>1, <3>3, <3>4
        <5> QED
          BY <1>1, <5>2, <5>3
      <4>2. CASE j = Len(q) + 1
        BY <1>1, <3>1, <3>3, <3>5, <3>8, <4>1, <4>2
      <4> QED
        BY <3>3, <3>6, <3>8, <4>1, <4>2
    <3>9. SessionPerGen(Append(q, t), rxGen[n], peerSession[n])
      BY <3>3, <3>7, <3>8 DEF SessionPerGen
    <3> QED
      BY <2>1, <3>2, <3>9 DEF RunsAt
  <2> QED
    BY <1>7, <2>2, <2>3 DEF StaysWith
<1> QED
  BY <1>4, <1>5, <1>6, <1>7, RunsStep
-----------------------------------------------------------------------------
(* Where a command is carried. *)

\* What a step does to a tx queue and the commands issued: the queue loses its
\* head, keeps only its head, is emptied, or takes an error or a new command.
QueueStep(n) ==
    \/ txq'[n] = txq[n] /\ issued'[n] = issued[n]
    \/ txq'[n] = <<>> /\ issued'[n] = issued[n]
    \/ /\ txq[n] # <<>> /\ issued'[n] = issued[n]
       /\ txq'[n] = Tail(txq[n]) \/ txq'[n] = <<Head(txq[n])>>
    \/ /\ issued'[n] = issued[n]
       /\ \E x \in Item : ~IsCommand(x) /\ txq'[n] = Append(txq[n], x)
    \/ /\ issued'[n] = issued[n] + 1
       /\ \E x \in Item : x.id = issued[n] + 1 /\ txq'[n] = Append(txq[n], x)

\* Those are the outcomes.
LEMMA QueueSteps ==
    ASSUME TypeOK, NEW k \in Node,
           \/ TxTask(k) \/ HandleFrame(k) \/ ServiceRx(k) \/ RecoveryTick(k)
           \/ Application(k),
           NEW n \in Node
    PROVE  QueueStep(n)
<1>1. /\ txq \in [Node -> Seq(Item)] /\ issued \in [Node -> Nat]
      /\ rx \in [Node -> SUBSET RxSlot]
  BY DEF TypeOK
<1>2. ASSUME UNCHANGED issued,
             \/ UNCHANGED txq \/ txq' = [txq EXCEPT ![k] = <<>>]
             \/ txq[k] # <<>> /\ txq' = [txq EXCEPT ![k] = Tail(@)]
             \/ txq[k] # <<>> /\ txq' = [txq EXCEPT ![k] = <<Head(txq[k])>>]
      PROVE  QueueStep(n)
  BY <1>1, <1>2 DEF QueueStep
<1>3. CASE TxTask(k) \/ RecoveryTick(k)
  BY ZenonT(60), <1>2, <1>3 DEF TxTask, SendControl, AllocateSlot, SendSlot, SendFrame, SendHello, LinkDown,
     RecoveryTick, ResyncRetry, ResyncExhausted, GapTimeout, sendVars, history
<1>4. CASE HandleFrame(k)
  <2>1. ASSUME NEW slots, RotateEpoch(k, slots), UNCHANGED issued PROVE QueueStep(n)
    BY <1>2, <2>1 DEF RotateEpoch
  <2>2. UNCHANGED issued
    BY <1>4 DEF HandleFrame, RejectFrame, ReceiveAck, ReceiveHello, ReceiveData,
       ReceiveRequest, ReceiveReply, history
  <2>3. UNCHANGED txq \/ \E slots : RotateEpoch(k, slots)
    BY <1>4 DEF HandleFrame, RejectFrame, ReceiveAck, ReceiveHello, ReceiveData,
       ReceiveRequest, ReceiveReply, sendVars
  <2> QED
    BY <1>2, <2>1, <2>2, <2>3
<1>5. CASE ServiceRx(k)
  <2>1. UNCHANGED issued
    BY <1>5 DEF ServiceRx, AdvanceCommitted, QueueHeadError, ServiceHead
  <2>2. \/ UNCHANGED txq
        \/ \E s \in rx[k] :
             txq' = [txq EXCEPT ![k] = Append(@, [type |-> "COMMAND_ERROR", id |-> s.item.id])]
    BY <1>5 DEF ServiceRx, AdvanceCommitted, QueueHeadError, ServiceHead, HeadSlot, sendVars
  <2>3. ASSUME NEW s \in rx[k],
               txq' = [txq EXCEPT ![k] = Append(@, [type |-> "COMMAND_ERROR", id |-> s.item.id])]
        PROVE  QueueStep(n)
    <3> DEFINE x == [type |-> "COMMAND_ERROR", id |-> s.item.id]
    <3>1. x \in Item /\ ~IsCommand(x)
      BY <1>1 DEF RxSlot, Item, IsCommand
    <3>2. txq'[n] = txq[n] \/ txq'[n] = Append(txq[n], x)
      BY <1>1, <2>3
    <3> HIDE DEF x
    <3> QED
      BY <2>1, <3>1, <3>2 DEF QueueStep
  <2> QED
    BY <1>2, <2>1, <2>2, <2>3
<1>6. CASE Send(k)
  <2> DEFINE x == [type |-> "COMMAND", id |-> issued[k] + 1]
  <2>1. x \in Item /\ x.id = issued[k] + 1
    BY <1>1 DEF Item
  <2>2. txq' = [txq EXCEPT ![k] = Append(@, x)] /\ issued' = [issued EXCEPT ![k] = @ + 1]
    BY <1>6 DEF Send
  <2> HIDE DEF x
  <2>3. CASE n = k
    BY <1>1, <2>1, <2>2, <2>3 DEF QueueStep
  <2>4. CASE n # k
    BY <1>1, <2>2, <2>4 DEF QueueStep
  <2> QED
    BY <2>3, <2>4
<1>7. CASE CompleteRx(k) \/ Recover(k) \/ Restart(k)
  BY <1>2, <1>7 DEF CompleteRx, Recover, Restart, sendVars, history
<1> QED
  BY <1>3, <1>4, <1>5, <1>6, <1>7 DEF Application

\* So the commands waiting stay distinct, of numbers issued, and only one just
\* issued is new.
LEMMA QueueKept ==
    ASSUME TypeOK, NEW n \in Node, QueueStep(n),
           Distinct(txq[n]), Issued(Members(txq[n]), issued[n])
    PROVE  /\ Distinct(txq'[n]) /\ Issued(Members(txq'[n]), issued'[n])
           /\ issued'[n] >= issued[n]
           /\ \A x \in Members(txq'[n]) :
                IsCommand(x) => x \in Members(txq[n]) \/ x.id > issued[n]
<1> DEFINE q == txq[n]
           new == txq'[n]
<1>1. q \in Seq(Item) /\ issued[n] \in Nat /\ Distinct(q) /\ Issued(Members(q), issued[n])
  BY DEF TypeOK
<1>2. \A x \in Members(q) : IsCommand(x) => x.id <= issued[n]
  BY DEF Issued
<1> HIDE DEF q
<1>3. ASSUME Members(new) \subseteq Members(q), Distinct(new), issued'[n] = issued[n]
      PROVE  /\ Distinct(new) /\ Issued(Members(new), issued'[n])
             /\ issued'[n] >= issued[n]
             /\ \A x \in Members(new) : IsCommand(x) => x \in Members(q) \/ x.id > issued[n]
  BY <1>1, <1>2, <1>3 DEF Issued
<1>4. CASE new = q /\ issued'[n] = issued[n]
  BY <1>1, <1>3, <1>4 DEF q
<1>5. CASE new = <<>> /\ issued'[n] = issued[n]
  <2>1. Members(<<>>) = {} /\ Distinct(<<>>)
    BY <1>1, MembersShrink, DistinctKept
  <2> QED
    BY <1>3, <1>5, <2>1 DEF q
<1>6. CASE q # <<>> /\ issued'[n] = issued[n] /\ (new = Tail(q) \/ new = <<Head(q)>>)
  <2>1. Members(Tail(q)) \subseteq Members(q) /\ Members(<<Head(q)>>) \subseteq Members(q)
    BY <1>1, <1>6, MembersShrink
  <2>2. Distinct(Tail(q)) /\ Distinct(<<Head(q)>>)
    BY <1>1, <1>6, DistinctKept
  <2> QED
    BY <1>3, <1>6, <2>1, <2>2 DEF q
<1>7. ASSUME NEW x \in Item, ~IsCommand(x), new = Append(q, x), issued'[n] = issued[n]
      PROVE  /\ Distinct(new) /\ Issued(Members(new), issued'[n])
             /\ issued'[n] >= issued[n]
             /\ \A y \in Members(new) : IsCommand(y) => y \in Members(q) \/ y.id > issued[n]
  <2>1. Members(Append(q, x)) = Members(q) \cup {x}
    BY <1>1, AirAppend
  <2>2. Distinct(Append(q, x))
    BY <1>1, <1>7, DistinctKept
  <2> HIDE DEF new
  <2> QED
    BY <1>1, <1>2, <1>7, <2>1, <2>2 DEF Issued
<1>8. ASSUME NEW x \in Item, x.id = issued[n] + 1, new = Append(q, x),
             issued'[n] = issued[n] + 1
      PROVE  /\ Distinct(new) /\ Issued(Members(new), issued'[n])
             /\ issued'[n] >= issued[n]
             /\ \A y \in Members(new) : IsCommand(y) => y \in Members(q) \/ y.id > issued[n]
  <2>1. IsCommand(x) => x \notin Members(q)
    BY <1>1, <1>2, <1>8
  <2>2. Members(Append(q, x)) = Members(q) \cup {x}
    BY <1>1, AirAppend
  <2>3. Distinct(Append(q, x))
    BY <1>1, <2>1, DistinctKept
  <2>4. \A y \in Members(q) : y.id \in Nat
    <3>1. \A y \in Members(q) : y \in Item
      BY <1>1 DEF Members
    <3> QED
      BY <3>1 DEF Item
  <2> HIDE DEF new
  <2> QED
    BY <1>1, <1>2, <1>8, <2>2, <2>3, <2>4 DEF Issued
<1> QED
  BY <1>4, <1>5, <1>6, <1>7, <1>8 DEF q, QueueStep

\* Starting a session clears the receive slots or leaves them.
LEMMA RenewedHolds ==
    ASSUME TypeOK, NEW k \in Node,
           \/ TxTask(k) \/ HandleFrame(k) \/ ServiceRx(k) \/ RecoveryTick(k)
           \/ Application(k),
           Renewed(k)
    PROVE  rx'[k] = rx[k] \/ rx'[k] = {}
<1>1. session \in [Node -> Nat] /\ rx \in [Node -> SUBSET RxSlot]
  BY DEF TypeOK
<1>2. session' # session
  <2>1. session[k] + 1 # session[k]
    BY <1>1
  <2> QED
    BY <2>1 DEF Renewed
<1>3. CASE ReceiveRequest(k)
  <2>1. UNCHANGED recvVars \/ ResetRx(k, 0)
    BY <1>3, Zenon DEF ReceiveRequest
  <2> QED
    BY <1>1, <2>1 DEF recvVars, ResetRx
<1>4. CASE ReceiveReply(k)
  <2>1. AdoptSession(k, Head(rawq[k]))
    BY <1>4 DEF ReceiveReply
  <2> QED
    BY <1>1, <2>1 DEF AdoptSession, recvVars, ResetRx
<1>5. CASE Restart(k)
  BY <1>1, <1>5 DEF Restart
<1>6. CASE UNCHANGED session
  BY <1>2, <1>6
<1>7. CASE TxTask(k) \/ ServiceRx(k) \/ RecoveryTick(k)
  BY <1>6, <1>7 DEF TxTask, SendControl, AllocateSlot, SendSlot, SendFrame, SendHello, LinkDown,
     ServiceRx, AdvanceCommitted, QueueHeadError, ServiceHead,
     RecoveryTick, ResyncRetry, ResyncExhausted, GapTimeout, sendVars
<1>8. CASE RejectFrame(k) \/ ReceiveAck(k) \/ ReceiveHello(k) \/ ReceiveData(k)
  BY <1>6, <1>8 DEF RejectFrame, ReceiveAck, ReceiveHello, ReceiveData, sendVars
<1>9. CASE Send(k) \/ CompleteRx(k) \/ Recover(k)
  BY <1>6, <1>9 DEF Send, CompleteRx, Recover, sendVars
<1> QED
  BY <1>3, <1>4, <1>5, <1>7, <1>8, <1>9 DEF HandleFrame, Application

\* A command on its way to n stays where it is bound; a new one is bound to the
\* next sequence of its sender's session.
NewBind(n) ==
    Bind(session[Peer[n]], nextSeq[Peer[n]], Head(txq[Peer[n]]))

LEMMA SentStep ==
    ASSUME TypeOK, NEW k \in Node,
           \/ TxTask(k) \/ HandleFrame(k) \/ ServiceRx(k) \/ RecoveryTick(k)
           \/ Application(k),
           NEW n \in Node
    PROVE  \/ SentBinds(n)' \subseteq SentBinds(n)
           \/ /\ k = Peer[n] /\ SlotAdded(k)
              /\ SentBinds(n)' \subseteq SentBinds(n) \cup {NewBind(n)}
<1>1. Peer[n] \in Node /\ tx \in [Node -> SUBSET TxSlot]
  BY NodeAssumption DEF TypeOK
<1>2. CASE k # Peer[n]
  BY <1>1, <1>2, OtherSender DEF SentBinds
<1>3. CASE k = Peer[n] /\ SlotsKept(k)
  <2>1. session'[k] = session[k] /\ \A s \in tx'[k] : \E t \in tx[k] : t.seq = s.seq /\ t.item = s.item
    BY <1>3 DEF SlotsKept, SameFrames, AckedSlots
  <2> QED
    BY <1>3, <2>1 DEF SentBinds, Bind
<1>4. CASE k = Peer[n] /\ SlotAdded(k)
  <2>1. PICK new : /\ tx'[k] = tx[k] \cup {new}
                   /\ new.seq = nextSeq[k] /\ new.item = Head(txq[k])
    BY <1>4 DEF SlotAdded
  <2>2. session'[k] = session[k]
    BY <1>4 DEF SlotAdded
  <2> QED
    BY <1>4, <2>1, <2>2 DEF SentBinds, NewBind
<1>5. CASE k = Peer[n] /\ SlotsDropped(k)
  BY <1>5 DEF SlotsDropped, SentBinds
<1> QED
  BY <1>1, <1>2, <1>3, <1>4, <1>5, OwnSender

LEMMA AirStep ==
    ASSUME TypeOK, NEW k \in Node,
           \/ TxTask(k) \/ HandleFrame(k) \/ ServiceRx(k) \/ RecoveryTick(k)
           \/ Application(k),
           NEW n \in Node
    PROVE  AirBinds(n)' \subseteq AirBinds(n) \cup SentBinds(n)
<1>1. CASE Air(n)' \subseteq Air(n)
  BY <1>1 DEF AirBinds
<1>2. CASE TxTask(k)
  <2>1. ASSUME n = Peer[k], NEW f \in Frame, Air(n)' = Air(n) \cup {f}, f.session = session[k],
               \/ ~IsData(f)
               \/ \E s \in tx[k] : f.body.seq = s.seq /\ f.body.item = s.item
        PROVE  AirBinds(n)' \subseteq AirBinds(n) \cup SentBinds(n)
    <3>1. Peer[n] = k
      BY <2>1, NodeAssumption
    <3>2. IsData(f) => Bind(f.session, f.body.seq, f.body.item) \in SentBinds(n)
      BY <2>1, <3>1 DEF SentBinds
    <3>3. \A g \in Air(n)' : IsData(g) =>
            Bind(g.session, g.body.seq, g.body.item) \in AirBinds(n) \cup SentBinds(n)
      BY <2>1, <3>2 DEF AirBinds
    <3>4. AirBinds(n)' = {Bind(g.session, g.body.seq, g.body.item) : g \in {h \in Air(n)' : IsData(h)}}
      BY DEF AirBinds
    <3> QED
      BY <3>3, <3>4
  <2> QED
    BY <1>1, <1>2, <2>1, TxTaskAir
<1> QED
  BY <1>1, <1>2, AirShrinks

LEMMA HeldStep ==
    ASSUME TypeOK, OneAtATime, OneAtATime', NEW k \in Node,
           \/ TxTask(k) \/ HandleFrame(k) \/ ServiceRx(k) \/ RecoveryTick(k)
           \/ Application(k),
           NEW n \in Node
    PROVE  HeldBinds(n)' \subseteq HeldBinds(n) \cup AirBinds(n)
<1>1. CASE rx'[n] = rx[n]
  BY <1>1 DEF HeldBinds
<1>2. CASE rx'[n] = {}
  BY <1>2 DEF HeldBinds
<1>3. CASE n = k /\ Received(k)
  <2>1. peerSession'[n] = peerSession[n]
    BY <1>3 DEF Received
  <2>2. /\ \A s \in rx[n] : s.session = peerSession[n]
        /\ \A s \in rx'[n] : s.session = peerSession[n]
    BY <2>1 DEF OneAtATime
  <2>3. ASSUME NEW r \in rx'[n]
        PROVE  Bind(r.session, r.seq, r.item) \in HeldBinds(n) \cup AirBinds(n)
    <3>1. \/ \E t \in rx[n] : t.seq = r.seq /\ t.item = r.item
          \/ \E f \in Accepted(n) : IsData(f) /\ f.body.seq = r.seq /\ f.body.item = r.item
      BY <1>3 DEF Received, HeldFrom
    <3>2. CASE \E t \in rx[n] : t.seq = r.seq /\ t.item = r.item
      BY <2>2, <3>2 DEF HeldBinds
    <3>3. CASE \E f \in Accepted(n) : IsData(f) /\ f.body.seq = r.seq /\ f.body.item = r.item
      BY <2>2, <3>3 DEF AirBinds, Accepted
    <3> QED
      BY <3>1, <3>2, <3>3
  <2> QED
    BY <2>3 DEF HeldBinds
<1>4. CASE n = k /\ Adopted(k)
  <2>1. rx'[n] = {}
    BY <1>4 DEF TypeOK, Adopted, ResetRx
  <2> QED
    BY <1>2, <2>1
<1> QED
  BY <1>1, <1>2, <1>3, <1>4, OtherReceiver, OwnReceiver, RenewedHolds

LEMMA RunsBindStep ==
    ASSUME TypeOK, NEW k \in Node, AutomaticAt(k),
           \/ TxTask(k) \/ HandleFrame(k) \/ ServiceRx(k) \/ RecoveryTick(k)
           \/ Application(k),
           NEW n \in Node
    PROVE  RunBinds(n)' \subseteq RunBinds(n) \cup HeldBinds(n)
<1>1. runs \in [Node -> Seq(Token)] /\ rx \in [Node -> SUBSET RxSlot]
  BY DEF TypeOK
<1>2. CASE runs'[n] = runs[n]
  BY <1>2 DEF RunBinds
<1>3. CASE runs'[n] = <<>>
  <2>1. Members(runs'[n]) = {}
    BY <1>3 DEF Members
  <2> QED
    BY <2>1 DEF RunBinds
<1>4. ASSUME NEW s \in rx[n], runs'[n] = Append(runs[n], TokenOf(s))
      PROVE  RunBinds(n)' \subseteq RunBinds(n) \cup HeldBinds(n)
  <2> DEFINE t == TokenOf(s)
  <2>1. t \in Token /\ Bind(t.session, t.seq, t.item) = Bind(s.session, s.seq, s.item)
    BY <1>1 DEF TokenOf, Token, RxSlot
  <2>2. Bind(t.session, t.seq, t.item) \in HeldBinds(n)
    BY <2>1 DEF HeldBinds
  <2> HIDE DEF t
  <2>3. Members(runs'[n]) = Members(runs[n]) \cup {t}
    BY <1>1, <1>4, <2>1, AirAppend DEF t
  <2>4. \A u \in Members(runs'[n]) :
          Bind(u.session, u.seq, u.item) \in RunBinds(n) \cup HeldBinds(n)
    BY <2>2, <2>3 DEF RunBinds
  <2>5. RunBinds(n)' = {Bind(u.session, u.seq, u.item) : u \in Members(runs'[n])}
    BY DEF RunBinds
  <2> QED
    BY <2>4, <2>5
<1>5. CASE n # k
  BY <1>2, <1>5, OtherReceiver
<1>6. CASE n = k /\ Restart(k)
  BY <1>1, <1>3, <1>6 DEF Restart
<1> QED
  BY <1>2, <1>4, <1>5, <1>6, RunsStep DEF Follows, StaysWith

LEMMA CarriedStep ==
    ASSUME TypeOK, OneAtATime, OneAtATime', NEW k \in Node, AutomaticAt(k),
           \/ TxTask(k) \/ HandleFrame(k) \/ ServiceRx(k) \/ RecoveryTick(k)
           \/ Application(k),
           NEW n \in Node
    PROVE  \/ Carried(n)' \subseteq Carried(n)
           \/ /\ k = Peer[n] /\ SlotAdded(k)
              /\ Carried(n)' \subseteq Carried(n) \cup {NewBind(n)}
<1>1. /\ AirBinds(n)' \subseteq AirBinds(n) \cup SentBinds(n)
      /\ HeldBinds(n)' \subseteq HeldBinds(n) \cup AirBinds(n)
      /\ RunBinds(n)' \subseteq RunBinds(n) \cup HeldBinds(n)
  BY AirStep, HeldStep, RunsBindStep
<1>2. Carried(n)' = SentBinds(n)' \cup AirBinds(n)' \cup HeldBinds(n)' \cup RunBinds(n)'
  BY DEF Carried
<1> QED
  BY <1>1, <1>2, SentStep DEF Carried

\* Everything carried is an item.
LEMMA CarriedType ==
    ASSUME TypeOK, NEW n \in Node
    PROVE  \A b \in Carried(n) : b.item \in Item
<1>1. /\ Peer[n] \in Node /\ tx \in [Node -> SUBSET TxSlot] /\ rx \in [Node -> SUBSET RxSlot]
      /\ runs[n] \in Seq(Token)
  BY NodeAssumption DEF TypeOK
<1>2. \A s \in tx[Peer[n]] : s.item \in Item
  BY <1>1 DEF TxSlot
<1>3. \A f \in Air(n) : IsData(f) => f.body.item \in Item
  BY AirType, DataType
<1>4. \A s \in rx[n] : s.item \in Item
  BY <1>1 DEF RxSlot
<1>5. \A t \in Members(runs[n]) : t.item \in Item
  <2>1. \A t \in Members(runs[n]) : t \in Token
    BY <1>1 DEF Members
  <2> QED
    BY <2>1 DEF Token
<1> QED
  BY <1>2, <1>3, <1>4, <1>5 DEF Carried, SentBinds, AirBinds, HeldBinds, RunBinds, Bind

\* So every command stays bound to one session and sequence.
LEMMA StepBind ==
    ASSUME TypeOK, OneAtATime, OneAtATime', NEW k \in Node, AutomaticAt(k),
           \/ TxTask(k) \/ HandleFrame(k) \/ ServiceRx(k) \/ RecoveryTick(k)
           \/ Application(k),
           \A n \in Node : BindAt(n),
           NEW n \in Node
    PROVE  BindAt(n)'
<1> DEFINE p == Peer[n]
<1>1. p \in Node /\ issued[p] \in Nat /\ txq[p] \in Seq(Item)
  BY NodeAssumption DEF TypeOK
<1>2. /\ Distinct(txq[n]) /\ Issued(Members(txq[n]), issued[n])
      /\ Distinct(txq[p]) /\ Issued(Members(txq[p]), issued[p])
  BY <1>1 DEF BindAt
<1>3. /\ OneBind(Carried(n))
      /\ \A b \in Carried(n) : IsCommand(b.item) =>
            b.item.id <= issued[p] /\ b.item \notin Members(txq[p])
  BY DEF BindAt, Issued
<1>4. Distinct(txq'[n]) /\ Issued(Members(txq'[n]), issued'[n])
  BY <1>2, QueueSteps, QueueKept
<1>5. /\ issued'[p] >= issued[p]
      /\ \A x \in Members(txq'[p]) : IsCommand(x) => x \in Members(txq[p]) \/ x.id > issued[p]
  BY <1>1, <1>2, QueueSteps, QueueKept
<1>6. issued'[p] \in Nat
  <2>1. QueueStep(p)
    BY <1>1, QueueSteps
  <2> QED
    BY <1>1, <2>1 DEF QueueStep
<1>7. \A b \in Carried(n) : b.item.id \in Nat
  BY CarriedType DEF Item
<1> HIDE DEF p
<1>8. CASE Carried(n)' \subseteq Carried(n)
  <2>1. OneBind(Carried(n)')
    BY <1>3, <1>8 DEF OneBind
  <2>2. \A b \in Carried(n) : IsCommand(b.item) =>
          b.item.id <= issued'[p] /\ b.item \notin Members(txq'[p])
    BY <1>1, <1>3, <1>5, <1>6, <1>7
  <2>3. Issued({b.item : b \in Carried(n)'}, issued'[p])
    BY <1>8, <2>2 DEF Issued
  <2>4. \A b \in Carried(n)' : IsCommand(b.item) => b.item \notin Members(txq'[p])
    BY <1>8, <2>2
  <2> QED
    BY <1>4, <2>1, <2>3, <2>4 DEF BindAt, p
<1>9. CASE /\ k = p /\ SlotAdded(k)
           /\ Carried(n)' \subseteq Carried(n) \cup {NewBind(n)}
  <2> DEFINE h == Head(txq[p])
  <2>1. /\ txq[p] # <<>> /\ txq'[p] = Tail(txq[p]) /\ issued'[p] = issued[p]
    BY <1>1, <1>9 DEF SlotAdded, TypeOK, history
  <2>2. /\ h \in Members(txq[p]) /\ Members(Tail(txq[p])) \subseteq Members(txq[p])
        /\ IsCommand(h) => h \notin Members(Tail(txq[p]))
    BY <1>1, <1>2, <2>1, MembersShrink, DistinctKept
  <2>3. NewBind(n).item = h
    BY DEF NewBind, Bind, p
  <2> HIDE DEF h
  <2>4. IsCommand(h) => h.id <= issued[p]
    BY <1>2, <2>2 DEF Issued
  <2>5. OneBind(Carried(n)')
    BY <1>3, <1>9, <2>2, <2>3 DEF OneBind
  <2>6. \A b \in Carried(n)' : IsCommand(b.item) =>
          b.item.id <= issued'[p] /\ b.item \notin Members(txq'[p])
    BY <1>3, <1>9, <2>1, <2>2, <2>3, <2>4
  <2>7. Issued({b.item : b \in Carried(n)'}, issued'[p])
    BY <2>6 DEF Issued
  <2> QED
    BY <1>4, <2>5, <2>6, <2>7 DEF BindAt, p
<1> QED
  BY <1>8, <1>9, CarriedStep DEF p
-----------------------------------------------------------------------------
LEMMA StepOnce ==
    ASSUME Operators = {}
    PROVE  TypeOK /\ OneAtATime /\ OneAtATime' /\ OnceInv /\ [Next]_vars => OnceInv'
<1> SUFFICES ASSUME TypeOK, OneAtATime, OneAtATime', OnceInv, [Next]_vars PROVE OnceInv'
  OBVIOUS
<1>1. CASE UNCHANGED vars
  <2>1. ASSUME NEW n \in Node PROVE AutomaticAt(n)' /\ MonotoneAt(n)' /\ RunsAt(n)'
    BY <1>1, <2>1 DEF vars, sendVars, recvVars, history, OnceInv, AutomaticAt, MonotoneAt, RunsAt,
       Air
  <2>2. ASSUME NEW n \in Node PROVE BindAt(n)'
    BY <1>1, <2>2 DEF vars, sendVars, recvVars, history, OnceInv, BindAt, Carried, SentBinds,
       AirBinds, HeldBinds, RunBinds, Air
  <2> QED
    BY <2>1, <2>2 DEF OnceInv
<1>2. ASSUME NEW k \in Node,
             \/ TxTask(k) \/ HandleFrame(k) \/ ServiceRx(k) \/ RecoveryTick(k)
             \/ Application(k)
      PROVE  OnceInv'
  <2>1. \A n \in Node : AutomaticAt(n) /\ MonotoneAt(n) /\ RunsAt(n) /\ BindAt(n)
    BY DEF OnceInv
  <2>2. ASSUME NEW n \in Node PROVE AutomaticAt(n)'
    BY <1>2, <2>1, StepAutomatic
  <2>3. ASSUME NEW n \in Node PROVE MonotoneAt(n)' /\ RunsAt(n)'
    BY <1>2, <2>1, StepMonotone, StepRuns
  <2>4. ASSUME NEW n \in Node PROVE BindAt(n)'
    BY <1>2, <2>1, StepBind
  <2> QED
    BY <2>2, <2>3, <2>4 DEF OnceInv
<1>3. CASE Next
  BY <1>2, <1>3 DEF Next
<1> QED
  BY <1>1, <1>3

\* Nothing is carried, waiting or run after datlink_transport_init.
LEMMA InitOnce == Init => OnceInv
<1> SUFFICES ASSUME Init, NEW n \in Node
             PROVE  AutomaticAt(n) /\ MonotoneAt(n) /\ RunsAt(n) /\ BindAt(n)
  BY DEF OnceInv
<1>1. Peer[n] \in Node
  BY NodeAssumption
<1>2. /\ tx[Peer[n]] = {} /\ rx[n] = {} /\ Air(n) = {} /\ Members(runs[n]) = {}
      /\ Members(ctrlq[n]) = {} /\ Members(txq[n]) = {} /\ Members(txq[Peer[n]]) = {}
      /\ recovery[n].reason = "GAP" /\ peerSession[n] = 0 /\ session[Peer[n]] = 1
      /\ rawq[n] = <<>> /\ runs[n] = <<>> /\ txq[n] = <<>>
  BY <1>1 DEF Init, Air, Members
<1>3. AutomaticAt(n)
  BY <1>2 DEF AutomaticAt, GapOnly
<1>4. MonotoneAt(n)
  BY <1>2 DEF MonotoneAt, Sorted
<1>5. RunsAt(n)
  BY <1>2 DEF RunsAt, SessionPerGen
<1>6. Carried(n) = {}
  BY <1>2 DEF Carried, SentBinds, AirBinds, HeldBinds, RunBinds
<1>7. BindAt(n)
  BY <1>2, <1>6 DEF BindAt, OneBind, Issued, Distinct
<1> QED
  BY <1>3, <1>4, <1>5, <1>7

\* Two deliveries of one command were of one sequence of one session, so of one
\* generation: the log, in order, holds only one.
LEMMA OnceFromBinds == TypeOK /\ InOrder /\ OnceInv => AtMostOnce
<1> SUFFICES ASSUME TypeOK, InOrder, OnceInv PROVE AtMostOnce
  OBVIOUS
<1>0. ASSUME NEW n \in Node, NEW i \in DOMAIN runs[n], NEW j \in DOMAIN runs[n],
             runs[n][i].item = runs[n][j].item, IsCommand(runs[n][i].item), i < j
      PROVE  FALSE
  <2> DEFINE a == runs[n][i]
             b == runs[n][j]
  <2>1. a \in Members(runs[n]) /\ b \in Members(runs[n]) /\ IsCommand(a.item) /\ a.item = b.item
    BY <1>0 DEF Members
  <2>2. a \in Token /\ b \in Token
    BY DEF TypeOK
  <2>3. Bind(a.session, a.seq, a.item) \in Carried(n) /\ Bind(b.session, b.seq, b.item) \in Carried(n)
    BY <2>1 DEF Carried, RunBinds
  <2>4. a.session = b.session /\ a.seq = b.seq
    <3>1. OneBind(Carried(n))
      BY DEF OnceInv, BindAt
    <3> QED
      BY <2>1, <2>3, <3>1 DEF OneBind, Bind
  <2>5. a.gen < b.gen \/ a.seq < b.seq
    BY <1>0 DEF InOrder
  <2>6. a.gen < b.gen => a.session < b.session
    BY DEF OnceInv, RunsAt, SessionPerGen
  <2> QED
    BY <2>2, <2>4, <2>5, <2>6 DEF Token
<1>1. ASSUME NEW n \in Node, NEW i \in DOMAIN runs[n], NEW j \in DOMAIN runs[n],
             runs[n][i].item = runs[n][j].item, IsCommand(runs[n][i].item)
      PROVE  i = j
  <2>1. runs[n] \in Seq(Token)
    BY DEF TypeOK
  <2>2. i \in Nat /\ j \in Nat
    BY <2>1
  <2>3. ~(i < j) /\ ~(j < i)
    BY <1>0, <1>1
  <2> QED
    BY <2>2, <2>3
<1> QED
  BY <1>1 DEF AtMostOnce, IsCommand

\* As long as no user asks for a manual recovery, no command reaches the
\* application of one boot twice: whatever is lost or repeated on the air,
\* whenever workers time out, sessions rotate or a board reboots.
THEOREM CommandsRunOnce ==
    ASSUME Operators = {}
    PROVE  Spec => []AtMostOnce
<1>1. TypeOK /\ OneAtATime /\ OneAtATime' /\ OnceInv /\ [Next]_vars => OnceInv'
  BY StepOnce
<1> QED
  BY <1>1, InitOnce, OnceFromBinds, TypeCorrect, DeliveryInOrder, RunsInOrder, PTL DEF Spec
=============================================================================
