------------------------------- MODULE Gateway -------------------------------
(***************************************************************************)
(* components/gateway_app: usb_handler serves the host, program_task sends *)
(* the staged image to the Probe, app_rx_task takes what the Probe sends   *)
(* back.  The three run on their own; the first two share the staged       *)
(* image, the first and the last the one COMMAND_ERROR that waits for the  *)
(* host.  The link is what Transport promises without a manual recovery:   *)
(* the commands of a session reach the Probe's queue in order, and a new   *)
(* session loses the others.  Of the Probe there is what the commands of a *)
(* transfer do to it; Probe interleaves the pieces of that.                *)
(***************************************************************************)
EXTENDS Staging, FiniteSets

CONSTANTS
    Operation,      \* operation ids of the host
    NoOperation,    \* none of them
    JobQueue,       \* length of s_program_queue
    LinkQueue,      \* commands the transport holds
    AppQueue,       \* length of the Probe's s_app_rx_queue
    MaxBegins,      \* bound: images staged by the host
    MaxStarts,      \* bound: PROGRAM_START requests
    MaxTroubles     \* bound: changes of session, COMMAND_ERRORs and requests
                    \*   that become one command, together

ASSUME GatewayAssumption ==
    /\ NoOperation \notin Operation
    /\ {JobQueue, LinkQueue, AppQueue} \subseteq Nat \ {0}
    /\ {MaxBegins, MaxStarts, MaxTroubles} \subseteq Nat

VARIABLES
    usb,          \* where usb_handler is: the image it begins, its copy of the error
    pending,      \* s_command_error, or 0 unless s_pending_command_error
    jobs,         \* s_program_queue
    transfer,     \* where program_task is, in which job, at which block
    link,         \* commands the transport holds, and "RESET" where a new session begins
    \* The Probe.
    inbox,        \* s_app_rx_queue of the Probe
    errors,       \* its COMMAND_ERRORs under way
    peer,         \* its flash operation
    pStaged, pManifest, pWritten, pReady,
    \* History.
    held,         \* held[op]: the manifests there were here while op was served
    unseen,       \* COMMAND_ERRORs taken that the host has not been shown
    disturbed,    \* a session began while the Probe had work of the one before, or
                  \*   with the BEGIN of a job that is over
    begins, starts, troubles

peerVars == <<inbox, errors, peer, pStaged, pManifest, pWritten, pReady>>
errorVars == <<pending, unseen>>
bounds == <<begins, starts, troubles>>
vars == <<stagingVars, usb, jobs, transfer, link, peerVars, errorVars, held, disturbed, bounds>>

Peer == INSTANCE Staging WITH
    staged <- pStaged, manifest <- pManifest, written <- pWritten, ready <- pReady

Waiting == [at |-> "IDLE", image |-> NoImage, copy |-> 0]
NoJob == [at |-> "IDLE", op |-> NoOperation, pos |-> 1]

Init ==
    /\ StagingInit /\ Peer!StagingInit
    /\ usb = Waiting /\ pending = 0 /\ jobs = <<>> /\ transfer = NoJob /\ link = <<>>
    /\ inbox = <<>> /\ errors = <<>> /\ peer = [op |-> NoOperation, image |-> NoImage, busy |-> FALSE]
    /\ held = [op \in Operation |-> {}] /\ unseen = {} /\ disturbed = FALSE
    /\ begins = 0 /\ starts = 0 /\ troubles = 0

Commands == {k \in DOMAIN link : link[k] # <<"RESET">>}

\* datlink_transport_send; a queue that stays full fails it.
Full == Cardinality(Commands) >= LinkQueue
Enqueue(m) == ~Full /\ link' = Append(link, m)
-----------------------------------------------------------------------------
(***************************************************************************)
(* usb_handler                                                             *)
(***************************************************************************)
Serves(step) == usb.at = step
Goes(step) == usb' = [usb EXCEPT !.at = step]
Answers == usb' = Waiting
\* Without a waiting error the request is executed when it comes.
Executes == Serves("COMMAND") \/ (Serves("IDLE") /\ pending = 0)
\* The operations accepted whose jobs are not over.
Served == {jobs[k] : k \in DOMAIN jobs} \cup ({transfer.op} \ {NoOperation})
UsbQuiet == UNCHANGED <<jobs, transfer, peerVars, disturbed>>

\* A request comes while an error waits: it is copied under s_error_lock.
Request ==
    /\ Serves("IDLE") /\ pending # 0
    /\ usb' = [usb EXCEPT !.at = "SHOW", !.copy = pending]
    /\ UNCHANGED <<stagingVars, link, errorVars, held, bounds>> /\ UsbQuiet

\* The copy is sent to the host, or USB is away.
ShowPending ==
    /\ Serves("SHOW")
    /\ \/ unseen' = unseen \ {usb.copy} /\ Goes("CLEAR")
       \/ UNCHANGED unseen /\ Goes("COMMAND")
    /\ UNCHANGED <<stagingVars, link, pending, held, bounds>> /\ UsbQuiet

\* Mutant of ClearPending: whatever error waits by now is cleared.
ClearPendingAny ==
    /\ Serves("CLEAR") /\ Goes("COMMAND") /\ pending' = 0
    /\ UNCHANGED <<stagingVars, link, unseen, held, bounds>> /\ UsbQuiet

\* The error that was shown no longer waits; one that came since does.
ClearPending ==
    /\ Serves("CLEAR") /\ Goes("COMMAND")
    /\ pending' = IF pending = usb.copy THEN 0 ELSE pending
    /\ UNCHANGED <<stagingVars, link, unseen, held, bounds>> /\ UsbQuiet

\* GET_INFO, GET_LINK_STATUS, GET_PROGRESS, and every request that is refused.
Answer ==
    /\ Executes /\ Answers
    /\ UNCHANGED <<stagingVars, link, errorVars, held, bounds>> /\ UsbQuiet

UsbImageBegin(i) ==
    /\ Executes /\ begins < MaxBegins
    /\ BeginImage(i) /\ begins' = begins + 1
    /\ usb' = [usb EXCEPT !.at = "ERASE", !.image = i]
    /\ held' = [op \in Operation |-> IF op \in Served THEN held[op] \cup {i} ELSE held[op]]
    /\ UNCHANGED <<link, errorVars, starts, troubles>> /\ UsbQuiet
UsbImageErase ==
    /\ Serves("ERASE") /\ EraseImage(usb.image) /\ Answers
    /\ UNCHANGED <<link, errorVars, held, bounds>> /\ UsbQuiet

\* The host sends blocks of the image it began; only this task reads s_written. A write
\* that fails is answered so, and the block may come again.
UsbImageData(k) ==
    /\ Executes /\ InSequence(k)
    /\ \/ /\ \E after \in Written(staged[k], Data[manifest][k]) : staged' = [staged EXCEPT ![k] = after]
          /\ written' = written + 1 /\ UNCHANGED <<manifest, ready>>
       \/ FailBlock(k)
    /\ Answers /\ UNCHANGED <<link, errorVars, held, bounds>> /\ UsbQuiet

UsbImageEnd ==
    /\ Executes /\ Complete /\ MarkReady /\ Answers
    /\ UNCHANGED <<link, errorVars, held, bounds>> /\ UsbQuiet

UsbProgramStart(op) ==
    /\ Executes /\ starts < MaxStarts /\ ready /\ Len(jobs) < JobQueue
    /\ jobs' = Append(jobs, op) /\ starts' = starts + 1
    /\ held' = [held EXCEPT ![op] = @ \cup {manifest}]
    /\ Answers
    /\ UNCHANGED <<stagingVars, link, transfer, peerVars, errorVars, disturbed, begins, troubles>>

\* PROGRAM_ABORT, TARGET_RESET, TARGET_INFO, LOADER_TEST, TARGET_BACKUP_START.
UsbForward ==
    /\ Executes /\ troubles < MaxTroubles
    /\ Enqueue(<<"OTHER">>) /\ troubles' = troubles + 1 /\ Answers
    /\ UNCHANGED <<stagingVars, errorVars, held, begins, starts>> /\ UsbQuiet

UsbHandler ==
    \/ Request \/ ShowPending \/ ClearPending \/ Answer
    \/ \E i \in Image : UsbImageBegin(i)
    \/ \E k \in 1 .. Capacity : UsbImageData(k)
    \/ UsbImageErase \/ UsbImageEnd
    \/ \E op \in Operation : UsbProgramStart(op)
    \/ UsbForward
-----------------------------------------------------------------------------
(***************************************************************************)
(* program_task and transfer_image, on the manifest and the partition as   *)
(* they are at each step.                                                  *)
(***************************************************************************)
Transfers(step) == transfer.at = step
Then(step) == transfer' = [transfer EXCEPT !.at = step]
TransferQuiet ==
    UNCHANGED <<stagingVars, usb, peerVars, errorVars, held, disturbed, bounds>>

TakeJob ==
    /\ Transfers("IDLE") /\ jobs # <<>>
    /\ transfer' = [at |-> "BEGIN", op |-> Head(jobs), pos |-> 1] /\ jobs' = Tail(jobs)
    /\ UNCHANGED link /\ TransferQuiet

SendBegin ==
    /\ Transfers("BEGIN") /\ Enqueue(<<"BEGIN", manifest>>) /\ Then("DATA")
    /\ UNCHANGED jobs /\ TransferQuiet
SendData ==
    /\ Transfers("DATA") /\ Readable(transfer.pos)
    /\ Enqueue(<<"DATA", transfer.pos, staged[transfer.pos]>>)
    /\ transfer' = [transfer EXCEPT !.pos = @ + 1]
    /\ UNCHANGED jobs /\ TransferQuiet
SendEnd ==
    /\ Transfers("DATA") /\ ~Readable(transfer.pos) /\ Enqueue(<<"END">>) /\ Then("START")
    /\ UNCHANGED jobs /\ TransferQuiet
SendStart ==
    /\ Transfers("START") /\ Enqueue(<<"START", transfer.op>>) /\ Then("FLUSH")
    /\ UNCHANGED jobs /\ TransferQuiet

\* A send or a read fails: the host is told, and the job is over.
TransferFails ==
    /\ \/ transfer.at \in {"BEGIN", "DATA", "START"} /\ Full
       \/ Transfers("DATA") /\ Readable(transfer.pos)
    /\ transfer' = NoJob /\ UNCHANGED <<jobs, link>> /\ TransferQuiet

\* datlink_transport_flush: all acknowledged, or 30 s have passed.
EndFlush ==
    /\ Transfers("FLUSH") /\ transfer' = NoJob
    /\ UNCHANGED <<jobs, link>> /\ TransferQuiet

ProgramTask ==
    \/ TakeJob \/ SendBegin \/ SendData \/ SendEnd \/ SendStart \/ TransferFails \/ EndFlush
-----------------------------------------------------------------------------
(***************************************************************************)
(* app_rx_task, for a COMMAND_ERROR of the Probe: it is shown, or waits in *)
(* the place of the one before.                                            *)
(***************************************************************************)
TakeError ==
    /\ errors # <<>> /\ errors' = Tail(errors)
    /\ \/ UNCHANGED errorVars
       \/ /\ pending' = Head(errors)
          /\ unseen' = (unseen \ {pending}) \cup {Head(errors)}
    /\ UNCHANGED <<stagingVars, usb, jobs, transfer, link, inbox, peer, pStaged, pManifest,
                   pWritten, pReady, held, disturbed, bounds>>
-----------------------------------------------------------------------------
(***************************************************************************)
(* The link and the Probe                                                  *)
(***************************************************************************)
PeerStaging == <<pStaged, pManifest, pWritten, pReady>>
GatewayQuiet == UNCHANGED <<stagingVars, usb, jobs, transfer, errorVars, held>>

\* The next command reaches the Probe's queue.
Deliver ==
    /\ link # <<>> /\ Head(link) # <<"RESET">> /\ Len(inbox) < AppQueue
    /\ link' = Tail(link) /\ inbox' = Append(inbox, Head(link))
    /\ UNCHANGED <<errors, peer, PeerStaging, disturbed, bounds>> /\ GatewayQuiet

\* Mutant of PeerEpochReset: an idle Probe keeps its image.
PeerEpochResetKeeps ==
    /\ link # <<>> /\ Head(link) = <<"RESET">> /\ link' = Tail(link)
    /\ disturbed' = (disturbed \/ peer.busy \/ inbox # <<>>)
    /\ UNCHANGED <<inbox, errors, peer, PeerStaging, bounds>> /\ GatewayQuiet

\* The Probe learns of the new session: an idle one drops its image.
PeerEpochReset ==
    /\ link # <<>> /\ Head(link) = <<"RESET">> /\ link' = Tail(link)
    /\ disturbed' = (disturbed \/ peer.busy \/ inbox # <<>>)
    /\ IF peer.busy THEN UNCHANGED PeerStaging ELSE Peer!Invalidate
    /\ UNCHANGED <<inbox, errors, peer, bounds>> /\ GatewayQuiet

\* app_rx_task of the Probe: the head of its queue.
Works(type) == inbox # <<>> /\ Head(inbox)[1] = type /\ inbox' = Tail(inbox)
WorkQuiet == UNCHANGED <<link, errors, disturbed, bounds>> /\ GatewayQuiet

PeerBegin ==
    /\ Works("BEGIN")
    /\ LET i == Head(inbox)[2] IN
        /\ pManifest' = i /\ pWritten' = 0 /\ pReady' = FALSE
        /\ pStaged' = [k \in 1 .. Capacity |-> IF k <= Len(Data[i]) THEN Erased ELSE pStaged[k]]
    /\ UNCHANGED peer /\ WorkQuiet
PeerData ==
    /\ Works("DATA") /\ Peer!InSequence(Head(inbox)[2])
    /\ pStaged' = [pStaged EXCEPT ![Head(inbox)[2]] = Head(inbox)[3]]
    /\ pWritten' = pWritten + 1
    /\ UNCHANGED <<pManifest, pReady, peer>> /\ WorkQuiet
PeerEnd ==
    /\ Works("END") /\ Peer!Complete /\ Peer!MarkReady
    /\ UNCHANGED peer /\ WorkQuiet

\* The same operation, active or remembered, is not started again.
PeerStart ==
    /\ Works("START") /\ pReady
    /\ \/ ~peer.busy /\ peer' = [op |-> Head(inbox)[2], image |-> pManifest, busy |-> TRUE]
       \/ peer.op = Head(inbox)[2] /\ UNCHANGED peer
    /\ UNCHANGED PeerStaging /\ WorkQuiet
PeerOther ==
    /\ Works("OTHER") /\ UNCHANGED <<peer, PeerStaging>> /\ WorkQuiet

\* What process_message refuses, or what fails, changes nothing and becomes a
\* COMMAND_ERROR.
Refusable(m) ==
    \/ m[1] = "DATA" /\ ~Peer!InSequence(m[2])
    \/ m[1] = "END" /\ ~Peer!Complete
    \/ m[1] = "START" /\ (pReady => peer.busy /\ peer.op # m[2])
    \/ m[1] = "OTHER"
PeerRefuses ==
    /\ inbox # <<>> /\ Refusable(Head(inbox)) /\ inbox' = Tail(inbox)
    /\ IF troubles < MaxTroubles
         THEN troubles' = troubles + 1 /\ errors' = Append(errors, troubles + 1)
         ELSE UNCHANGED <<troubles, errors>>
    /\ UNCHANGED <<link, peer, PeerStaging, disturbed, begins, starts>>
    /\ GatewayQuiet

PeerFinishes ==
    /\ peer.busy /\ peer' = [peer EXCEPT !.busy = FALSE]
    /\ UNCHANGED <<inbox, PeerStaging>> /\ WorkQuiet

ProbeTasks ==
    \/ Deliver \/ PeerEpochReset
    \/ PeerBegin \/ PeerData \/ PeerEnd \/ PeerStart \/ PeerOther \/ PeerRefuses \/ PeerFinishes
-----------------------------------------------------------------------------
(***************************************************************************)
(* Changes of session                                                      *)
(***************************************************************************)

\* A BEGIN of another image than those of the job program_task sends the blocks of.
Stray(m) ==
    /\ m[1] = "BEGIN" /\ transfer.at \in {"DATA", "START"}
    /\ m[2] \notin held[transfer.op]

\* rotate_local_epoch: what the transport holds is lost, except an item tx_task
\* had just taken from its queue.
LocalEpochReset ==
    /\ troubles < MaxTroubles /\ troubles' = troubles + 1
    /\ \/ link' = <<<<"RESET">>>> /\ UNCHANGED disturbed
       \/ \E k \in Commands : /\ link' = <<<<"RESET">>, link[k]>>
                             /\ disturbed' = (disturbed \/ Stray(link[k]))
    /\ UNCHANGED <<peerVars, begins, starts>> /\ GatewayQuiet

\* The Gateway restarts and keeps only its partition.
Restart ==
    /\ troubles < MaxTroubles /\ troubles' = troubles + 1
    /\ manifest' = NoImage /\ written' = 0 /\ ready' = FALSE /\ UNCHANGED staged
    /\ usb' = Waiting /\ pending' = 0 /\ unseen' = {} /\ jobs' = <<>> /\ transfer' = NoJob
    /\ link' = <<<<"RESET">>>>
    /\ UNCHANGED <<peerVars, held, disturbed, begins, starts>>

Next == UsbHandler \/ ProgramTask \/ TakeError \/ ProbeTasks \/ LocalEpochReset \/ Restart

Spec == Init /\ [][Next]_vars
-----------------------------------------------------------------------------
(***************************************************************************)
(* Properties                                                              *)
(***************************************************************************)
Message ==
    ({"BEGIN"} \X Image) \cup ({"DATA"} \X (1 .. Capacity) \X Content)
    \cup ({"START"} \X Operation) \cup {<<"END">>, <<"OTHER">>}

TypeOK ==
    /\ StagingType /\ Peer!StagingType
    /\ usb \in [at : {"IDLE", "SHOW", "CLEAR", "COMMAND", "ERASE"},
                image : Image \cup {NoImage}, copy : 0 .. MaxTroubles]
    /\ pending \in 0 .. MaxTroubles
    /\ jobs \in Seq(Operation) /\ Len(jobs) <= JobQueue
    /\ transfer \in [at : {"IDLE", "BEGIN", "DATA", "START", "FLUSH"},
                     op : Operation \cup {NoOperation}, pos : 1 .. Capacity + 1]
    /\ link \in Seq(Message \cup {<<"RESET">>}) /\ Cardinality(Commands) <= LinkQueue
    /\ inbox \in Seq(Message) /\ errors \in Seq(1 .. MaxTroubles)
    /\ peer \in [op : Operation \cup {NoOperation}, image : Image \cup {NoImage}, busy : BOOLEAN]
    /\ held \in [Operation -> SUBSET Image] /\ unseen \in SUBSET (1 .. MaxTroubles)
    /\ disturbed \in BOOLEAN
    /\ begins \in 0 .. MaxBegins /\ starts \in 0 .. MaxStarts
    /\ troubles \in 0 .. MaxTroubles

\* The newest COMMAND_ERROR that app_rx_task kept reaches the host or waits for its
\* next request: showing the one before it never drops it. One that nobody has seen may
\* be replaced, as s_command_error has room for one.
ErrorIsShown == unseen \subseteq {pending}

\* The Probe programs for an operation an image whose manifest the Gateway had while it
\* served that operation, from PROGRAM_START to the end of its job: the one that was
\* ready then, or one the host began meanwhile, whether it ended it here or not (the
\* Probe has checked its blocks); never one that only another operation, or the session
\* before, left behind.  Excepted, from then on, are sessions that began while the
\* Probe was programming, whose image it keeps, or while commands of the session before
\* were in its queue, which it executes after dropping its image, and those that began
\* with a BEGIN left over from another job, which the blocks of this one complete if
\* they are the same.
FreshImage == peer.op # NoOperation /\ ~disturbed => peer.image \in held[peer.op]
=============================================================================
