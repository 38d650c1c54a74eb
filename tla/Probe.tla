-------------------------------- MODULE Probe --------------------------------
(***************************************************************************)
(* components/probe_app: the messages of the Gateway, taken one at a time  *)
(* by app_rx_task, the session changes reported by the transport's task,   *)
(* and the watchdog of the commands that run in app_rx_task itself,        *)
(* composed with the staged image and the programmer.                      *)
(***************************************************************************)
EXTENDS Programmer

CONSTANTS
    MaxFrames,   \* bound: messages taken
    MaxResets,   \* bound: session changes of the Gateway
    MaxReboots   \* bound: restarts and power losses

ASSUME BoundsAssumption == MaxFrames \in Nat /\ MaxResets \in Nat /\ MaxReboots \in Nat

VARIABLES
    app,         \* where app_rx_task is, and in which message
    resetting,   \* the event handler has found the programmer idle
    doomed,      \* the watchdog is about to restart the Probe
    accepted,    \* history since boot: PROGRAM_START messages that returned OK
    frames, resets, reboots

appVars == <<app, resetting, doomed, accepted>>
bounds == <<frames, resets, reboots>>
vars == <<stagingVars, programmerVars, appVars, bounds>>

\* The pieces of process_message another task may act between.
Stage == {"IDLE", "ERASE", "COUNT", "MARK", "CREATE", "QUERY", "RESET"}

Init ==
    /\ StagingInit /\ ProgrammerInit
    /\ app = [at |-> "IDLE", image |-> NoImage, op |-> 0]
    /\ resetting = FALSE /\ doomed = FALSE /\ accepted = {}
    /\ frames = 0 /\ resets = 0 /\ reboots = 0

\* The programmer's task has the higher priority on app_rx_task's core: it has
\* copied the manifest before app_rx_task runs again.
Runs(stage) == app.at = stage /\ ~Flashing("COPY")
Goes(stage) == app' = [app EXCEPT !.at = stage]
Idle == [at |-> "IDLE", image |-> NoImage, op |-> 0]
Finish == app' = Idle

\* The next message is taken from s_app_rx_queue.
Take ==
    /\ Runs("IDLE") /\ frames < MaxFrames
    /\ frames' = frames + 1 /\ UNCHANGED <<resetting, doomed, resets, reboots>>
Same == UNCHANGED <<resetting, doomed, bounds>>
-----------------------------------------------------------------------------
(***************************************************************************)
(* process_message.  A message it rejects changes nothing: no action.      *)
(***************************************************************************)
ImageBegin(i) ==
    /\ Take /\ BeginImage(i) /\ app' = [Idle EXCEPT !.at = "ERASE", !.image = i]
    /\ UNCHANGED <<programmerVars, accepted>>
ImageErase ==
    /\ Runs("ERASE") /\ EraseImage(app.image) /\ Finish
    /\ UNCHANGED <<programmerVars, accepted>> /\ Same

ImageData(i, k) ==
    /\ Take /\ InSequence(k)
    /\ \/ WriteBlock(k, Data[i][k]) /\ Goes("COUNT")
       \/ FailBlock(k) /\ Finish
    /\ UNCHANGED <<programmerVars, accepted>>
ImageCount ==
    /\ Runs("COUNT") /\ CountBlock /\ Finish
    /\ UNCHANGED <<programmerVars, accepted>> /\ Same

ImageEnd ==
    /\ Take /\ Complete /\ Goes("MARK")
    /\ verified' = verified \cup {manifest}
    /\ UNCHANGED <<stagingVars, target, control, job, backupVars, started, unborn, completed,
                   accepted>>
ImageMark ==
    /\ Runs("MARK") /\ MarkReady /\ Finish
    /\ UNCHANGED <<programmerVars, accepted>> /\ Same

ProgramStart(op) ==
    /\ Take /\ ready /\ app' = [Idle EXCEPT !.at = "CREATE", !.op = op]
    /\ UNCHANGED <<stagingVars, programmerVars, accepted>>
ProgramCreate ==
    /\ Runs("CREATE") /\ StartFlash(app.op) /\ Finish
    /\ accepted' = IF Repeated(app.op) \/ task' # task THEN accepted \cup {app.op} ELSE accepted
    /\ UNCHANGED stagingVars /\ Same

\* PROGRAM_ABORT, and a COMMAND_ERROR about a message of a backup.
ProgramAbort ==
    /\ Take /\ Abort /\ UNCHANGED <<app, stagingVars, accepted>>

TargetReset ==
    /\ Take /\ task = "NONE" /\ Goes("RESET") /\ swd' = swd \cup {"APP"}
    /\ UNCHANGED <<stagingVars, flash, control, job, backupVars, history, accepted>>

\* TARGET_INFO and LOADER_TEST: connect_target in app_rx_task itself.
TargetQuery ==
    /\ Take /\ task = "NONE" /\ Goes("QUERY")
    /\ swd' = swd \cup {"APP"} /\ phase' = "CONNECT"
    /\ UNCHANGED <<stagingVars, flash, task, operationId, abort, job, backupVars, history,
                   accepted>>
TargetReply ==
    /\ \/ Runs("RESET") /\ UNCHANGED phase
       \/ Runs("QUERY") /\ phase' \in {"CONNECT", "IDENTIFY"}
    /\ swd' = swd \ {"APP"} /\ Finish
    /\ UNCHANGED <<stagingVars, flash, task, operationId, abort, job, backupVars, history,
                   accepted>> /\ Same

TargetBackup(op) ==
    /\ Take /\ StartBackup(op) /\ UNCHANGED <<app, stagingVars, accepted>>

AppRxTask ==
    \/ \E i \in Image : ImageBegin(i) \/ \E k \in 1 .. Len(Data[i]) : ImageData(i, k)
    \/ ImageErase \/ ImageCount \/ ImageEnd \/ ImageMark
    \/ \E op \in Operation : ProgramStart(op) \/ TargetBackup(op)
    \/ ProgramCreate \/ ProgramAbort \/ TargetReset \/ TargetQuery \/ TargetReply
-----------------------------------------------------------------------------
(***************************************************************************)
(* The other tasks                                                         *)
(***************************************************************************)

\* transport_event_handler, PEER_EPOCH_RESET: the programmer is found idle, and
\* then the image is invalidated; found busy, nothing is done.
PeerEpochReset ==
    /\ ~resetting /\ resets < MaxResets /\ task = "NONE"
    /\ resetting' = TRUE /\ resets' = resets + 1
    /\ UNCHANGED <<stagingVars, programmerVars, app, doomed, accepted, frames, reboots>>
PeerEpochInvalidate ==
    /\ resetting /\ Invalidate /\ resetting' = FALSE
    /\ UNCHANGED <<programmerVars, app, doomed, accepted, bounds>>

\* worker_watchdog_task: a query has run too long and no flash operation is on;
\* the Probe restarts 100 ms later.  In a phase of an operation on the flash it would
\* abort that instead (probe_app.c:258-267), but a query finds the phase
\* of an operation that is over, or sets its own, and none runs beside it (SwdExclusive):
\* that branch is never reached.
WatchdogExpires ==
    /\ app.at = "QUERY" /\ ~doomed /\ reboots < MaxReboots
    /\ phase \notin {"ERASE", "PROGRAM", "VERIFY"}
    /\ Abort /\ doomed' = TRUE
    /\ UNCHANGED <<stagingVars, app, resetting, accepted, bounds>>

\* The target and the image partition keep what they hold, and nothing of
\* target_meta is read back.
Restart ==
    /\ staged' = staged /\ manifest' = NoImage /\ written' = 0 /\ ready' = FALSE
    /\ flash' = flash /\ swd' = {} /\ task' = "NONE" /\ operationId' = 0
    /\ phase' = "IDLE" /\ abort' = FALSE
    /\ job' = [at |-> "END", image |-> NoImage, pos |-> 1, hashed |-> <<>>, status |-> "OK"]
    /\ sent' = <<>> /\ backup' = "NONE" /\ started' = {} /\ unborn' = {}
    /\ completed' = {} /\ verified' = {}
    /\ app' = Idle /\ resetting' = FALSE /\ doomed' = FALSE /\ accepted' = {}
    /\ UNCHANGED <<frames, resets>>
WatchdogRestarts == doomed /\ Restart /\ reboots' = reboots + 1
PowerLoss == ~doomed /\ reboots < MaxReboots /\ Restart /\ reboots' = reboots + 1

TargetTask == ProgrammerTask /\ UNCHANGED <<appVars, bounds>>

Next ==
    \/ AppRxTask \/ TargetTask
    \/ PeerEpochReset \/ PeerEpochInvalidate
    \/ WatchdogExpires \/ WatchdogRestarts \/ PowerLoss

Spec == Init /\ [][Next]_vars
-----------------------------------------------------------------------------
(***************************************************************************)
(* Properties                                                              *)
(***************************************************************************)

TypeOK ==
    /\ StagingType /\ ProgrammerType
    /\ app \in [at : Stage, image : Image \cup {NoImage}, op : Operation \cup {0}]
    /\ resetting \in BOOLEAN /\ doomed \in BOOLEAN /\ accepted \in SUBSET Operation
    /\ frames \in 0 .. MaxFrames /\ resets \in 0 .. MaxResets /\ reboots \in 0 .. MaxReboots

\* When DONE is reported the target holds the image whose manifest the task
\* copied at its start, whatever was staged over it meanwhile.
DoneIsVerified ==
    [][phase # "DONE" /\ phase' = "DONE" =>
        \A k \in 1 .. Length : flash[Sector(k)] = Data[job.image][k]]_vars

\* An image that is ready is in the partition, block for block, whichever
\* session change, restart or failed write came between its messages.
ReadyIsStaged == ready /\ manifest # NoImage => Holds(manifest)

\* The target is erased, and written, only for an image that was received whole
\* since boot.
EraseNeedsImage == [][flash' # flash => job.image \in verified]_vars

\* app_rx_task, which reads s_task without its lock, never drives the SWD pins
\* while a task of the programmer does.
SwdExclusive == swd # {"TASK", "APP"}

\* A backup reported OK has handed the radio the target's flash as it is.
BackupFaithful == task = "BACKUP" /\ backup = "OK" => sent = flash

\* A PROGRAM_START that was answered OK has a flash task behind it, unless the
\* creation of a task of that id failed before: programmer_start leaves the id
\* behind then, and takes the retry for a repetition.
AcceptedRan == accepted \subseteq started \cup unborn

\* Repeating the operation that is active or completed starts no other erase:
\* its task is not created again.
RepeatIsHarmless ==
    [][task = "NONE" /\ task' = "FLASH" => operationId' \notin completed]_vars
=============================================================================
