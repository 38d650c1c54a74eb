------------------------------ MODULE Programmer ------------------------------
(***************************************************************************)
(* components/programmer: the operations that own the target.  A flash or  *)
(* a backup operation is a task of its own; reading the target's identity, *)
(* testing the loader and resetting the target run in the caller.  The     *)
(* layers below (SWD, ADI, loader) are abstracted to what they return and  *)
(* do to the target's flash: a command may fail, and may then have done    *)
(* its work or half of it; one that reports success may still leave a bad  *)
(* block, which is what the verification is for.                           *)
(***************************************************************************)
EXTENDS Staging

CONSTANTS
    Sectors,         \* sectors of the target's MAIN flash
    Place,           \* Place[i]: the sectors of image i, in the order of its blocks
    Operation,       \* operation ids of the host
    MemoryMayFail    \* whether creating a task may fail

ASSUME TargetAssumption ==
    /\ Sectors \in Nat /\ 0 \notin Operation /\ Operation \subseteq Nat
    /\ MemoryMayFail \in BOOLEAN
    /\ \A i \in Image :
        /\ Place[i] \in [1 .. Len(Data[i]) -> 1 .. Sectors]
        /\ \A j, k \in 1 .. Len(Data[i]) : Place[i][j] = Place[i][k] => j = k

VARIABLES
    flash,       \* the target's MAIN flash
    task,        \* s_task and s_task_kind
    job,         \* the locals of that task
    operationId, \* s_operation_id
    phase,       \* s_progress.phase
    abort,       \* s_abort
    swd,         \* who drives the SWD pins
    sent,        \* blocks of the last backup handed to the radio
    backup,      \* status of the last backup result
    \* History since boot.
    started,     \* operations for which a flash task was created
    unborn,      \* operations whose task could not be created
    completed,   \* operations reported DONE
    verified     \* images that passed datlink_storage_finalize

target == <<flash, swd>>
control == <<task, operationId, phase, abort>>
backupVars == <<sent, backup>>
history == <<started, unborn, completed, verified>>
programmerVars == <<target, control, job, backupVars, history>>

Phase == {"IDLE", "CONNECT", "IDENTIFY", "LOADER", "ERASE", "PROGRAM", "VERIFY", "RESET",
          "DONE", "FAILED", "ABORTED"}
Step == {"COPY", "CONNECT", "PREPARE", "ERASE", "PROGRAM", "VERIFY", "READ", "RESET",
         "REPORT", "DISCONNECT", "END"}
Status == {"OK", "ABORTED", "ERROR"}

ProgrammerInit ==
    /\ flash = [s \in 1 .. Sectors |-> Garbage] /\ swd = {}
    /\ task = "NONE" /\ operationId = 0 /\ phase = "IDLE" /\ abort = FALSE
    /\ job = [at |-> "END", image |-> NoImage, pos |-> 1, hashed |-> <<>>, status |-> "OK"]
    /\ sent = <<>> /\ backup = "NONE"
    /\ started = {} /\ unborn = {} /\ completed = {} /\ verified = {}

\* The job's next step, with the status it has reached.
At(step, status) == job' = [job EXCEPT !.at = step, !.status = status, !.pos = 1]
Advance == job' = [job EXCEPT !.pos = @ + 1]
Length == Len(Data[job.image])
Sector(k) == Place[job.image][k]
-----------------------------------------------------------------------------
(***************************************************************************)
(* programmer_start and programmer_backup_start, under s_lock.             *)
(***************************************************************************)

\* Mutant of Repeated: whichever operation is active or was the last to end.
RepeatedAny(op) == task = "FLASH" \/ (task = "NONE" /\ phase \in {"DONE", "FAILED"})

\* The same operation is active, or was the last to end.
Repeated(op) ==
    \/ task = "FLASH" /\ operationId = op
    \/ task = "NONE" /\ phase \in {"DONE", "FAILED"} /\ operationId = op

Create(kind, op, step) ==
    /\ task = "NONE"
    /\ operationId' = op /\ abort' = FALSE
    /\ \/ /\ task' = kind
          /\ job' = [job EXCEPT !.at = step, !.pos = 1, !.hashed = <<>>, !.status = "OK"]
          /\ started' = IF kind = "FLASH" THEN started \cup {op} ELSE started
          /\ UNCHANGED unborn
       \/ /\ MemoryMayFail /\ unborn' = unborn \cup {op}
          /\ UNCHANGED <<task, job, started>>
    /\ UNCHANGED <<target, phase, completed, verified>>

\* The outcome is known to the caller: accepted or not.
StartFlash(op) ==
    \/ Repeated(op) /\ UNCHANGED programmerVars
    \/ task # "NONE" /\ ~Repeated(op) /\ UNCHANGED programmerVars
    \/ ~Repeated(op) /\ Create("FLASH", op, "COPY") /\ UNCHANGED backupVars

StartBackup(op) ==
    /\ Create("BACKUP", op, "CONNECT")
    /\ sent' = <<>> /\ backup' = "NONE"

\* programmer_abort
Abort ==
    /\ abort' = TRUE
    /\ UNCHANGED <<target, task, operationId, phase, job, backupVars, history>>
-----------------------------------------------------------------------------
(***************************************************************************)
(* programmer_task                                                         *)
(***************************************************************************)
Flashing(step) == task = "FLASH" /\ job.at = step
Quiet == UNCHANGED <<task, operationId, abort, backupVars, started, unborn, verified, stagingVars>>

\* The manifest is copied from storage and validated.
CopyManifest ==
    /\ Flashing("COPY")
    /\ job' = [job EXCEPT !.image = manifest,
                          !.at = IF manifest = NoImage THEN "REPORT" ELSE "CONNECT",
                          !.status = IF manifest = NoImage THEN "ERROR" ELSE "OK"]
    /\ UNCHANGED <<target, phase, completed>> /\ Quiet

\* connect_target begins; a failure is seen by the next step.
Connect ==
    /\ task # "NONE" /\ job.at = "CONNECT"
    /\ phase' = "CONNECT" /\ swd' = swd \cup {"TASK"} /\ At("PREPARE", "OK")
    /\ UNCHANGED <<flash, completed>> /\ Quiet

\* The rest of connect_target, the upload and the PROBE command of the loader.
Prepare ==
    /\ Flashing("PREPARE")
    /\ \/ phase' \in {"CONNECT", "IDENTIFY", "LOADER"} /\ At("REPORT", "ERROR")
       \/ phase' = "LOADER" /\ At("ERASE", "OK")
    /\ UNCHANGED <<target, completed>> /\ Quiet

\* A loop that has more to do stops where it finds s_abort set.
Stops(step) ==
    /\ Flashing(step) /\ job.pos <= Length /\ abort
    /\ At("REPORT", "ABORTED")
    /\ UNCHANGED <<target, phase, completed>> /\ Quiet
Loops(step) == Flashing(step) /\ job.pos <= Length /\ ~abort
Leaves(step, next) ==
    /\ Flashing(step) /\ job.pos > Length /\ At(next, "OK")
    /\ UNCHANGED <<target, phase, completed>> /\ Quiet

\* A command of the loader: it succeeds and is reported, or fails half way.
Execute(s, c, name) ==
    /\ \/ /\ \E after \in {c, Garbage} : flash' = [flash EXCEPT ![s] = after]
          /\ phase' = name /\ Advance
       \/ /\ \E after \in {flash[s], c, Garbage} : flash' = [flash EXCEPT ![s] = after]
          /\ At("REPORT", "ERROR") /\ UNCHANGED phase
    /\ UNCHANGED <<swd, completed>> /\ Quiet

\* erase_sectors
EraseSector == Loops("ERASE") /\ Execute(Sector(job.pos), Erased, "ERASE")

\* program_segments: the block is read from storage as it is now.
ProgramBlock ==
    /\ Loops("PROGRAM")
    /\ \/ Readable(job.pos) /\ Execute(Sector(job.pos), staged[job.pos], "PROGRAM")
       \/ /\ At("REPORT", "ERROR")
          /\ UNCHANGED <<target, phase, completed>> /\ Quiet

\* Mutant of Matches: the target is compared with storage only.
MatchesStaged == TRUE

\* The CRC and SHA-256 of what was read back against the job's own manifest.
Matches == job.hashed = Data[job.image]

\* verify_segments: the target is compared with storage, block by block, and
\* the hash of all that was read with the manifest.
VerifyBlock ==
    /\ Loops("VERIFY")
    /\ \/ /\ Readable(job.pos) /\ flash[Sector(job.pos)] = staged[job.pos]
          /\ job' = [job EXCEPT !.pos = @ + 1,
                                !.hashed = Append(@, flash[Sector(job.pos)])]
          /\ phase' = "VERIFY" /\ UNCHANGED <<target, completed>>
       \/ /\ At("REPORT", "ERROR")
          /\ UNCHANGED <<target, phase, completed>>
    /\ Quiet
VerifyImage ==
    /\ Flashing("VERIFY") /\ job.pos > Length
    /\ IF Matches THEN At("RESET", "OK") ELSE At("REPORT", "ERROR")
    /\ UNCHANGED <<target, phase, completed>> /\ Quiet

\* cortexm_system_reset; the target may also fail to run again.
ResetTarget ==
    /\ Flashing("RESET")
    /\ phase' = "RESET" /\ \E status \in {"OK", "ERROR"} : At("REPORT", status)
    /\ UNCHANGED <<target, completed>> /\ Quiet

\* The last report.
Report ==
    /\ Flashing("REPORT")
    /\ phase' = CASE job.status = "OK" -> "DONE" [] job.status = "ABORTED" -> "ABORTED"
                  [] OTHER -> "FAILED"
    /\ completed' = IF job.status = "OK" THEN completed \cup {operationId} ELSE completed
    /\ At("DISCONNECT", job.status)
    /\ UNCHANGED target /\ Quiet

\* Mutant of Disconnect: the task is gone before the pins are released.
DisconnectLate ==
    /\ task # "NONE" /\ job.at = "DISCONNECT"
    /\ task' = "NONE"
    /\ UNCHANGED <<target, job, operationId, phase, abort, backupVars, history, stagingVars>>

\* arm_adi_disconnect, by either task; the backup then reports.
Disconnect ==
    /\ task # "NONE" /\ job.at = "DISCONNECT"
    /\ swd' = swd \ {"TASK"}
    /\ At(IF task = "FLASH" THEN "END" ELSE "REPORT", job.status)
    /\ UNCHANGED <<flash, phase, completed>> /\ Quiet

\* s_task is cleared and the task deletes itself.
End ==
    /\ task # "NONE" /\ job.at = "END"
    /\ task' = "NONE"
    /\ UNCHANGED <<target, job, operationId, phase, abort, backupVars, history, stagingVars>>

FlashTask ==
    \/ CopyManifest \/ Prepare
    \/ Stops("ERASE") \/ EraseSector \/ Leaves("ERASE", "PROGRAM")
    \/ Stops("PROGRAM") \/ ProgramBlock \/ Leaves("PROGRAM", "VERIFY")
    \/ Stops("VERIFY") \/ VerifyBlock \/ VerifyImage
    \/ ResetTarget \/ Report
-----------------------------------------------------------------------------
(***************************************************************************)
(* backup_task                                                             *)
(***************************************************************************)
BackingUp(step) == task = "BACKUP" /\ job.at = step
QuietBackup == UNCHANGED <<target, task, operationId, abort, history, stagingVars>>

PrepareBackup ==
    /\ BackingUp("PREPARE")
    /\ \/ phase' \in {"CONNECT", "IDENTIFY"} /\ At("DISCONNECT", "ERROR")
       \/ phase' = "IDENTIFY" /\ At("READ", "OK")
    /\ UNCHANGED backupVars /\ QuietBackup

\* Mutant of ReadBlock: a block the radio does not take is skipped.
ReadBlockSkip ==
    /\ BackingUp("READ") /\ job.pos <= Sectors /\ ~abort
    /\ sent' = Append(sent, flash[job.pos]) \/ UNCHANGED sent
    /\ Advance
    /\ UNCHANGED <<phase, backup>> /\ QuietBackup

\* A block is read and handed to the radio, or one of the two fails.
ReadBlock ==
    /\ BackingUp("READ") /\ job.pos <= Sectors /\ ~abort
    /\ \/ sent' = Append(sent, flash[job.pos]) /\ Advance
       \/ At("RESET", "ERROR") /\ UNCHANGED sent
    /\ UNCHANGED <<phase, backup>> /\ QuietBackup
EndReading ==
    /\ BackingUp("READ")
    /\ \/ job.pos <= Sectors /\ abort /\ At("RESET", "ABORTED")
       \/ job.pos > Sectors /\ At("RESET", "OK")
    /\ UNCHANGED <<phase, backupVars>> /\ QuietBackup

\* The target runs again; a failure to reset it spoils a good backup.
ResetAfterBackup ==
    /\ BackingUp("RESET")
    /\ \E status \in {job.status, IF job.status = "OK" THEN "ERROR" ELSE job.status} :
        At("DISCONNECT", status)
    /\ UNCHANGED <<phase, backupVars>> /\ QuietBackup

\* s_backup_done_callback
ReportBackup ==
    /\ BackingUp("REPORT")
    /\ backup' = job.status /\ At("END", job.status)
    /\ UNCHANGED <<phase, sent>> /\ QuietBackup

BackupTask ==
    PrepareBackup \/ ReadBlock \/ EndReading \/ ResetAfterBackup \/ ReportBackup

\* Steps the two tasks share.
ProgrammerTask == FlashTask \/ BackupTask \/ Connect \/ Disconnect \/ End

ProgrammerType ==
    /\ flash \in [1 .. Sectors -> Content] /\ swd \in SUBSET {"TASK", "APP"}
    /\ task \in {"NONE", "FLASH", "BACKUP"} /\ operationId \in Operation \cup {0}
    /\ phase \in Phase /\ abort \in BOOLEAN
    /\ job \in [at : Step, image : Image \cup {NoImage}, pos : Nat, hashed : Seq(Content),
                status : Status]
    /\ sent \in Seq(Content) /\ backup \in Status \cup {"NONE"}
    /\ started \in SUBSET Operation /\ unborn \in SUBSET Operation
    /\ completed \in SUBSET Operation
    /\ verified \in SUBSET Image
=============================================================================
