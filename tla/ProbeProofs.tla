------------------------------ MODULE ProbeProofs ------------------------------
(***************************************************************************)
(* Proofs about Probe, for any images, sectors, operations and bounds: the *)
(* SWD pins have one driver, and what Probe keeps of the staged image, of  *)
(* the target's flash and of the operations it has accepted.               *)
(***************************************************************************)
EXTENDS Probe, SequenceTheorems, TLAPS

(***************************************************************************)
(* The SWD pins.                                                           *)
(***************************************************************************)
Owners ==
    /\ swd \subseteq {"TASK", "APP"} /\ {"at", "status", "pos", "hashed"} \subseteq DOMAIN job
    /\ app \in [at : Stage, image : Image \cup {NoImage}, op : Operation \cup {0}]

\* app_rx_task drives the pins in a query or a reset only, and then no task of
\* the programmer exists: only app_rx_task creates one.
AppOwns ==
    /\ "APP" \in swd => app.at \in {"QUERY", "RESET"}
    /\ app.at \in {"QUERY", "RESET"} => task = "NONE"

\* A task has let the pins go before it ends, and a backup before it reports.
TaskOwns ==
    "TASK" \in swd =>
        task # "NONE" /\ job.at # "END" /\ (task = "BACKUP" => job.at # "REPORT")

SwdInv == Owners /\ AppOwns /\ TaskOwns

LEMMA InitSwd == Init => SwdInv
BY DEF Init, ProgrammerInit, SwdInv, Owners, AppOwns, TaskOwns, Stage

\* A step of a task that keeps the pins and does not end.
LEMMA TaskWorks ==
    ASSUME SwdInv, UNCHANGED <<swd, task, app>>,
           {"at", "status", "pos", "hashed"} \subseteq DOMAIN job',
           job'.at = job.at \/ (job'.at # "END" /\ ~(task = "BACKUP" /\ job'.at = "REPORT"))
    PROVE  SwdInv'
BY DEF SwdInv, Owners, AppOwns, TaskOwns

\* What At and Advance do to the step of the job.
LEMMA AtStep ==
    ASSUME Owners, NEW step, NEW status, At(step, status)
    PROVE  job'.at = step /\ {"at", "status", "pos", "hashed"} \subseteq DOMAIN job'
BY DEF Owners, At

LEMMA AdvanceStep ==
    ASSUME Owners, Advance
    PROVE  job'.at = job.at /\ {"at", "status", "pos", "hashed"} \subseteq DOMAIN job'
BY DEF Owners, Advance

\* No step of programmer_task touches the pins between its connection and its
\* release, and none but the last ends the task.
LEMMA FlashTaskSwd == SwdInv /\ FlashTask /\ UNCHANGED app => SwdInv'
<1> SUFFICES ASSUME SwdInv, FlashTask, UNCHANGED app PROVE SwdInv'
  OBVIOUS
<1> DEFINE fields == {"at", "status", "pos", "hashed"}
<1>1. Owners
  BY DEF SwdInv
<1> USE DEF Flashing, Loops, Quiet, target
<1>2. CASE CopyManifest
  <2>1. /\ UNCHANGED <<swd, task>> /\ fields \subseteq DOMAIN job'
        /\ job'.at \in {"REPORT", "CONNECT"} /\ task = "FLASH"
    BY <1>1, <1>2 DEF CopyManifest, Owners
  <2> QED
    BY <2>1, TaskWorks
<1>3. CASE Prepare \/ ResetTarget \/ Report
  <2>1. UNCHANGED <<swd, task>> /\ task = "FLASH"
    BY <1>3 DEF Prepare, ResetTarget, Report
  <2>2. PICK step \in {"REPORT", "ERASE", "DISCONNECT"}, status \in Status \cup {job.status} :
            At(step, status)
    BY <1>3 DEF Prepare, ResetTarget, Report, Status
  <2> QED
    BY <1>1, <2>1, <2>2, AtStep, TaskWorks
<1>4. ASSUME NEW step \in {"ERASE", "PROGRAM", "VERIFY"}, Stops(step) PROVE SwdInv'
  <2>1. UNCHANGED <<swd, task>> /\ task = "FLASH" /\ At("REPORT", "ABORTED")
    BY <1>4 DEF Stops
  <2> QED
    BY <1>1, <2>1, AtStep, TaskWorks
<1>5. CASE Leaves("ERASE", "PROGRAM") \/ Leaves("PROGRAM", "VERIFY")
  <2>1. PICK next \in {"PROGRAM", "VERIFY"} : At(next, "OK")
    BY <1>5 DEF Leaves
  <2>2. UNCHANGED <<swd, task>> /\ task = "FLASH"
    BY <1>5 DEF Leaves
  <2> QED
    BY <1>1, <2>1, <2>2, AtStep, TaskWorks
<1>6. CASE EraseSector \/ ProgramBlock
  <2>1. UNCHANGED <<swd, task>> /\ task = "FLASH"
    BY <1>6 DEF EraseSector, ProgramBlock, Execute
  <2>2. Advance \/ At("REPORT", "ERROR")
    BY <1>6 DEF EraseSector, ProgramBlock, Execute
  <2> QED
    BY <1>1, <2>1, <2>2, AtStep, AdvanceStep, TaskWorks
<1>7. CASE VerifyBlock
  <2>1. UNCHANGED <<swd, task>> /\ task = "FLASH"
    BY <1>7 DEF VerifyBlock
  <2>2. At("REPORT", "ERROR") \/ (job'.at = job.at /\ fields \subseteq DOMAIN job')
    BY <1>1, <1>7 DEF VerifyBlock, Owners
  <2> QED
    BY <1>1, <2>1, <2>2, AtStep, TaskWorks
<1>8. CASE VerifyImage
  <2>1. UNCHANGED <<swd, task>> /\ task = "FLASH" /\ (At("RESET", "OK") \/ At("REPORT", "ERROR"))
    BY <1>8 DEF VerifyImage
  <2> QED
    BY <1>1, <2>1, AtStep, TaskWorks
<1> QED
  BY <1>2, <1>3, <1>4, <1>5, <1>6, <1>7, <1>8 DEF FlashTask

\* Nor does backup_task; it reports when it has let the pins go.
LEMMA BackupTaskSwd == SwdInv /\ BackupTask /\ UNCHANGED app => SwdInv'
<1> SUFFICES ASSUME SwdInv, BackupTask, UNCHANGED app PROVE SwdInv'
  OBVIOUS
<1>1. Owners
  BY DEF SwdInv
<1> USE DEF BackingUp, QuietBackup, target
<1>2. UNCHANGED <<swd, task>>
  BY DEF BackupTask, PrepareBackup, ReadBlock, EndReading, ResetAfterBackup, ReportBackup
<1>3. CASE PrepareBackup \/ ResetAfterBackup
  <2>1. PICK step \in {"DISCONNECT", "READ"} : \E status : At(step, status)
    BY <1>3 DEF PrepareBackup, ResetAfterBackup
  <2>2. PICK status : At(step, status)
    BY <2>1
  <2> QED
    BY <1>1, <1>2, <2>2, AtStep, TaskWorks
<1>4. CASE ReadBlock
  <2>1. Advance \/ At("RESET", "ERROR")
    BY <1>4 DEF ReadBlock
  <2> QED
    BY <1>1, <1>2, <2>1, AtStep, AdvanceStep, TaskWorks
<1>5. CASE EndReading
  <2>1. PICK status : At("RESET", status)
    BY <1>5 DEF EndReading
  <2> QED
    BY <1>1, <1>2, <2>1, AtStep, TaskWorks
<1>6. CASE ReportBackup
  <2>1. "TASK" \notin swd
    BY <1>6 DEF ReportBackup, SwdInv, TaskOwns
  <2>2. At("END", job.status)
    BY <1>6 DEF ReportBackup
  <2> QED
    BY <1>1, <1>2, <2>1, <2>2, AtStep DEF SwdInv, Owners, AppOwns, TaskOwns
<1> QED
  BY <1>3, <1>4, <1>5, <1>6 DEF BackupTask

\* The pins are taken by a task that exists, and given back before it ends.
LEMMA SharedTaskSwd == SwdInv /\ (Connect \/ Disconnect \/ End) /\ UNCHANGED app => SwdInv'
<1> SUFFICES ASSUME SwdInv, Connect \/ Disconnect \/ End, UNCHANGED app PROVE SwdInv'
  OBVIOUS
<1>1. Owners
  BY DEF SwdInv
<1>2. CASE Connect
  <2>1. /\ task # "NONE" /\ swd' = swd \cup {"TASK"} /\ At("PREPARE", "OK")
        /\ UNCHANGED task
    BY <1>2 DEF Connect, Quiet
  <2> QED
    BY <1>1, <2>1, AtStep DEF SwdInv, Owners, AppOwns, TaskOwns
<1>3. CASE Disconnect
  <2>1. swd' = swd \ {"TASK"} /\ UNCHANGED task
    BY <1>3 DEF Disconnect, Quiet
  <2>2. PICK step : At(step, job.status)
    BY <1>3 DEF Disconnect
  <2> QED
    BY <1>1, <2>1, <2>2, AtStep DEF SwdInv, Owners, AppOwns, TaskOwns
<1>4. CASE End
  BY <1>4 DEF End, target, SwdInv, Owners, AppOwns, TaskOwns
<1> QED
  BY <1>2, <1>3, <1>4

\* A message that leaves the pins and the programmer alone.
LEMMA AppWorks ==
    ASSUME SwdInv, UNCHANGED <<swd, task, job>>, app.at \notin {"QUERY", "RESET"},
           app' \in [at : Stage \ {"QUERY", "RESET"}, image : Image \cup {NoImage},
                     op : Operation \cup {0}]
    PROVE  SwdInv'
BY DEF SwdInv, Owners, AppOwns, TaskOwns

\* A new task finds the pins free of an old one, and of app_rx_task, which made it.
LEMMA CreateSwd ==
    ASSUME SwdInv, NEW kind \in {"FLASH", "BACKUP"}, NEW op,
           NEW step \in {"COPY", "CONNECT"}, Create(kind, op, step),
           app.at \notin {"QUERY", "RESET"},
           app' \in [at : Stage \ {"QUERY", "RESET"}, image : Image \cup {NoImage},
                     op : Operation \cup {0}]
    PROVE  SwdInv'
<1>1. task = "NONE" /\ UNCHANGED swd
  BY DEF Create, target
<1>2. "TASK" \notin swd
  BY <1>1 DEF SwdInv, TaskOwns
<1>3. {"at", "status", "pos", "hashed"} \subseteq DOMAIN job'
  BY DEF Create, SwdInv, Owners
<1> QED
  BY <1>1, <1>2, <1>3 DEF SwdInv, Owners, AppOwns, TaskOwns

LEMMA AppRxTaskSwd == SwdInv /\ AppRxTask => SwdInv'
<1> SUFFICES ASSUME SwdInv, AppRxTask PROVE SwdInv'
  OBVIOUS
<1> USE DEF Take, Runs, Finish, Idle, Goes, Same
<1>1. app \in [at : Stage, image : Image \cup {NoImage}, op : Operation \cup {0}]
  BY DEF SwdInv, Owners
<1> DEFINE quiet == [at : Stage \ {"QUERY", "RESET"}, image : Image \cup {NoImage},
                     op : Operation \cup {0}]
<1>2. Idle \in quiet
  BY DEF Stage
<1>3. ASSUME NEW i \in Image, ImageBegin(i) PROVE SwdInv'
  <2>1. app' \in quiet /\ app.at \notin {"QUERY", "RESET"} /\ UNCHANGED <<swd, task, job>>
    BY <1>3 DEF ImageBegin, programmerVars, target, control, Stage
  <2> QED
    BY <2>1, AppWorks
<1>4. ASSUME NEW i \in Image, NEW k \in 1 .. Len(Data[i]), ImageData(i, k) PROVE SwdInv'
  <2>1. app' \in quiet /\ app.at \notin {"QUERY", "RESET"} /\ UNCHANGED <<swd, task, job>>
    BY <1>1, <1>4 DEF ImageData, programmerVars, target, control, Stage
  <2> QED
    BY <2>1, AppWorks
<1>5. CASE ImageErase \/ ImageCount \/ ImageMark
  <2>1. app' \in quiet /\ app.at \notin {"QUERY", "RESET"} /\ UNCHANGED <<swd, task, job>>
    BY <1>2, <1>5 DEF ImageErase, ImageCount, ImageMark, programmerVars, target, control
  <2> QED
    BY <2>1, AppWorks
<1>6. CASE ImageEnd
  <2>1. app' \in quiet /\ app.at \notin {"QUERY", "RESET"} /\ UNCHANGED <<swd, task, job>>
    BY <1>1, <1>6 DEF ImageEnd, target, control, Stage
  <2> QED
    BY <2>1, AppWorks
<1>7. ASSUME NEW op \in Operation, ProgramStart(op) PROVE SwdInv'
  <2>1. app' \in quiet /\ app.at \notin {"QUERY", "RESET"} /\ UNCHANGED <<swd, task, job>>
    BY <1>7 DEF ProgramStart, programmerVars, target, control, Stage
  <2> QED
    BY <2>1, AppWorks
<1>8. ASSUME NEW op \in Operation, TargetBackup(op) PROVE SwdInv'
  <2>1. app' \in quiet /\ app.at \notin {"QUERY", "RESET"} /\ Create("BACKUP", op, "CONNECT")
    BY <1>1, <1>8 DEF TargetBackup, StartBackup, Stage
  <2> QED
    BY <2>1, CreateSwd
<1>9. CASE ProgramCreate
  <2>1. app' \in quiet /\ app.at \notin {"QUERY", "RESET"}
    BY <1>2, <1>9 DEF ProgramCreate
  <2>2. UNCHANGED programmerVars \/ Create("FLASH", app.op, "COPY")
    BY <1>9 DEF ProgramCreate, StartFlash
  <2>3. CASE UNCHANGED programmerVars
    BY <2>1, <2>3, AppWorks DEF programmerVars, target, control
  <2> QED
    BY <2>1, <2>2, <2>3, CreateSwd
<1>10. CASE ProgramAbort
  <2>1. app' \in quiet /\ app.at \notin {"QUERY", "RESET"} /\ UNCHANGED <<swd, task, job>>
    BY <1>1, <1>10 DEF ProgramAbort, Abort, target, Stage
  <2> QED
    BY <2>1, AppWorks
<1>11. CASE TargetReset \/ TargetQuery
  <2>1. /\ task = "NONE" /\ swd' = swd \cup {"APP"} /\ UNCHANGED <<task, job>>
        /\ app' \in [at : {"QUERY", "RESET"}, image : Image \cup {NoImage},
                      op : Operation \cup {0}]
    BY <1>1, <1>11 DEF TargetReset, TargetQuery, control
  <2> QED
    BY <2>1 DEF SwdInv, Owners, AppOwns, TaskOwns, Stage
<1>12. CASE TargetReply
  <2>1. app' \in quiet /\ swd' = swd \ {"APP"} /\ UNCHANGED <<task, job>>
    BY <1>2, <1>12 DEF TargetReply
  <2> QED
    BY <2>1 DEF SwdInv, Owners, AppOwns, TaskOwns
<1> QED
  BY <1>3, <1>4, <1>5, <1>6, <1>7, <1>8, <1>9, <1>10, <1>11, <1>12 DEF AppRxTask

\* A restart releases the pins.
LEMMA RestartSwd == Restart => SwdInv'
BY DEF Restart, Idle, SwdInv, Owners, AppOwns, TaskOwns, Stage

\* Every step keeps the invariant.
LEMMA NextSwd == SwdInv /\ [Next]_vars => SwdInv'
<1> SUFFICES ASSUME SwdInv, [Next]_vars PROVE SwdInv'
  OBVIOUS
<1>1. CASE AppRxTask
  BY <1>1, AppRxTaskSwd
<1>2. CASE TargetTask
  BY <1>2, FlashTaskSwd, BackupTaskSwd, SharedTaskSwd DEF TargetTask, ProgrammerTask, appVars
<1>3. CASE PeerEpochReset \/ PeerEpochInvalidate \/ WatchdogExpires \/ UNCHANGED vars
  <2>1. UNCHANGED <<swd, task, job, app>>
    BY <1>3 DEF PeerEpochReset, PeerEpochInvalidate, WatchdogExpires, Abort, vars,
                programmerVars, appVars, target, control
  <2> QED
    BY <2>1 DEF SwdInv, Owners, AppOwns, TaskOwns
<1>4. CASE WatchdogRestarts \/ PowerLoss
  BY <1>4, RestartSwd DEF WatchdogRestarts, PowerLoss
<1> QED
  BY <1>1, <1>2, <1>3, <1>4 DEF Next

\* SwdExclusive: programmer_read_target_info, programmer_test_loader and
\* programmer_reset_target, which read s_task without its lock, never drive the
\* pins together with a task of the programmer.
THEOREM OneDriver == Spec => []SwdExclusive
<1>1. Init => SwdInv
  BY InitSwd
<1>2. SwdInv /\ [Next]_vars => SwdInv'
  BY NextSwd
<1>3. SwdInv => SwdExclusive
  BY DEF SwdInv, AppOwns, TaskOwns, SwdExclusive
<1> QED
  BY <1>1, <1>2, <1>3, PTL DEF Spec
-----------------------------------------------------------------------------
(***************************************************************************)
(* The types the rest is about.                                            *)
(***************************************************************************)
Job == [at : Step, image : Image \cup {NoImage}, pos : Nat \ {0}, hashed : Seq(Content),
        status : Status]
App == [at : Stage, image : Image \cup {NoImage}, op : Operation \cup {0}]

-----------------------------------------------------------------------------
(***************************************************************************)
(* The inductive invariant, in parts.                                      *)
(***************************************************************************)

\* The flash task works on an image between its copy and its last report.
Working == {"CONNECT", "PREPARE", "ERASE", "PROGRAM", "VERIFY", "RESET"}

\* What the types rest on: a block is counted where there is room for it, an
\* image is erased for a manifest, a task has an operation and its image.
Bounded ==
    /\ job \in Job
    /\ app.at = "COUNT" => written < Capacity
    /\ app.at = "ERASE" => app.image \in Image
    /\ app.at = "CREATE" => app.op \in Operation
    /\ task # "NONE" => operationId \in Operation
    /\ task = "FLASH" /\ job.at \in Working => job.image \in Image
    /\ doomed => reboots < MaxReboots
TypeInv == TypeOK /\ Bounded

\* The manifest that is ready, or about to be marked so, is of what the
\* partition holds; it is not ready while the partition is being filled.
StagedInv ==
    /\ app.at \in {"ERASE", "COUNT"} => ~ready
    /\ (ready \/ app.at = "MARK") /\ manifest # NoImage =>
        Holds(manifest) /\ written = TotalLength

\* The manifest a flash task will copy, and the image it has copied, were
\* received whole: PEER_EPOCH_RESET may clear the manifest at any time, and
\* nothing else replaces it between ProgramStart and CopyManifest.
VerifiedInv ==
    /\ (ready \/ app.at \in {"MARK", "CREATE"} \/ Flashing("COPY")) /\ manifest # NoImage =>
        manifest \in verified
    /\ task = "FLASH" /\ job.at \in Working => job.image \in verified

\* What was read back so far is what the target holds, and a job that may yet
\* report success has found all of the image there.
ReadBackInv ==
    /\ task = "FLASH" /\ job.at \in {"COPY", "CONNECT", "PREPARE", "ERASE", "PROGRAM"} =>
        job.hashed = <<>>
    /\ Flashing("VERIFY") =>
        /\ Len(job.hashed) = job.pos - 1 /\ job.pos <= Length + 1
        /\ \A k \in 1 .. Len(job.hashed) : job.hashed[k] = flash[Sector(k)]
    /\ Flashing("RESET") \/ (Flashing("REPORT") /\ job.status = "OK") =>
        \A k \in 1 .. Length : flash[Sector(k)] = Data[job.image][k]

\* A backup has handed over the blocks before its position, and all of them once
\* it may report success.
BackupInv ==
    task = "BACKUP" =>
        /\ job.at \in {"CONNECT", "PREPARE", "READ", "RESET", "DISCONNECT", "REPORT", "END"}
        /\ job.at # "END" => backup = "NONE"
        /\ job.at \in {"CONNECT", "PREPARE"} => sent = <<>>
        /\ job.at = "READ" =>
            /\ Len(sent) = job.pos - 1 /\ job.pos <= Sectors + 1
            /\ \A k \in 1 .. Len(sent) : sent[k] = flash[k]
        /\ job.at \in {"RESET", "DISCONNECT", "REPORT"} /\ job.status = "OK" => sent = flash
        /\ backup = "OK" => sent = flash

\* The id that Repeated compares with belongs to a flash task that was created,
\* or to a creation that failed; a backup that has not begun its connection may
\* have replaced it, and is then the task.
AcceptedInv ==
    /\ AcceptedRan
    /\ task = "FLASH" => operationId \in started
    /\ phase \in {"DONE", "FAILED"} =>
        \/ operationId \in started \cup unborn
        \/ task = "BACKUP" /\ job.at = "CONNECT"

SafetyInv == StagedInv /\ VerifiedInv /\ ReadBackInv /\ BackupInv /\ AcceptedInv
-----------------------------------------------------------------------------
(***************************************************************************)
(* Facts about the constants and the steps of a job.                       *)
(***************************************************************************)

\* A staged image is a sequence of contents that fits its partition.
LEMMA DataFacts ==
    ASSUME NEW i \in Image
    PROVE  /\ Data[i] \in Seq(Content) /\ Len(Data[i]) \in 1 .. Capacity
           /\ \A k \in 1 .. Len(Data[i]) : Data[i][k] \in Content
<1>1. Data[i] \in Seq(Content \ {Erased, Garbage}) /\ Len(Data[i]) \in 1 .. Capacity
  BY ImageAssumption
<1>2. Data[i] \in Seq(Content)
  BY <1>1, SeqMonotonic, Content \ {Erased, Garbage} \subseteq Content
<1> QED
  BY <1>1, <1>2, ElementOfSeq

\* The length of what is staged is a number of blocks of the partition.
LEMMA TotalLengthType ==
    ASSUME manifest \in Image \cup {NoImage}
    PROVE  TotalLength \in 0 .. Capacity /\ (TotalLength > 0 => manifest # NoImage)
BY DataFacts, ImageAssumption DEF TotalLength

\* What At and Advance do to a job.
LEMMA AtJob ==
    ASSUME job \in Job, NEW step \in Step, NEW status \in Status, At(step, status)
    PROVE  /\ job' \in Job /\ job'.at = step /\ job'.status = status /\ job'.pos = 1
           /\ job'.image = job.image /\ job'.hashed = job.hashed
<1>1. job' = [job EXCEPT !.at = step, !.status = status, !.pos = 1] /\ 1 \in Nat \ {0}
  BY DEF At
<1>2. job' \in Job
  BY <1>1, Zenon DEF Job
<1> QED
  BY <1>1, <1>2 DEF Job

LEMMA AdvanceJob ==
    ASSUME job \in Job, Advance
    PROVE  /\ job' \in Job /\ job'.at = job.at /\ job'.status = job.status
           /\ job'.pos = job.pos + 1 /\ job'.image = job.image /\ job'.hashed = job.hashed
<1>1. job' = [job EXCEPT !.pos = @ + 1]
  BY DEF Advance
<1>2. job.pos + 1 \in Nat \ {0}
  BY DEF Job
<1>3. job' \in Job
  BY <1>1, <1>2, Zenon DEF Job
<1> QED
  BY <1>1, <1>3 DEF Job

\* A block the flash task works on is a sector of the target.
LEMMA SectorType ==
    ASSUME job.image \in Image, NEW k \in 1 .. Length
    PROVE  Sector(k) \in 1 .. Sectors
BY TargetAssumption DEF Sector, Length
-----------------------------------------------------------------------------
(***************************************************************************)
(* Type correctness.                                                       *)
(***************************************************************************)

LEMMA InitType == Init => TypeInv
<1> SUFFICES ASSUME Init PROVE TypeInv
  OBVIOUS
<1> USE DEF Init, StagingInit, ProgrammerInit
<1>1. job \in Job
  <2>1. /\ "END" \in Step /\ "OK" \in Status /\ 1 \in Nat \ {0} /\ <<>> \in Seq(Content)
        /\ NoImage \in Image \cup {NoImage}
    BY EmptySeq DEF Step, Status
  <2> QED
    BY <2>1, Zenon DEF Job
<1>2. StagingType
  <2>1. 0 \in 0 .. Capacity /\ Erased \in Content
    BY ImageAssumption
  <2> QED
    BY <2>1 DEF StagingType
<1>3. ProgrammerType
  BY <1>1, ImageAssumption, EmptySeq DEF ProgrammerType, Phase, Job
<1>4. Bounded
  BY <1>1 DEF Bounded
<1>5. app \in App /\ accepted \in SUBSET Operation
  BY DEF App, Stage
<1>6. frames \in 0 .. MaxFrames /\ resets \in 0 .. MaxResets /\ reboots \in 0 .. MaxReboots
  BY BoundsAssumption
<1> QED
  BY <1>2, <1>3, <1>4, <1>5, <1>6 DEF TypeInv, TypeOK, App

\* A step of a task that ends neither it nor its operation.
LEMMA TaskKeepsType ==
    ASSUME TypeInv, UNCHANGED <<task, operationId, abort, started, unborn, verified>>,
           UNCHANGED <<stagingVars, appVars, bounds>>,
           job' \in Job, phase' \in Phase, flash' \in [1 .. Sectors -> Content],
           swd' \in SUBSET {"TASK", "APP"}, sent' \in Seq(Content),
           backup' \in Status \cup {"NONE"}, completed' \in SUBSET Operation,
           task = "FLASH" /\ job'.at \in Working => job'.image \in Image
    PROVE  TypeInv'
<1>1. StagingType'
  BY DEF TypeInv, TypeOK, StagingType, stagingVars
<1>2. ProgrammerType'
  BY DEF TypeInv, TypeOK, ProgrammerType, Job
<1>3. Bounded'
  BY DEF TypeInv, Bounded, stagingVars, appVars, bounds
<1> QED
  BY <1>1, <1>2, <1>3 DEF TypeInv, TypeOK, appVars, bounds

\* What a command of the loader leaves is a content.
LEMMA ExecuteType ==
    ASSUME TypeInv, Flashing("ERASE") \/ Flashing("PROGRAM"), job.image \in Image,
           NEW s \in 1 .. Sectors, NEW c \in Content, NEW name \in Phase, Execute(s, c, name),
           UNCHANGED <<appVars, bounds>>
    PROVE  TypeInv'
<1>1. job \in Job /\ flash \in [1 .. Sectors -> Content] /\ phase \in Phase
  BY DEF TypeInv, TypeOK, ProgrammerType, Bounded
<1>2. flash' \in [1 .. Sectors -> Content] /\ phase' \in Phase
  BY <1>1, ImageAssumption DEF Execute
<1>3. Advance \/ At("REPORT", "ERROR")
  BY DEF Execute
<1>4. job' \in Job /\ job'.image = job.image
  BY <1>1, <1>3, AtJob, AdvanceJob DEF Step, Status
<1>5. /\ UNCHANGED <<task, operationId, abort, started, unborn, verified, stagingVars>>
      /\ UNCHANGED <<swd, sent, backup, completed>>
  BY DEF Execute, Quiet, backupVars
<1> QED
  BY <1>1, <1>2, <1>4, <1>5, TaskKeepsType DEF TypeInv, TypeOK, ProgrammerType

LEMMA FlashTaskType ==
    ASSUME TypeInv, FlashTask, UNCHANGED <<appVars, bounds>> PROVE TypeInv'
<1>1. /\ job \in Job /\ phase \in Phase /\ flash \in [1 .. Sectors -> Content]
      /\ swd \in SUBSET {"TASK", "APP"} /\ sent \in Seq(Content)
      /\ backup \in Status \cup {"NONE"} /\ completed \in SUBSET Operation
      /\ manifest \in Image \cup {NoImage} /\ staged \in [1 .. Capacity -> Content]
  BY DEF TypeInv, TypeOK, ProgrammerType, StagingType, Bounded
<1>2. task = "FLASH" /\ operationId \in Operation
  BY DEF FlashTask, CopyManifest, Prepare, Stops, EraseSector, Leaves, ProgramBlock,
         VerifyBlock, VerifyImage, ResetTarget, Report, Flashing, Loops, TypeInv, Bounded
<1>3. UNCHANGED <<task, operationId, abort, started, unborn, verified, stagingVars, sent, backup>>
  BY DEF FlashTask, CopyManifest, Prepare, Stops, EraseSector, Leaves, ProgramBlock,
         VerifyBlock, VerifyImage, ResetTarget, Report, Execute, Quiet, backupVars
<1>4. job.at \in Working => job.image \in Image
  BY <1>2 DEF TypeInv, Bounded
<1>5. ASSUME UNCHANGED <<flash, swd, completed>>, phase' \in Phase,
             NEW step \in Step, NEW status \in Status, At(step, status),
             step \in Working => job.at \in Working
      PROVE  TypeInv'
  BY <1>1, <1>3, <1>4, <1>5, AtJob, TaskKeepsType
<1>6. CASE CopyManifest
  <2> DEFINE next == IF manifest = NoImage THEN "REPORT" ELSE "CONNECT"
             status == IF manifest = NoImage THEN "ERROR" ELSE "OK"
  <2>1. /\ job' = [job EXCEPT !.image = manifest, !.at = next, !.status = status]
        /\ UNCHANGED <<flash, swd, phase, completed>>
    BY <1>6 DEF CopyManifest, target
  <2>2. next \in Step /\ status \in Status
    BY DEF Step, Status
  <2>3. next = "CONNECT" => manifest \in Image
    BY <1>1
  <2>4. next \in Working => manifest \in Image
    BY <2>3 DEF Working
  <2> HIDE DEF next, status
  <2>5. job' \in Job
    BY <1>1, <2>1, <2>2, Zenon DEF Job
  <2>6. job'.image = manifest /\ job'.at = next
    BY <1>1, <2>1 DEF Job
  <2> QED
    BY <1>1, <1>3, <2>1, <2>4, <2>5, <2>6, TaskKeepsType
<1>7. CASE Prepare
  <2>1. phase' \in Phase /\ UNCHANGED <<flash, swd, completed>> /\ job.at = "PREPARE"
    BY <1>7 DEF Prepare, Phase, Flashing, target
  <2>2. At("REPORT", "ERROR") \/ At("ERASE", "OK")
    BY <1>7 DEF Prepare
  <2> QED
    BY <1>5, <2>1, <2>2 DEF Step, Status, Working
<1>8. ASSUME NEW step \in {"ERASE", "PROGRAM", "VERIFY"}, Stops(step) PROVE TypeInv'
  BY <1>1, <1>5, <1>8 DEF Stops, Step, Status, Working, target
<1>9. CASE Leaves("ERASE", "PROGRAM") \/ Leaves("PROGRAM", "VERIFY")
  BY <1>1, <1>5, <1>9 DEF Leaves, Step, Status, Working, target, Flashing
<1>10. CASE EraseSector
  <2>1. job.image \in Image /\ Execute(Sector(job.pos), Erased, "ERASE") /\ Flashing("ERASE")
    BY <1>4, <1>10 DEF EraseSector, Loops, Flashing, Working
  <2>2. Sector(job.pos) \in 1 .. Sectors
    <3>1. job.pos \in 1 .. Length
      BY <1>1, <1>10, <2>1, DataFacts DEF EraseSector, Loops, Job, Length
    <3> QED
      BY <2>1, <3>1, SectorType
  <2> QED
    BY <2>1, <2>2, ExecuteType, ImageAssumption DEF Phase
<1>11. CASE ProgramBlock
  <2>1. job.image \in Image /\ Flashing("PROGRAM")
    BY <1>4, <1>11 DEF ProgramBlock, Loops, Flashing, Working
  <2>2. Sector(job.pos) \in 1 .. Sectors
    <3>1. job.pos \in 1 .. Length
      BY <1>1, <1>11, <2>1, DataFacts DEF ProgramBlock, Loops, Job, Length
    <3> QED
      BY <2>1, <3>1, SectorType
  <2>3. CASE Readable(job.pos) /\ Execute(Sector(job.pos), staged[job.pos], "PROGRAM")
    <3>1. job.pos \in 1 .. Capacity
      BY <1>1, <2>3, TotalLengthType, ImageAssumption DEF Readable, Job
    <3>2. staged[job.pos] \in Content
      BY <1>1, <3>1
    <3> QED
      BY <2>1, <2>2, <2>3, <3>2, ExecuteType DEF Phase
  <2>4. CASE At("REPORT", "ERROR") /\ UNCHANGED <<target, phase, completed>>
    BY <1>1, <1>5, <2>4 DEF Step, Status, Working, target
  <2> QED
    BY <1>11, <2>3, <2>4 DEF ProgramBlock
<1>12. CASE VerifyBlock
  <2>1. job.image \in Image /\ job.at = "VERIFY"
    BY <1>4, <1>12 DEF VerifyBlock, Loops, Flashing, Working
  <2>2. flash[Sector(job.pos)] \in Content
    <3>1. job.pos \in 1 .. Length
      BY <1>1, <1>12, <2>1, DataFacts DEF VerifyBlock, Loops, Job, Length
    <3> QED
      BY <1>1, <2>1, <3>1, SectorType
  <2>3. CASE /\ job' = [job EXCEPT !.pos = @ + 1, !.hashed = Append(@, flash[Sector(job.pos)])]
             /\ phase' = "VERIFY" /\ UNCHANGED <<target, completed>>
    <3>1. job.pos + 1 \in Nat \ {0} /\ Append(job.hashed, flash[Sector(job.pos)]) \in Seq(Content)
      BY <1>1, <2>2, AppendProperties DEF Job
    <3>2. job' \in Job
      BY <1>1, <2>3, <3>1, Zenon DEF Job
    <3>3. job'.at = job.at /\ job'.image = job.image
      BY <1>1, <2>3 DEF Job
    <3> QED
      BY <1>1, <1>3, <2>1, <2>3, <3>2, <3>3, TaskKeepsType DEF target, Phase
  <2>4. CASE At("REPORT", "ERROR") /\ UNCHANGED <<target, phase, completed>>
    BY <1>1, <1>5, <2>4 DEF Step, Status, Working, target
  <2> QED
    BY <1>12, <2>3, <2>4 DEF VerifyBlock
<1>13. CASE VerifyImage
  <2>1. UNCHANGED <<flash, swd, phase, completed>> /\ job.at = "VERIFY"
    BY <1>13 DEF VerifyImage, Flashing, target
  <2>2. At("RESET", "OK") \/ At("REPORT", "ERROR")
    BY <1>13 DEF VerifyImage
  <2> QED
    BY <1>1, <1>5, <2>1, <2>2 DEF Step, Status, Working
<1>14. CASE ResetTarget
  <2>1. phase' \in Phase /\ UNCHANGED <<flash, swd, completed>>
    BY <1>14 DEF ResetTarget, Phase, target
  <2>2. At("REPORT", "OK") \/ At("REPORT", "ERROR")
    BY <1>14 DEF ResetTarget
  <2> QED
    BY <1>5, <2>1, <2>2 DEF Step, Status, Working
<1>15. CASE Report
  <2>1. /\ phase' \in Phase /\ UNCHANGED <<flash, swd>> /\ completed' \in SUBSET Operation
        /\ At("DISCONNECT", job.status) /\ job.status \in Status
    BY <1>1, <1>2, <1>15 DEF Report, Phase, target, Job
  <2>2. job' \in Job /\ job'.at = "DISCONNECT"
    BY <1>1, <2>1, AtJob DEF Step
  <2> QED
    BY <1>1, <1>3, <2>1, <2>2, TaskKeepsType DEF Working
<1> QED
  BY <1>6, <1>7, <1>8, <1>9, <1>10, <1>11, <1>12, <1>13, <1>14, <1>15 DEF FlashTask

LEMMA BackupTaskType ==
    ASSUME TypeInv, BackupTask, UNCHANGED <<appVars, bounds>> PROVE TypeInv'
<1>1. /\ job \in Job /\ phase \in Phase /\ flash \in [1 .. Sectors -> Content]
      /\ swd \in SUBSET {"TASK", "APP"} /\ sent \in Seq(Content)
      /\ backup \in Status \cup {"NONE"} /\ completed \in SUBSET Operation
  BY DEF TypeInv, TypeOK, ProgrammerType, Bounded
<1>2. /\ task = "BACKUP"
      /\ UNCHANGED <<task, operationId, abort, started, unborn, verified, completed, stagingVars,
                     flash, swd>>
  BY DEF BackupTask, PrepareBackup, ReadBlock, EndReading, ResetAfterBackup, ReportBackup,
         BackingUp, QuietBackup, target, history
<1>3. ASSUME sent' \in Seq(Content), backup' \in Status \cup {"NONE"}, phase' \in Phase,
             NEW step \in Step, NEW status \in Status, At(step, status)
      PROVE  TypeInv'
  BY <1>1, <1>2, <1>3, AtJob, TaskKeepsType
<1>4. CASE PrepareBackup
  <2>1. phase' \in Phase /\ UNCHANGED <<sent, backup>>
    BY <1>4 DEF PrepareBackup, Phase, backupVars
  <2>2. At("DISCONNECT", "ERROR") \/ At("READ", "OK")
    BY <1>4 DEF PrepareBackup
  <2> QED
    BY <1>1, <1>3, <2>1, <2>2 DEF Step, Status
<1>5. CASE ReadBlock
  <2>1. UNCHANGED <<phase, backup>>
    BY <1>5 DEF ReadBlock
  <2>2. CASE sent' = Append(sent, flash[job.pos]) /\ Advance
    <3>1. job.pos \in 1 .. Sectors
      BY <1>1, <1>5, TargetAssumption DEF ReadBlock, Job
    <3>2. sent' \in Seq(Content)
      BY <1>1, <2>2, <3>1, AppendProperties
    <3> QED
      BY <1>1, <1>2, <2>1, <2>2, <3>2, AdvanceJob, TaskKeepsType
  <2>3. CASE At("RESET", "ERROR") /\ UNCHANGED sent
    BY <1>1, <1>3, <2>1, <2>3 DEF Step, Status
  <2> QED
    BY <1>5, <2>2, <2>3 DEF ReadBlock
<1>6. CASE EndReading
  <2>1. UNCHANGED <<phase, sent, backup>>
    BY <1>6 DEF EndReading, backupVars
  <2>2. At("RESET", "ABORTED") \/ At("RESET", "OK")
    BY <1>6 DEF EndReading
  <2> QED
    BY <1>1, <1>3, <2>1, <2>2 DEF Step, Status
<1>7. CASE ResetAfterBackup
  <2>1. UNCHANGED <<phase, sent, backup>>
    BY <1>7 DEF ResetAfterBackup, backupVars
  <2>2. PICK status \in Status : At("DISCONNECT", status)
    BY <1>1, <1>7 DEF ResetAfterBackup, Job, Status
  <2> QED
    BY <1>1, <1>3, <2>1, <2>2 DEF Step
<1>8. CASE ReportBackup
  <2>1. /\ UNCHANGED <<phase, sent>> /\ backup' = job.status /\ job.status \in Status
        /\ At("END", job.status)
    BY <1>1, <1>8 DEF ReportBackup, Job
  <2> QED
    BY <1>1, <1>3, <2>1 DEF Step
<1> QED
  BY <1>4, <1>5, <1>6, <1>7, <1>8 DEF BackupTask

LEMMA SharedTaskType ==
    ASSUME TypeInv, Connect \/ Disconnect \/ End, UNCHANGED <<appVars, bounds>> PROVE TypeInv'
<1>1. /\ job \in Job /\ phase \in Phase /\ flash \in [1 .. Sectors -> Content]
      /\ swd \in SUBSET {"TASK", "APP"} /\ sent \in Seq(Content)
      /\ backup \in Status \cup {"NONE"} /\ completed \in SUBSET Operation
  BY DEF TypeInv, TypeOK, ProgrammerType, Bounded
<1>2. CASE Connect
  <2>1. /\ UNCHANGED <<task, operationId, abort, started, unborn, verified, stagingVars, sent,
                       backup, flash, completed>>
        /\ phase' = "CONNECT" /\ swd' = swd \cup {"TASK"} /\ At("PREPARE", "OK")
        /\ job.at = "CONNECT"
    BY <1>2 DEF Connect, Quiet, backupVars
  <2>2. job' \in Job /\ job'.at = "PREPARE" /\ job'.image = job.image
    BY <1>1, <2>1, AtJob DEF Step, Status
  <2>3. task = "FLASH" => job.image \in Image
    BY <2>1 DEF TypeInv, Bounded, Working
  <2> QED
    BY <1>1, <2>1, <2>2, <2>3, TaskKeepsType DEF Phase
<1>3. CASE Disconnect
  <2>1. /\ UNCHANGED <<task, operationId, abort, started, unborn, verified, stagingVars, sent,
                       backup, flash, completed, phase>>
        /\ swd' = swd \ {"TASK"} /\ job.status \in Status
    BY <1>1, <1>3 DEF Disconnect, Quiet, backupVars, Job
  <2>2. PICK step \in {"END", "REPORT"} : At(step, job.status)
    BY <1>3 DEF Disconnect
  <2>3. job' \in Job /\ job'.at \notin Working
    BY <1>1, <2>1, <2>2, AtJob DEF Step, Working
  <2> QED
    BY <1>1, <2>1, <2>3, TaskKeepsType
<1>4. CASE End
  <2>1. /\ task' = "NONE" /\ UNCHANGED <<flash, swd, operationId, phase, abort, job, sent, backup>>
        /\ UNCHANGED <<started, unborn, completed, verified, stagingVars>>
    BY <1>4 DEF End, target, backupVars, history
  <2>2. ProgrammerType'
    BY <2>1 DEF TypeInv, TypeOK, ProgrammerType
  <2>3. StagingType'
    BY <2>1 DEF TypeInv, TypeOK, StagingType, stagingVars
  <2>4. Bounded'
    BY <2>1 DEF TypeInv, Bounded, stagingVars, appVars, bounds
  <2> QED
    BY <2>2, <2>3, <2>4 DEF TypeInv, TypeOK, appVars, bounds
<1> QED
  BY <1>2, <1>3, <1>4

\* What a message may leave where the programmer stays as it is: the types of
\* what it has changed, and the facts of Bounded about the piece it goes to.
LEMMA MessageType ==
    ASSUME TypeInv, UNCHANGED <<programmerVars, doomed, resets, reboots>>,
           StagingType', app' \in App, accepted' \in SUBSET Operation, resetting' \in BOOLEAN,
           frames' \in 0 .. MaxFrames,
           app'.at = "COUNT" => written' < Capacity,
           app'.at = "ERASE" => app'.image \in Image,
           app'.at = "CREATE" => app'.op \in Operation
    PROVE  TypeInv'
<1>1. ProgrammerType' /\ Bounded'
  BY DEF TypeInv, TypeOK, ProgrammerType, Bounded, programmerVars, target, control, backupVars,
         history
<1> QED
  BY <1>1 DEF TypeInv, TypeOK, App

\* The session changes of the Gateway, which leave app_rx_task where it is.
LEMMA EventType ==
    ASSUME TypeInv, PeerEpochReset \/ PeerEpochInvalidate PROVE TypeInv'
<1>1. CASE PeerEpochReset
  <2>1. UNCHANGED <<stagingVars, programmerVars, app, doomed, accepted, frames, reboots>>
    BY <1>1 DEF PeerEpochReset
  <2>2. StagingType' /\ ProgrammerType'
    BY <2>1 DEF TypeInv, TypeOK, StagingType, ProgrammerType, stagingVars, programmerVars, target,
                control, backupVars, history
  <2>3. Bounded'
    BY <2>1 DEF TypeInv, Bounded, stagingVars, programmerVars, control
  <2>4. resets' \in 0 .. MaxResets /\ resetting' \in BOOLEAN
    BY <1>1, BoundsAssumption DEF PeerEpochReset, TypeInv, TypeOK
  <2> QED
    BY <2>1, <2>2, <2>3, <2>4 DEF TypeInv, TypeOK
<1>2. CASE PeerEpochInvalidate
  <2>1. /\ UNCHANGED <<programmerVars, app, doomed, accepted, bounds>> /\ resetting' = FALSE
        /\ manifest' = NoImage /\ written' = 0 /\ ready' = FALSE /\ UNCHANGED staged
    BY <1>2 DEF PeerEpochInvalidate, Invalidate
  <2>2. StagingType'
    <3>1. StagingType /\ 0 \in 0 .. Capacity
      BY ImageAssumption DEF TypeInv, TypeOK
    <3> QED
      BY <2>1, <3>1 DEF StagingType
  <2>3. app.at = "COUNT" => 0 < Capacity
    BY ImageAssumption DEF TypeInv, TypeOK, StagingType, Bounded
  <2> QED
    BY <2>1, <2>2, <2>3, MessageType DEF TypeInv, TypeOK, Bounded, App, bounds
<1> QED
  BY <1>1, <1>2

LEMMA StagedMessageType ==
    ASSUME TypeInv,
           \/ \E i \in Image : ImageBegin(i) \/ \E k \in 1 .. Len(Data[i]) : ImageData(i, k)
           \/ ImageErase \/ ImageCount \/ ImageMark
    PROVE  TypeInv'
<1> USE DEF Take, Runs, Goes, Finish, Idle, Same, bounds
<1>1. /\ app \in App /\ StagingType /\ accepted \in SUBSET Operation /\ resetting \in BOOLEAN
      /\ frames \in 0 .. MaxFrames
  BY DEF TypeInv, TypeOK, App
<1>2. [at |-> "IDLE", image |-> NoImage, op |-> 0] \in App
  BY DEF App, Stage
<1>3. ASSUME NEW i \in Image, ImageBegin(i) PROVE TypeInv'
  <2>1. /\ manifest' = i /\ written' = 0 /\ ready' = FALSE /\ UNCHANGED staged
        /\ UNCHANGED <<programmerVars, doomed, resets, reboots, accepted, resetting>>
        /\ app' = [Idle EXCEPT !.at = "ERASE", !.image = i]
        /\ frames < MaxFrames /\ frames' = frames + 1
    BY <1>3 DEF ImageBegin, BeginImage
  <2>2. StagingType'
    <3>1. 0 \in 0 .. Capacity
      BY ImageAssumption
    <3> QED
      BY <1>1, <2>1, <3>1 DEF StagingType
  <2>3. app' \in App /\ app'.at = "ERASE" /\ app'.image \in Image
    BY <1>2, <2>1 DEF App, Stage
  <2>4. frames' \in 0 .. MaxFrames
    BY <1>1, <2>1, BoundsAssumption
  <2> QED
    BY <1>1, <2>1, <2>2, <2>3, <2>4, MessageType
<1>4. ASSUME NEW i \in Image, NEW k \in 1 .. Len(Data[i]), ImageData(i, k) PROVE TypeInv'
  <2>1. /\ UNCHANGED <<programmerVars, doomed, resets, reboots, accepted, resetting>>
        /\ frames' \in 0 .. MaxFrames /\ k = written + 1 /\ k <= TotalLength
    BY <1>1, <1>4, BoundsAssumption DEF ImageData, InSequence
  <2>2. k \in 1 .. Capacity /\ written < Capacity /\ Data[i][k] \in Content
    BY <1>1, <2>1, TotalLengthType, DataFacts, ImageAssumption DEF StagingType
  <2>3. StagingType' /\ UNCHANGED written
    <3>1. CASE WriteBlock(k, Data[i][k])
      BY <1>1, <2>2, <3>1, ImageAssumption DEF WriteBlock, Written, StagingType
    <3>2. CASE FailBlock(k)
      BY <1>1, <2>2, <3>2, ImageAssumption DEF FailBlock, StagingType
    <3> QED
      BY <1>4, <3>1, <3>2 DEF ImageData
  <2>4. app' \in App /\ app'.at \in {"COUNT", "IDLE"}
    <3>1. CASE app' = [app EXCEPT !.at = "COUNT"]
      BY <1>1, <3>1 DEF App, Stage
    <3>2. CASE app' = [at |-> "IDLE", image |-> NoImage, op |-> 0]
      BY <1>2, <3>2
    <3> QED
      BY <1>4, <3>1, <3>2 DEF ImageData
  <2> QED
    BY <1>1, <2>1, <2>2, <2>3, <2>4, MessageType
<1>5. CASE ImageErase
  <2>1. /\ EraseImage(app.image) /\ app.image \in Image
        /\ UNCHANGED <<programmerVars, doomed, resets, reboots, accepted, resetting, frames>>
        /\ app' = [at |-> "IDLE", image |-> NoImage, op |-> 0]
    BY <1>5 DEF ImageErase, TypeInv, Bounded
  <2>2. StagingType'
    BY <1>1, <2>1, ImageAssumption DEF EraseImage, StagingType
  <2> QED
    BY <1>1, <1>2, <2>1, <2>2, MessageType
<1>6. CASE ImageCount
  <2>1. /\ written' = written + 1 /\ UNCHANGED <<staged, manifest, ready>>
        /\ UNCHANGED <<programmerVars, doomed, resets, reboots, accepted, resetting, frames>>
        /\ app' = [at |-> "IDLE", image |-> NoImage, op |-> 0] /\ written < Capacity
    BY <1>6 DEF ImageCount, CountBlock, TypeInv, Bounded
  <2>2. written' \in 0 .. Capacity
    BY <1>1, <2>1, ImageAssumption DEF StagingType
  <2>3. StagingType'
    BY <1>1, <2>1, <2>2 DEF StagingType
  <2> QED
    BY <1>1, <1>2, <2>1, <2>3, MessageType
<1>7. CASE ImageMark
  <2>1. /\ ready' = TRUE /\ UNCHANGED <<staged, manifest, written>>
        /\ UNCHANGED <<programmerVars, doomed, resets, reboots, accepted, resetting, frames>>
        /\ app' = [at |-> "IDLE", image |-> NoImage, op |-> 0]
    BY <1>7 DEF ImageMark, MarkReady
  <2>2. StagingType'
    BY <1>1, <2>1 DEF StagingType
  <2> QED
    BY <1>1, <1>2, <2>1, <2>2, MessageType
<1> QED
  BY <1>3, <1>4, <1>5, <1>6, <1>7

\* A message that leaves the staged image as it is.
LEMMA ControlType ==
    ASSUME TypeInv, UNCHANGED stagingVars, ProgrammerType', app' \in App,
           accepted' \in SUBSET Operation, UNCHANGED <<resetting, doomed, resets, reboots>>,
           frames' \in 0 .. MaxFrames,
           app'.at \notin {"COUNT", "ERASE"}, app'.at = "CREATE" => app'.op \in Operation,
           job' \in Job, task' # "NONE" => operationId' \in Operation,
           task' = "FLASH" /\ job'.at \in Working => job'.image \in Image
    PROVE  TypeInv'
<1>1. StagingType'
  BY DEF TypeInv, TypeOK, StagingType, stagingVars
<1>2. Bounded'
  BY DEF TypeInv, Bounded
<1> QED
  BY <1>1, <1>2 DEF TypeInv, TypeOK, App

LEMMA QuietControlType ==
    ASSUME TypeInv, UNCHANGED stagingVars, ProgrammerType', app' \in App,
           accepted' \in SUBSET Operation, UNCHANGED <<resetting, doomed, resets, reboots>>,
           frames' \in 0 .. MaxFrames, app'.at \notin {"COUNT", "ERASE", "CREATE"},
           UNCHANGED <<task, operationId, job>>
    PROVE  TypeInv'
<1>1. /\ job' \in Job
      /\ task' # "NONE" => operationId' \in Operation
      /\ task' = "FLASH" /\ job'.at \in Working => job'.image \in Image
  BY DEF TypeInv, Bounded
<1> QED
  BY <1>1, ControlType

\* A task that is created has an operation, and no image yet.
LEMMA CreateType ==
    ASSUME TypeInv, NEW kind \in {"FLASH", "BACKUP"}, NEW op \in Operation,
           NEW step \in {"COPY", "CONNECT"}, kind = "FLASH" => step = "COPY",
           Create(kind, op, step), sent' \in Seq(Content), backup' \in Status \cup {"NONE"}
    PROVE  /\ ProgrammerType' /\ job' \in Job
           /\ task' # "NONE" => operationId' \in Operation
           /\ task' = "FLASH" /\ job'.at \in Working => job'.image \in Image
<1>1. job \in Job /\ ProgrammerType
  BY DEF TypeInv, TypeOK, Bounded
<1>2. /\ task = "NONE" /\ operationId' = op /\ abort' = FALSE
      /\ UNCHANGED <<flash, swd, phase, completed, verified>>
  BY DEF Create, target
<1>3. CASE /\ task' = kind
           /\ job' = [job EXCEPT !.at = step, !.pos = 1, !.hashed = <<>>, !.status = "OK"]
           /\ started' = IF kind = "FLASH" THEN started \cup {op} ELSE started
           /\ UNCHANGED unborn
  <2>1. step \in Step /\ "OK" \in Status /\ 1 \in Nat \ {0} /\ <<>> \in Seq(Content)
    BY EmptySeq DEF Step, Status
  <2>2. job' \in Job
    BY <1>1, <1>3, <2>1, Zenon DEF Job
  <2>3. job'.at = step
    BY <1>1, <1>3 DEF Job
  <2>4. ProgrammerType'
    BY <1>1, <1>2, <1>3, <2>2 DEF ProgrammerType, Job
  <2> QED
    BY <1>2, <1>3, <2>2, <2>3, <2>4 DEF Working
<1>4. CASE unborn' = unborn \cup {op} /\ UNCHANGED <<task, job, started>>
  BY <1>1, <1>2, <1>4 DEF ProgrammerType
<1> QED
  BY <1>3, <1>4 DEF Create

LEMMA ControlMessageType ==
    ASSUME TypeInv,
           \/ ImageEnd \/ \E op \in Operation : ProgramStart(op) \/ TargetBackup(op)
           \/ ProgramCreate \/ ProgramAbort \/ TargetReset \/ TargetQuery \/ TargetReply
    PROVE  TypeInv'
<1> USE DEF Take, Runs, Goes, Finish, Same, bounds
<1>1. /\ app \in App /\ ProgrammerType /\ accepted \in SUBSET Operation /\ resetting \in BOOLEAN
      /\ doomed \in BOOLEAN /\ frames \in 0 .. MaxFrames /\ manifest \in Image \cup {NoImage}
      /\ job \in Job
  BY DEF TypeInv, TypeOK, App, Bounded, StagingType
<1>3. Idle \in App /\ Idle.at = "IDLE"
  BY DEF Idle, App, Stage
<1>4. frames < MaxFrames => frames + 1 \in 0 .. MaxFrames
  BY <1>1, BoundsAssumption
<1>5. CASE ImageEnd
  <2>1. /\ verified' = verified \cup {manifest} /\ manifest \in Image
        /\ UNCHANGED <<flash, swd, task, operationId, phase, abort, job, sent, backup, started>>
        /\ UNCHANGED <<unborn, completed, stagingVars, accepted, resetting, doomed, resets, reboots>>
        /\ app' = [app EXCEPT !.at = "MARK"] /\ frames' \in 0 .. MaxFrames
    BY <1>1, <1>4, <1>5 DEF ImageEnd, Complete, target, control, backupVars
  <2>2. ProgrammerType'
    BY <1>1, <2>1 DEF ProgrammerType
  <2>3. app' \in App /\ app'.at = "MARK"
    BY <1>1, <2>1 DEF App, Stage
  <2> QED
    BY <1>1, <2>1, <2>2, <2>3, QuietControlType
<1>6. ASSUME NEW op \in Operation, ProgramStart(op) PROVE TypeInv'
  <2>1. /\ UNCHANGED <<stagingVars, programmerVars, accepted, resetting, doomed, resets, reboots>>
        /\ app' = [Idle EXCEPT !.at = "CREATE", !.op = op] /\ frames' \in 0 .. MaxFrames
    BY <1>4, <1>6 DEF ProgramStart
  <2>2. app' \in App /\ app'.at = "CREATE" /\ app'.op = op
    BY <1>3, <2>1 DEF App, Stage
  <2>3. StagingType'
    BY <2>1 DEF TypeInv, TypeOK, StagingType, stagingVars
  <2> QED
    BY <1>1, <2>1, <2>2, <2>3, MessageType
<1>7. ASSUME NEW op \in Operation, TargetBackup(op) PROVE TypeInv'
  <2>1. /\ UNCHANGED <<stagingVars, app, accepted, resetting, doomed, resets, reboots>>
        /\ frames' \in 0 .. MaxFrames /\ Create("BACKUP", op, "CONNECT")
        /\ sent' = <<>> /\ backup' = "NONE" /\ app.at = "IDLE"
    BY <1>4, <1>7 DEF TargetBackup, StartBackup
  <2>2. sent' \in Seq(Content)
    BY <2>1, EmptySeq
  <2>3. /\ ProgrammerType' /\ job' \in Job
        /\ task' # "NONE" => operationId' \in Operation
        /\ task' = "FLASH" /\ job'.at \in Working => job'.image \in Image
    BY <2>1, <2>2, CreateType
  <2> QED
    BY <1>1, <2>1, <2>3, ControlType
<1>8. CASE ProgramCreate
  <2>1. /\ UNCHANGED <<stagingVars, resetting, doomed, frames, resets, reboots>>
        /\ app.op \in Operation /\ app' = Idle /\ StartFlash(app.op)
    BY <1>8 DEF ProgramCreate, TypeInv, Bounded
  <2>2. accepted' \in SUBSET Operation
    BY <1>1, <1>8, <2>1 DEF ProgramCreate
  <2>3. CASE UNCHANGED programmerVars
    <3>1. StagingType'
      BY <2>1 DEF TypeInv, TypeOK, StagingType, stagingVars
    <3> QED
      BY <1>1, <1>3, <2>1, <2>2, <2>3, <3>1, MessageType
  <2>4. CASE Create("FLASH", app.op, "COPY") /\ UNCHANGED backupVars
    <3>1. sent' \in Seq(Content) /\ backup' \in Status \cup {"NONE"}
      BY <1>1, <2>4 DEF ProgrammerType, backupVars
    <3>2. /\ ProgrammerType' /\ job' \in Job
          /\ task' # "NONE" => operationId' \in Operation
          /\ task' = "FLASH" /\ job'.at \in Working => job'.image \in Image
      BY <2>1, <2>4, <3>1, CreateType
    <3> QED
      BY <1>1, <1>3, <2>1, <2>2, <3>2, ControlType
  <2> QED
    BY <2>1, <2>3, <2>4 DEF StartFlash
<1>9. CASE ProgramAbort
  <2>1. /\ UNCHANGED <<flash, swd, task, operationId, phase, job, sent, backup, started, unborn>>
        /\ UNCHANGED <<completed, verified, stagingVars, app, accepted, resetting, doomed, resets>>
        /\ UNCHANGED reboots /\ abort' = TRUE /\ frames' \in 0 .. MaxFrames /\ app.at = "IDLE"
    BY <1>4, <1>9 DEF ProgramAbort, Abort, target, backupVars, history
  <2>2. ProgrammerType'
    BY <1>1, <2>1 DEF ProgrammerType
  <2> QED
    BY <1>1, <2>1, <2>2, QuietControlType
<1>10. CASE TargetReset \/ TargetQuery
  <2>1. /\ UNCHANGED <<flash, task, operationId, abort, job, sent, backup, started, unborn>>
        /\ UNCHANGED <<completed, verified, stagingVars, accepted, resetting, doomed, resets>>
        /\ UNCHANGED reboots /\ phase' \in {phase, "CONNECT"} /\ swd' = swd \cup {"APP"}
        /\ frames' \in 0 .. MaxFrames
    BY <1>4, <1>10 DEF TargetReset, TargetQuery, control, backupVars, history
  <2>2. PICK stage \in {"RESET", "QUERY"} : app' = [app EXCEPT !.at = stage]
    BY <1>10 DEF TargetReset, TargetQuery
  <2>3. app' \in App /\ app'.at = stage
    BY <1>1, <2>2 DEF App, Stage
  <2>4. ProgrammerType'
    BY <1>1, <2>1 DEF ProgrammerType, Phase
  <2> QED
    BY <1>1, <2>1, <2>3, <2>4, QuietControlType
<1>11. CASE TargetReply
  <2>1. /\ UNCHANGED <<flash, task, operationId, abort, job, sent, backup, started, unborn>>
        /\ UNCHANGED <<completed, verified, stagingVars, accepted, resetting, doomed, resets>>
        /\ UNCHANGED <<frames, reboots>> /\ phase' \in {phase, "CONNECT", "IDENTIFY"}
        /\ swd' = swd \ {"APP"} /\ app' = Idle
    BY <1>11 DEF TargetReply, backupVars, history
  <2>2. ProgrammerType'
    BY <1>1, <2>1 DEF ProgrammerType, Phase
  <2> QED
    BY <1>1, <1>3, <2>1, <2>2, QuietControlType
<1> QED
  BY <1>5, <1>6, <1>7, <1>8, <1>9, <1>10, <1>11

\* The watchdog warns before it restarts the Probe, and a restart leaves the
\* partition and the target's flash alone.
LEMMA RestartType ==
    ASSUME TypeInv, WatchdogExpires \/ WatchdogRestarts \/ PowerLoss PROVE TypeInv'
<1>1. CASE WatchdogExpires
  <2>1. /\ UNCHANGED <<flash, swd, task, operationId, phase, job, sent, backup, started, unborn>>
        /\ UNCHANGED <<completed, verified, stagingVars, app, accepted, resetting, bounds>>
        /\ abort' = TRUE /\ doomed' = TRUE /\ reboots < MaxReboots
    BY <1>1 DEF WatchdogExpires, Abort, target, backupVars, history
  <2>2. ProgrammerType'
    BY <2>1 DEF TypeInv, TypeOK, ProgrammerType
  <2>3. StagingType'
    BY <2>1 DEF TypeInv, TypeOK, StagingType, stagingVars
  <2>4. Bounded'
    BY <2>1 DEF TypeInv, Bounded, stagingVars, bounds
  <2> QED
    BY <2>1, <2>2, <2>3, <2>4 DEF TypeInv, TypeOK, bounds
<1>2. CASE WatchdogRestarts \/ PowerLoss
  <2>1. Restart /\ reboots < MaxReboots /\ reboots' = reboots + 1
    BY <1>2 DEF WatchdogRestarts, PowerLoss, TypeInv, Bounded
  <2> DEFINE new == [at |-> "END", image |-> NoImage, pos |-> 1, hashed |-> <<>>, status |-> "OK"]
  <2>2. new \in Job
    <3>1. /\ "END" \in Step /\ "OK" \in Status /\ 1 \in Nat \ {0} /\ <<>> \in Seq(Content)
          /\ NoImage \in Image \cup {NoImage}
      BY EmptySeq DEF Step, Status
    <3> QED
      BY <3>1, Zenon DEF Job
  <2>3. /\ UNCHANGED <<staged, flash, frames, resets>> /\ manifest' = NoImage /\ written' = 0
        /\ ready' = FALSE /\ swd' = {} /\ task' = "NONE" /\ operationId' = 0 /\ phase' = "IDLE"
        /\ abort' = FALSE /\ job' = new /\ sent' = <<>> /\ backup' = "NONE" /\ started' = {}
        /\ unborn' = {} /\ completed' = {} /\ verified' = {} /\ app' = Idle
        /\ resetting' = FALSE /\ doomed' = FALSE /\ accepted' = {}
    BY <2>1 DEF Restart
  <2> HIDE DEF new
  <2>4. StagingType'
    <3>1. StagingType /\ 0 \in 0 .. Capacity
      BY ImageAssumption DEF TypeInv, TypeOK
    <3> QED
      BY <2>3, <3>1 DEF StagingType
  <2>5. ProgrammerType'
    <3>1. flash \in [1 .. Sectors -> Content] /\ <<>> \in Seq(Content)
      BY EmptySeq DEF TypeInv, TypeOK, ProgrammerType
    <3> QED
      BY <2>2, <2>3, <3>1 DEF ProgrammerType, Phase, Job
  <2>6. Idle \in App /\ Idle.at = "IDLE"
    BY DEF Idle, App, Stage
  <2>7. Bounded'
    BY <2>2, <2>3, <2>6 DEF Bounded
  <2>8. reboots' \in 0 .. MaxReboots /\ frames \in 0 .. MaxFrames /\ resets \in 0 .. MaxResets
    BY <2>1, BoundsAssumption DEF TypeInv, TypeOK
  <2> QED
    BY <2>3, <2>4, <2>5, <2>6, <2>7, <2>8 DEF TypeInv, TypeOK, App
<1> QED
  BY <1>1, <1>2

LEMMA NextType == TypeInv /\ [Next]_vars => TypeInv'
<1> SUFFICES ASSUME TypeInv, [Next]_vars PROVE TypeInv'
  OBVIOUS
<1>1. CASE AppRxTask
  BY <1>1, StagedMessageType, ControlMessageType DEF AppRxTask
<1>2. CASE TargetTask
  BY <1>2, FlashTaskType, BackupTaskType, SharedTaskType DEF TargetTask, ProgrammerTask
<1>3. CASE UNCHANGED vars
  <2>1. StagingType' /\ ProgrammerType'
    BY <1>3 DEF TypeInv, TypeOK, StagingType, ProgrammerType, vars, stagingVars, programmerVars,
                target, control, backupVars, history
  <2>2. Bounded'
    BY <1>3 DEF TypeInv, Bounded, vars, stagingVars, programmerVars, control, appVars, bounds
  <2> QED
    BY <1>3, <2>1, <2>2 DEF TypeInv, TypeOK, vars, appVars, bounds
<1> QED
  BY <1>1, <1>2, <1>3, EventType, RestartType DEF Next

\* TypeOK: the state of probe_app, of the staged image and of the programmer keeps
\* its types through every message, task step, session change and restart.
THEOREM TypeCorrect == Spec => []TypeOK
<1>1. TypeInv => TypeOK
  BY DEF TypeInv
<1> QED
  BY <1>1, InitType, NextType, PTL DEF Spec

-----------------------------------------------------------------------------
(***************************************************************************)
(* The staged image.                                                       *)
(***************************************************************************)

LEMMA InitSafety == Init => SafetyInv
BY DEF Init, StagingInit, ProgrammerInit, SafetyInv, StagedInv, VerifiedInv, ReadBackInv, BackupInv,
       AcceptedInv, AcceptedRan, Flashing

LEMMA NextStaged ==
    ASSUME TypeInv, StagedInv, [Next]_vars PROVE StagedInv'
<1> USE DEF Take, Runs, Goes, Finish, Idle, Same
<1>1. app \in App /\ written \in 0 .. Capacity /\ manifest \in Image \cup {NoImage}
  BY DEF TypeInv, TypeOK, StagingType, App
<1>2. ASSUME UNCHANGED stagingVars, app' = app \/ app'.at \notin {"ERASE", "COUNT", "MARK"}
      PROVE  StagedInv'
  BY <1>2 DEF StagedInv, stagingVars, Holds, TotalLength
<1>3. ASSUME ready' = FALSE, app'.at # "MARK" \/ manifest' = NoImage PROVE StagedInv'
  BY <1>3 DEF StagedInv
<1>4. ASSUME NEW i \in Image, ImageBegin(i) PROVE StagedInv'
  <2>1. ready' = FALSE /\ app'.at = "ERASE"
    BY <1>4 DEF ImageBegin, BeginImage
  <2> QED
    BY <1>3, <2>1
<1>5. ASSUME NEW i \in Image, NEW k \in 1 .. Len(Data[i]), ImageData(i, k) PROVE StagedInv'
  <2>1. k = written + 1 /\ k <= TotalLength /\ UNCHANGED <<ready, manifest>>
    BY <1>5 DEF ImageData, InSequence, WriteBlock, FailBlock
  <2>2. written # TotalLength /\ manifest # NoImage
    BY <1>1, <2>1, TotalLengthType, ImageAssumption
  <2>3. ~ready
    BY <2>2 DEF StagedInv
  <2>4. app'.at \in {"COUNT", "IDLE"}
    BY <1>1, <1>5 DEF ImageData, App
  <2>5. ~ready'
    BY <2>1, <2>3
  <2> QED
    BY <2>4, <2>5 DEF StagedInv
<1>6. CASE ImageErase \/ ImageCount
  <2>1. app.at \in {"ERASE", "COUNT"} /\ app'.at = "IDLE" /\ ready' = ready
    BY <1>6 DEF ImageErase, ImageCount, EraseImage, CountBlock
  <2> QED
    BY <2>1 DEF StagedInv
<1>7. CASE ImageEnd
  <2>1. Holds(manifest) /\ written = TotalLength /\ UNCHANGED stagingVars
    BY <1>7 DEF ImageEnd, Complete
  <2>2. app'.at = "MARK"
    BY <1>1, <1>7 DEF ImageEnd, App
  <2> QED
    BY <2>1, <2>2 DEF StagedInv, stagingVars, Holds, TotalLength
<1>8. CASE ImageMark
  <2>1. app.at = "MARK" /\ app'.at = "IDLE" /\ UNCHANGED <<staged, manifest, written>>
    BY <1>8 DEF ImageMark, MarkReady
  <2> QED
    BY <2>1 DEF StagedInv, Holds, TotalLength
<1>9. ASSUME NEW op \in Operation, ProgramStart(op) \/ TargetBackup(op) PROVE StagedInv'
  <2>1. UNCHANGED stagingVars /\ (app' = app \/ app'.at = "CREATE")
    BY <1>9 DEF ProgramStart, TargetBackup
  <2> QED
    BY <1>2, <2>1
<1>10. CASE ProgramCreate \/ ProgramAbort \/ TargetReset \/ TargetQuery \/ TargetReply
  <2>1. UNCHANGED stagingVars /\ (app' = app \/ app'.at \in {"IDLE", "RESET", "QUERY"})
    BY <1>1, <1>10 DEF ProgramCreate, ProgramAbort, TargetReset, TargetQuery, TargetReply, App
  <2> QED
    BY <1>2, <2>1
<1>11. CASE TargetTask
  <2>1. UNCHANGED <<stagingVars, app>>
    BY <1>11 DEF TargetTask, appVars, ProgrammerTask, FlashTask, CopyManifest, Prepare, Stops,
         EraseSector, Leaves, ProgramBlock, VerifyBlock, VerifyImage, ResetTarget, Report, Execute,
         Quiet, BackupTask, PrepareBackup, ReadBlock, EndReading, ResetAfterBackup, ReportBackup,
         QuietBackup, Connect, Disconnect, End
  <2> QED
    BY <1>2, <2>1
<1>12. CASE PeerEpochReset \/ WatchdogExpires \/ UNCHANGED vars
  BY <1>2, <1>12 DEF PeerEpochReset, WatchdogExpires, vars, appVars
<1>13. CASE PeerEpochInvalidate \/ WatchdogRestarts \/ PowerLoss
  BY <1>3, <1>13 DEF PeerEpochInvalidate, Invalidate, WatchdogRestarts, PowerLoss, Restart
<1> QED
  BY <1>4, <1>5, <1>6, <1>7, <1>8, <1>9, <1>10, <1>11, <1>12, <1>13 DEF Next, AppRxTask

\* ReadyIsStaged: an image that is ready is in the partition, block for block,
\* whatever begins, failed writes, session changes and restarts came before; a
\* PEER_EPOCH_RESET between two messages can only make it not ready.
THEOREM ReadyImageIsStaged == Spec => []ReadyIsStaged
<1> DEFINE Inv == TypeInv /\ StagedInv
<1>1. Init => Inv
  BY InitType, InitSafety DEF SafetyInv
<1>2. Inv /\ [Next]_vars => Inv'
  BY NextType, NextStaged
<1>3. Inv => ReadyIsStaged
  BY DEF StagedInv, ReadyIsStaged
<1> QED
  BY <1>1, <1>2, <1>3, PTL DEF Spec

-----------------------------------------------------------------------------
(***************************************************************************)
(* What each kind of step does to the programmer.                          *)
(***************************************************************************)

\* The programmer's operations stand still; at most a query reports its phase.
Rests ==
    /\ UNCHANGED <<flash, task, operationId, job, sent, backup, started, unborn, completed>>
    /\ phase' \in {phase, "CONNECT", "IDENTIFY"}

\* The messages that create no task, and the events, leave it at rest.
QuietStep ==
    \/ \E i \in Image : ImageBegin(i) \/ \E k \in 1 .. Len(Data[i]) : ImageData(i, k)
    \/ ImageErase \/ ImageCount \/ ImageEnd \/ ImageMark
    \/ \E op \in Operation : ProgramStart(op)
    \/ ProgramAbort \/ TargetReset \/ TargetQuery \/ TargetReply
    \/ PeerEpochReset \/ PeerEpochInvalidate \/ WatchdogExpires \/ UNCHANGED vars

LEMMA QuietRests ==
    ASSUME QuietStep PROVE Rests
<1> USE DEF Rests, programmerVars, target, control, backupVars, history, Abort
<1>1. ASSUME NEW i \in Image, ImageBegin(i) PROVE Rests
  BY <1>1 DEF ImageBegin
<1>2. ASSUME NEW i \in Image, NEW k \in 1 .. Len(Data[i]), ImageData(i, k) PROVE Rests
  BY <1>2 DEF ImageData
<1>3. CASE ImageErase \/ ImageCount \/ ImageEnd \/ ImageMark
  BY <1>3 DEF ImageErase, ImageCount, ImageEnd, ImageMark
<1>4. ASSUME NEW op \in Operation, ProgramStart(op) PROVE Rests
  BY <1>4 DEF ProgramStart
<1>5. CASE ProgramAbort \/ TargetReset \/ TargetQuery \/ TargetReply
  BY <1>5 DEF ProgramAbort, TargetReset, TargetQuery, TargetReply
<1>6. CASE PeerEpochReset \/ PeerEpochInvalidate \/ WatchdogExpires \/ UNCHANGED vars
  BY <1>6 DEF PeerEpochReset, PeerEpochInvalidate, WatchdogExpires, vars
<1> QED
  BY <1>1, <1>2, <1>3, <1>4, <1>5, <1>6 DEF QuietStep

\* Any step leaves the programmer at rest, creates a task, is a task's, or restarts
\* the Probe.
LEMMA StepKinds ==
    ASSUME [Next]_vars
    PROVE  \/ QuietStep
           \/ ProgramCreate \/ \E op \in Operation : TargetBackup(op)
           \/ TargetTask \/ Restart
BY DEF Next, AppRxTask, WatchdogRestarts, PowerLoss, QuietStep

\* A created task starts at its first step with nothing read back; where none is
\* created, only the operation's id and the history change.
LEMMA Created ==
    ASSUME TypeInv, NEW kind, NEW op, NEW step \in Step, Create(kind, op, step)
    PROVE  /\ task = "NONE" /\ UNCHANGED <<flash, phase, completed, verified>>
           /\ operationId' = op
           /\ \/ /\ task' = kind /\ job'.at = step /\ job'.hashed = <<>> /\ job'.pos = 1
                 /\ started' = IF kind = "FLASH" THEN started \cup {op} ELSE started
                 /\ UNCHANGED unborn
              \/ UNCHANGED <<task, job, started>> /\ unborn' = unborn \cup {op}
BY DEF Create, target, TypeInv, Bounded, Job

\* The steps of a flash task: its image and its operation stay; what it may read
\* back stays but in the verification.
LEMMA FlashTaskShape ==
    ASSUME FlashTask
    PROVE  /\ task = "FLASH" /\ job.at \in Working \cup {"COPY", "REPORT"}
           /\ UNCHANGED <<task, operationId, abort, sent, backup, started, unborn, verified>>
           /\ UNCHANGED stagingVars
BY DEF FlashTask, CopyManifest, Prepare, Stops, EraseSector, Leaves, ProgramBlock, VerifyBlock,
       VerifyImage, ResetTarget, Report, Execute, Flashing, Loops, Quiet, backupVars, Working

LEMMA BackupTaskShape ==
    ASSUME BackupTask
    PROVE  /\ task = "BACKUP"
           /\ UNCHANGED <<flash, task, operationId, started, unborn, completed, verified>>
           /\ UNCHANGED stagingVars
BY DEF BackupTask, PrepareBackup, ReadBlock, EndReading, ResetAfterBackup, ReportBackup,
       BackingUp, QuietBackup, target, history

\* The steps the tasks share touch neither the target's flash nor the history.
LEMMA SharedTaskShape ==
    ASSUME TypeInv, Connect \/ Disconnect \/ End
    PROVE  /\ task # "NONE" /\ task' \in {task, "NONE"}
           /\ UNCHANGED <<flash, operationId, sent, backup, started, unborn, completed, verified>>
           /\ UNCHANGED stagingVars
           /\ job'.image = job.image /\ job'.hashed = job.hashed /\ job'.pos \in {1, job.pos}
           /\ \/ /\ job.at = "CONNECT" /\ job'.at = "PREPARE" /\ phase' = "CONNECT"
                 /\ UNCHANGED task
              \/ /\ job.at = "DISCONNECT" /\ job'.status = job.status /\ UNCHANGED <<task, phase>>
                 /\ job'.at = IF task = "FLASH" THEN "END" ELSE "REPORT"
              \/ task' = "NONE" /\ UNCHANGED <<job, phase>>
<1>1. job \in Job
  BY DEF TypeInv, Bounded
<1>2. CASE Connect
  <2>1. At("PREPARE", "OK")
    BY <1>2 DEF Connect
  <2> QED
    BY <1>1, <1>2, <2>1, AtJob DEF Connect, Quiet, backupVars, Step, Status
<1>3. CASE Disconnect
  <2>1. At(IF task = "FLASH" THEN "END" ELSE "REPORT", job.status) /\ job.status \in Status
    BY <1>1, <1>3 DEF Disconnect, Job
  <2>2. (IF task = "FLASH" THEN "END" ELSE "REPORT") \in Step
    BY DEF Step
  <2> QED
    BY <1>1, <1>3, <2>1, <2>2, AtJob DEF Disconnect, Quiet, backupVars
<1>4. CASE End
  BY <1>4 DEF End, target, backupVars, history
<1> QED
  BY <1>2, <1>3, <1>4
-----------------------------------------------------------------------------
(***************************************************************************)
(* What is erased and written was received whole.                          *)
(***************************************************************************)

LEMMA QuietVerified ==
    ASSUME TypeInv, VerifiedInv, QuietStep PROVE VerifiedInv'
<1> USE DEF Runs, Take, Finish, Goes, Idle
<1>0. app \in App /\ UNCHANGED <<task, job>>
  BY QuietRests DEF TypeInv, TypeOK, App, Rests
<1>1. ASSUME UNCHANGED <<ready, manifest>>, verified \subseteq verified',
             app'.at \in {"MARK", "CREATE"} => app'.at = app.at
      PROVE  VerifiedInv'
  BY <1>0, <1>1 DEF VerifiedInv, Flashing
<1>2. ASSUME NEW i \in Image, ImageBegin(i) PROVE VerifiedInv'
  <2>1. ready' = FALSE /\ UNCHANGED verified /\ ~Flashing("COPY") /\ app'.at = "ERASE"
    BY <1>2 DEF ImageBegin, BeginImage, programmerVars, history
  <2> QED
    BY <1>0, <2>1 DEF VerifiedInv, Flashing
<1>3. ASSUME NEW i \in Image, NEW k \in 1 .. Len(Data[i]), ImageData(i, k) PROVE VerifiedInv'
  <2>1. UNCHANGED <<ready, manifest, verified>>
    BY <1>3 DEF ImageData, WriteBlock, FailBlock, programmerVars, history
  <2>2. app'.at \in {"COUNT", "IDLE"}
    BY <1>0, <1>3 DEF ImageData, App
  <2> QED
    BY <1>1, <2>1, <2>2
<1>4. CASE ImageErase \/ ImageCount
  <2>1. UNCHANGED <<ready, manifest, verified>> /\ app'.at = "IDLE"
    BY <1>4 DEF ImageErase, ImageCount, EraseImage, CountBlock, programmerVars, history
  <2> QED
    BY <1>1, <2>1
<1>5. CASE ImageEnd
  <2>1. verified' = verified \cup {manifest} /\ UNCHANGED manifest
    BY <1>5 DEF ImageEnd, stagingVars
  <2> QED
    BY <1>0, <2>1 DEF VerifiedInv
<1>6. CASE ImageMark
  <2>1. app.at = "MARK" /\ app'.at = "IDLE" /\ UNCHANGED <<manifest, verified>>
    BY <1>6 DEF ImageMark, MarkReady, programmerVars, history
  <2> QED
    BY <1>0, <2>1 DEF VerifiedInv, Flashing
<1>7. ASSUME NEW op \in Operation, ProgramStart(op) PROVE VerifiedInv'
  <2>1. ready /\ UNCHANGED <<ready, manifest, verified>>
    BY <1>7 DEF ProgramStart, stagingVars, programmerVars, history
  <2> QED
    BY <1>0, <2>1 DEF VerifiedInv, Flashing
<1>8. CASE ProgramAbort \/ TargetReset \/ TargetQuery \/ TargetReply
  <2>1. UNCHANGED <<ready, manifest, verified>> /\ (app' = app \/ app'.at \in {"RESET", "QUERY", "IDLE"})
    BY <1>0, <1>8 DEF ProgramAbort, TargetReset, TargetQuery, TargetReply, Abort, stagingVars,
                      history, App
  <2> QED
    BY <1>1, <2>1
<1>9. CASE PeerEpochInvalidate
  <2>1. manifest' = NoImage /\ UNCHANGED verified
    BY <1>9 DEF PeerEpochInvalidate, Invalidate, programmerVars, history
  <2> QED
    BY <1>0, <2>1 DEF VerifiedInv
<1>10. CASE PeerEpochReset \/ WatchdogExpires \/ UNCHANGED vars
  <2>1. UNCHANGED <<ready, manifest, verified, app>>
    BY <1>10 DEF PeerEpochReset, WatchdogExpires, Abort, vars, stagingVars, programmerVars,
                 history, appVars
  <2> QED
    BY <1>1, <2>1
<1> QED
  BY <1>2, <1>3, <1>4, <1>5, <1>6, <1>7, <1>8, <1>9, <1>10 DEF QuietStep

\* A flash task copies a manifest that was verified and keeps it to its end.
LEMMA FlashTaskVerified ==
    ASSUME TypeInv, VerifiedInv, FlashTask, UNCHANGED app PROVE VerifiedInv'
<1>1. /\ task = "FLASH" /\ job.at \in Working \cup {"COPY", "REPORT"}
      /\ UNCHANGED <<task, verified, stagingVars>> /\ job \in Job
      /\ manifest \in Image \cup {NoImage}
  BY FlashTaskShape DEF TypeInv, TypeOK, Bounded, StagingType
<1>2. ASSUME job'.at # "COPY", job'.at \in Working => job'.image \in verified
      PROVE  VerifiedInv'
  BY <1>1, <1>2 DEF VerifiedInv, Flashing, stagingVars
<1>3. CASE CopyManifest
  <2> DEFINE next == IF manifest = NoImage THEN "REPORT" ELSE "CONNECT"
  <2>1. job'.at = next /\ job'.image = manifest /\ Flashing("COPY")
    BY <1>1, <1>3 DEF CopyManifest, Job
  <2>2. manifest # NoImage => manifest \in verified
    BY <2>1 DEF VerifiedInv
  <2> QED
    BY <1>2, <2>1, <2>2 DEF Working
<1>4. CASE ~CopyManifest
  <2>1. job.at # "COPY" /\ job'.image = job.image /\ job'.at # "COPY"
        /\ (job'.at \in Working => job.at \in Working)
    <3>1. ASSUME NEW step \in Step, NEW status \in Status, At(step, status), step # "COPY",
                 job.at # "COPY", step \in Working => job.at \in Working
          PROVE  /\ job.at # "COPY" /\ job'.image = job.image /\ job'.at # "COPY"
                 /\ (job'.at \in Working => job.at \in Working)
      BY <1>1, <3>1, AtJob
    <3>2. ASSUME job.at # "COPY", Advance
          PROVE  /\ job.at # "COPY" /\ job'.image = job.image /\ job'.at # "COPY"
                 /\ (job'.at \in Working => job.at \in Working)
      BY <1>1, <3>2, AdvanceJob
    <3> USE DEF Flashing, Loops, Step, Status, Working
    <3>3. CASE Prepare \/ VerifyImage \/ ResetTarget
      BY <3>1, <3>3 DEF Prepare, VerifyImage, ResetTarget
    <3>4. CASE Report
      <4>1. job.status \in Status /\ At("DISCONNECT", job.status) /\ job.at = "REPORT"
        BY <1>1, <3>4 DEF Report, Job
      <4> QED
        BY <3>1, <4>1
    <3>5. ASSUME NEW step \in {"ERASE", "PROGRAM", "VERIFY"}, Stops(step)
          PROVE  /\ job.at # "COPY" /\ job'.image = job.image /\ job'.at # "COPY"
                 /\ (job'.at \in Working => job.at \in Working)
      BY <3>1, <3>5 DEF Stops
    <3>6. CASE Leaves("ERASE", "PROGRAM") \/ Leaves("PROGRAM", "VERIFY")
      BY <3>1, <3>6 DEF Leaves
    <3>7. CASE EraseSector \/ ProgramBlock
      <4>1. (Advance \/ At("REPORT", "ERROR")) /\ job.at # "COPY"
        BY <3>7 DEF EraseSector, ProgramBlock, Execute
      <4> QED
        BY <3>1, <3>2, <4>1
    <3>8. CASE VerifyBlock
      <4>1. CASE At("REPORT", "ERROR")
        BY <3>1, <3>8, <4>1 DEF VerifyBlock
      <4>2. CASE job' = [job EXCEPT !.pos = @ + 1,
                                    !.hashed = Append(@, flash[Sector(job.pos)])]
        BY <1>1, <3>8, <4>2 DEF VerifyBlock, Job
      <4> QED
        BY <3>8, <4>1, <4>2 DEF VerifyBlock
    <3> QED
      BY <1>4, <3>3, <3>4, <3>5, <3>6, <3>7, <3>8 DEF FlashTask
  <2>2. job.at \in Working => job.image \in verified
    BY <1>1 DEF VerifiedInv
  <2> QED
    BY <1>2, <2>1, <2>2
<1> QED
  BY <1>3, <1>4

LEMMA NextVerified ==
    ASSUME TypeInv, VerifiedInv, [Next]_vars PROVE VerifiedInv'
<1>1. CASE QuietStep
  BY <1>1, QuietVerified
<1>2. CASE ProgramCreate
  <2>1. app.at = "CREATE" /\ app'.at = "IDLE" /\ UNCHANGED stagingVars
    BY <1>2 DEF ProgramCreate, Runs, Finish, Idle
  <2>2. CASE UNCHANGED programmerVars
    BY <2>1, <2>2 DEF VerifiedInv, Flashing, programmerVars, control, history, stagingVars
  <2>3. CASE Create("FLASH", app.op, "COPY")
    <3>1. /\ UNCHANGED verified /\ task = "NONE"
          /\ (task' = "FLASH" /\ job'.at = "COPY") \/ UNCHANGED <<task, job>>
      BY <2>3, Created DEF Step
    <3> QED
      BY <2>1, <3>1 DEF VerifiedInv, Flashing, stagingVars, Working
  <2> QED
    BY <1>2, <2>2, <2>3 DEF ProgramCreate, StartFlash
<1>3. ASSUME NEW op \in Operation, TargetBackup(op) PROVE VerifiedInv'
  <2>1. Create("BACKUP", op, "CONNECT") /\ UNCHANGED <<app, stagingVars>>
    BY <1>3 DEF TargetBackup, StartBackup
  <2>2. UNCHANGED verified /\ task' # "FLASH"
    BY <2>1, Created DEF Step
  <2> QED
    BY <2>1, <2>2 DEF VerifiedInv, Flashing, stagingVars
<1>4. CASE TargetTask
  <2>1. UNCHANGED app
    BY <1>4 DEF TargetTask, appVars
  <2>2. CASE BackupTask
    BY <2>1, <2>2, BackupTaskShape DEF VerifiedInv, Flashing, stagingVars
  <2>3. CASE Connect \/ Disconnect \/ End
    <3>1. /\ task' \in {task, "NONE"} /\ UNCHANGED <<verified, stagingVars>>
          /\ task' = "FLASH" => /\ job'.at \in {"PREPARE", "END"} /\ job'.image = job.image
                                /\ job'.at = "PREPARE" => job.at = "CONNECT"
      BY <2>3, SharedTaskShape
    <3> QED
      BY <2>1, <3>1 DEF VerifiedInv, Flashing, stagingVars, Working
  <2> QED
    BY <1>4, <2>1, <2>2, <2>3, FlashTaskVerified DEF TargetTask, ProgrammerTask
<1>5. CASE Restart
  BY <1>5 DEF Restart, VerifiedInv, Flashing
<1> QED
  BY <1>1, <1>2, <1>3, <1>4, <1>5, StepKinds

\* Only the erases and the writes of a flash task touch the target's flash.
LEMMA FlashChanges ==
    ASSUME TypeInv, [Next]_vars, flash' # flash
    PROVE  task = "FLASH" /\ job.at \in Working
<1>1. ~Rests /\ ~Restart
  BY DEF Rests, Restart
<1>2. ASSUME NEW op \in Operation PROVE ~TargetBackup(op)
  BY DEF TargetBackup, StartBackup, Create, target
<1>3. ~ProgramCreate
  BY DEF ProgramCreate, StartFlash, Create, programmerVars, target
<1>4. TargetTask
  BY <1>1, <1>2, <1>3, StepKinds, QuietRests
<1>5. FlashTask
  BY <1>4, BackupTaskShape, SharedTaskShape DEF TargetTask, ProgrammerTask
<1>6. EraseSector \/ ProgramBlock
  BY <1>5 DEF FlashTask, CopyManifest, Prepare, Stops, Leaves, VerifyBlock, VerifyImage,
         ResetTarget, Report, target
<1> QED
  BY <1>6 DEF EraseSector, ProgramBlock, Loops, Flashing, Working

\* EraseNeedsImage: whatever session changes and messages come between the end of
\* an image, the start of the operation and its task, the target is erased and
\* written only for an image that datlink_storage_finalize passed since boot.
THEOREM ErasedForVerifiedImage == Spec => EraseNeedsImage
<1> DEFINE Inv == TypeInv /\ VerifiedInv
<1>1. Init => Inv
  BY InitType, InitSafety DEF SafetyInv
<1>2. Inv /\ [Next]_vars => Inv'
  BY NextType, NextVerified
<1>3. Inv /\ [Next]_vars => [flash' # flash => job.image \in verified]_vars
  BY FlashChanges DEF VerifiedInv
<1> QED
  BY <1>1, <1>2, <1>3, PTL DEF Spec, EraseNeedsImage

-----------------------------------------------------------------------------
(***************************************************************************)
(* What is reported DONE.                                                  *)
(***************************************************************************)

\* A step of a flash task that leaves the target's flash, its image and what it
\* has read alone, and does not enter or leave the part that relates them.
LEMMA ReadBackKept ==
    ASSUME TypeInv, ReadBackInv, task = "FLASH",
           UNCHANGED <<task, flash>>, job'.image = job.image, job'.hashed = job.hashed,
           \/ job'.at \in {"REPORT", "DISCONNECT"} /\ job'.status # "OK"
           \/ job'.at \in {"DISCONNECT", "END"}
           \/ /\ job.at \in {"COPY", "CONNECT", "PREPARE", "ERASE", "PROGRAM"}
              /\ job'.at \in {"CONNECT", "PREPARE", "ERASE", "PROGRAM"}
           \/ job.at = "PROGRAM" /\ job'.at = "VERIFY" /\ job'.pos = 1 /\ job.image \in Image
           \/ job.at = "RESET" /\ job'.at = "REPORT"
    PROVE  ReadBackInv'
<1>1. Length' = Length /\ \A k : Sector(k)' = Sector(k)
  BY DEF Length, Sector
<1>2. job.image \in Image => Length \in Nat
  BY DataFacts DEF Length
<1> QED
  BY <1>1, <1>2 DEF ReadBackInv, Flashing

\* A command of the loader runs before anything is read back.
LEMMA ExecuteReadBack ==
    ASSUME TypeInv, ReadBackInv, task = "FLASH", job.at \in {"ERASE", "PROGRAM"}, UNCHANGED task,
           NEW s, NEW c, NEW name, Execute(s, c, name)
    PROVE  ReadBackInv'
<1>1. job \in Job /\ job.hashed = <<>>
  BY DEF TypeInv, Bounded, ReadBackInv
<1>2. CASE Advance
  BY <1>1, <1>2, AdvanceJob DEF ReadBackInv, Flashing
<1>3. CASE At("REPORT", "ERROR")
  BY <1>1, <1>3, AtJob DEF ReadBackInv, Flashing, Step, Status
<1> QED
  BY <1>2, <1>3 DEF Execute

LEMMA FlashTaskReadBack ==
    ASSUME TypeInv, ReadBackInv, FlashTask PROVE ReadBackInv'
<1>1. task = "FLASH" /\ UNCHANGED task /\ job \in Job
  BY FlashTaskShape DEF TypeInv, Bounded
<1>2. job.at \in Working => job.image \in Image
  BY <1>1 DEF TypeInv, Bounded
<1> USE DEF Flashing, target
<1>3. CASE CopyManifest
  <2> DEFINE next == IF manifest = NoImage THEN "REPORT" ELSE "CONNECT"
             status == IF manifest = NoImage THEN "ERROR" ELSE "OK"
  <2>1. /\ job' = [job EXCEPT !.image = manifest, !.at = next, !.status = status]
        /\ job.at = "COPY"
    BY <1>3 DEF CopyManifest
  <2>2. job'.at = next /\ job'.status = status /\ job'.hashed = <<>>
    BY <1>1, <2>1 DEF Job, ReadBackInv
  <2> QED
    BY <1>1, <2>2 DEF ReadBackInv
<1>4. ASSUME UNCHANGED flash, NEW step \in Step, NEW status \in Status, At(step, status),
             \/ step = "REPORT" /\ (status # "OK" \/ job.at = "RESET")
             \/ job.at = "PREPARE" /\ step = "ERASE"
             \/ job.at = "ERASE" /\ step = "PROGRAM"
             \/ job.at = "PROGRAM" /\ step = "VERIFY"
      PROVE  ReadBackInv'
  BY <1>1, <1>2, <1>4, AtJob, ReadBackKept DEF Working
<1> USE DEF Step, Status
<1>5. CASE Prepare
  BY <1>4, <1>5 DEF Prepare
<1>6. ASSUME NEW step \in {"ERASE", "PROGRAM", "VERIFY"}, Stops(step) PROVE ReadBackInv'
  BY <1>4, <1>6 DEF Stops
<1>7. CASE Leaves("ERASE", "PROGRAM") \/ Leaves("PROGRAM", "VERIFY")
  BY <1>4, <1>7 DEF Leaves
<1>8. CASE EraseSector
  BY <1>1, <1>8, ExecuteReadBack DEF EraseSector, Loops
<1>9. CASE ProgramBlock
  <2>1. job.at = "PROGRAM"
    BY <1>9 DEF ProgramBlock, Loops
  <2>2. CASE Execute(Sector(job.pos), staged[job.pos], "PROGRAM")
    BY <1>1, <2>1, <2>2, ExecuteReadBack
  <2>3. CASE At("REPORT", "ERROR") /\ UNCHANGED flash
    BY <1>4, <2>3
  <2> QED
    BY <1>9, <2>2, <2>3 DEF ProgramBlock
<1>10. CASE VerifyBlock
  <2>1. job.at = "VERIFY" /\ job.pos <= Length /\ UNCHANGED flash /\ job.image \in Image
    BY <1>2, <1>10 DEF VerifyBlock, Loops, Working
  <2>2. CASE At("REPORT", "ERROR")
    BY <1>4, <2>1, <2>2
  <2>3. CASE job' = [job EXCEPT !.pos = @ + 1, !.hashed = Append(@, flash[Sector(job.pos)])]
    <3> DEFINE read == flash[Sector(job.pos)]
    <3>1. /\ job'.pos = job.pos + 1 /\ job'.hashed = Append(job.hashed, read) /\ job'.at = "VERIFY"
          /\ job'.image = job.image /\ job.pos \in Nat \ {0} /\ job.hashed \in Seq(Content)
      BY <1>1, <2>1, <2>3 DEF Job
    <3>2. /\ Len(job.hashed) = job.pos - 1 /\ Length \in Nat
          /\ \A k \in 1 .. Len(job.hashed) : job.hashed[k] = flash[Sector(k)]
      BY <1>1, <2>1, DataFacts DEF ReadBackInv, Length
    <3>3. read \in Content
      BY <2>1, <3>1, <3>2, SectorType DEF TypeInv, TypeOK, ProgrammerType
    <3>4. /\ Len(job'.hashed) = Len(job.hashed) + 1
          /\ \A k \in 1 .. Len(job.hashed) : job'.hashed[k] = job.hashed[k]
          /\ job'.hashed[Len(job.hashed) + 1] = read
      BY <3>1, <3>3, AppendProperties
    <3>5. \A k \in 1 .. Len(job'.hashed) : job'.hashed[k] = flash[Sector(k)]
      <4> SUFFICES ASSUME NEW k \in 1 .. Len(job'.hashed) PROVE job'.hashed[k] = flash[Sector(k)]
        OBVIOUS
      <4>1. CASE k = Len(job.hashed) + 1
        <5>1. k = job.pos
          BY <3>1, <3>2, <4>1
        <5> QED
          BY <3>4, <4>1, <5>1
      <4>2. CASE k # Len(job.hashed) + 1
        <5>1. k \in 1 .. Len(job.hashed)
          BY <3>1, <3>2, <3>4, <4>2
        <5> QED
          BY <3>2, <3>4, <5>1
      <4> QED
        BY <4>1, <4>2
    <3>6. Length' = Length /\ \A k : Sector(k)' = Sector(k)
      BY <3>1 DEF Length, Sector
    <3>7. Len(job'.hashed) = job'.pos - 1 /\ job'.pos <= Length + 1
      BY <2>1, <3>1, <3>2, <3>4
    <3>8. \A k \in 1 .. Len(job'.hashed) : job'.hashed[k] = flash'[Sector(k)']
      BY <2>1, <3>5, <3>6
    <3> HIDE DEF read
    <3> QED
      BY <3>1, <3>6, <3>7, <3>8 DEF ReadBackInv
  <2> QED
    BY <1>10, <2>2, <2>3 DEF VerifyBlock
<1>11. CASE VerifyImage
  <2>1. job.at = "VERIFY" /\ job.pos > Length /\ UNCHANGED flash /\ job.image \in Image
    BY <1>2, <1>11 DEF VerifyImage, Working
  <2>2. CASE At("REPORT", "ERROR")
    BY <1>4, <2>1, <2>2
  <2>3. CASE At("RESET", "OK") /\ Matches
    <3>1. job'.at = "RESET" /\ job'.image = job.image
      BY <1>1, <2>3, AtJob
    <3>2. \A k \in 1 .. Length : flash[Sector(k)] = Data[job.image][k]
      BY <1>1, <2>1, <2>3 DEF ReadBackInv, Matches, Length
    <3>3. Length' = Length /\ \A k : Sector(k)' = Sector(k)
      BY <3>1 DEF Length, Sector
    <3> QED
      BY <2>1, <3>1, <3>2, <3>3 DEF ReadBackInv
  <2> QED
    BY <1>11, <2>2, <2>3 DEF VerifyImage
<1>12. CASE ResetTarget
  <2>1. UNCHANGED flash /\ job.at = "RESET" /\ (At("REPORT", "OK") \/ At("REPORT", "ERROR"))
    BY <1>12 DEF ResetTarget
  <2> QED
    BY <1>4, <2>1
<1>13. CASE Report
  <2>1. UNCHANGED flash /\ At("DISCONNECT", job.status) /\ job.status \in Status
    BY <1>1, <1>13 DEF Report, Job
  <2> QED
    BY <1>1, <2>1, AtJob, ReadBackKept
<1> QED
  BY <1>3, <1>5, <1>6, <1>7, <1>8, <1>9, <1>10, <1>11, <1>12, <1>13 DEF FlashTask

LEMMA NextReadBack ==
    ASSUME TypeInv, ReadBackInv, [Next]_vars PROVE ReadBackInv'
<1>1. ASSUME UNCHANGED <<flash, task, job>> PROVE ReadBackInv'
  BY <1>1 DEF ReadBackInv, Flashing, Length, Sector
<1>2. CASE QuietStep
  BY <1>1, <1>2, QuietRests DEF Rests
<1>3. CASE ProgramCreate
  <2>1. CASE UNCHANGED programmerVars
    BY <1>1, <2>1 DEF programmerVars, target, control
  <2>2. CASE Create("FLASH", app.op, "COPY")
    <3>1. \/ task' = "FLASH" /\ job'.at = "COPY" /\ job'.hashed = <<>>
          \/ UNCHANGED <<flash, task, job>>
      BY <2>2, Created DEF Step
    <3>2. CASE task' = "FLASH" /\ job'.at = "COPY" /\ job'.hashed = <<>>
      BY <3>2 DEF ReadBackInv, Flashing
    <3> QED
      BY <1>1, <3>1, <3>2
  <2> QED
    BY <1>3, <2>1, <2>2 DEF ProgramCreate, StartFlash
<1>4. ASSUME NEW op \in Operation, TargetBackup(op) PROVE ReadBackInv'
  <2>1. Create("BACKUP", op, "CONNECT")
    BY <1>4 DEF TargetBackup, StartBackup
  <2>2. task' # "FLASH"
    BY <2>1, Created DEF Step
  <2> QED
    BY <2>2 DEF ReadBackInv, Flashing
<1>5. CASE TargetTask
  <2>1. CASE BackupTask
    BY <2>1, BackupTaskShape DEF ReadBackInv, Flashing
  <2>2. CASE (Connect \/ Disconnect \/ End) /\ task' = "FLASH"
    <3>1. /\ UNCHANGED <<task, flash>> /\ job'.image = job.image /\ job'.hashed = job.hashed
          /\ \/ job.at = "CONNECT" /\ job'.at = "PREPARE"
             \/ job'.at = "END"
      BY <2>2, SharedTaskShape
    <3> QED
      BY <2>2, <3>1, ReadBackKept
  <2>3. CASE task' # "FLASH"
    BY <2>3 DEF ReadBackInv, Flashing
  <2> QED
    BY <1>5, <2>1, <2>2, <2>3, FlashTaskReadBack DEF TargetTask, ProgrammerTask
<1>6. CASE Restart
  BY <1>6 DEF Restart, ReadBackInv, Flashing
<1> QED
  BY <1>2, <1>3, <1>4, <1>5, <1>6, StepKinds

\* The phase becomes DONE in the last report of a flash task that found no error.
LEMMA DoneChanges ==
    ASSUME TypeInv, [Next]_vars, phase # "DONE", phase' = "DONE"
    PROVE  Flashing("REPORT") /\ job.status = "OK"
<1>1. ~Rests /\ ~Restart
  BY DEF Rests, Restart
<1>2. ASSUME NEW op \in Operation PROVE ~TargetBackup(op)
  BY DEF TargetBackup, StartBackup, Create
<1>3. ~ProgramCreate
  BY DEF ProgramCreate, StartFlash, Create, programmerVars, control
<1>4. TargetTask
  BY <1>1, <1>2, <1>3, StepKinds, QuietRests
<1>5. ~BackupTask
  BY DEF BackupTask, PrepareBackup, ReadBlock, EndReading, ResetAfterBackup, ReportBackup
<1>6. FlashTask
  BY <1>4, <1>5, SharedTaskShape DEF TargetTask, ProgrammerTask
<1>7. Report
  BY <1>6 DEF FlashTask, CopyManifest, Prepare, Stops, EraseSector, Leaves, ProgramBlock, Execute,
         VerifyBlock, VerifyImage, ResetTarget
<1> QED
  BY <1>7 DEF Report

\* DoneIsVerified: DONE is reported only while the target's flash holds, block for
\* block, the image whose manifest the task copied at its start, whatever was
\* staged over it, aborted or reset since.
THEOREM DoneMeansProgrammed == Spec => DoneIsVerified
<1> DEFINE Inv == TypeInv /\ ReadBackInv
           Done == phase # "DONE" /\ phase' = "DONE" =>
                       \A k \in 1 .. Length : flash[Sector(k)] = Data[job.image][k]
<1>1. Init => Inv
  BY InitType, InitSafety DEF SafetyInv
<1>2. Inv /\ [Next]_vars => Inv'
  BY NextType, NextReadBack
<1>3. Inv /\ [Next]_vars => [Done]_vars
  BY DoneChanges DEF ReadBackInv
<1> QED
  BY <1>1, <1>2, <1>3, PTL DEF Spec, DoneIsVerified

-----------------------------------------------------------------------------
(***************************************************************************)
(* What a backup hands over.                                               *)
(***************************************************************************)

LEMMA BackupTaskBackup ==
    ASSUME TypeInv, BackupInv, BackupTask PROVE BackupInv'
<1>1. /\ task = "BACKUP" /\ UNCHANGED <<flash, task>> /\ job \in Job
      /\ flash \in [1 .. Sectors -> Content] /\ sent \in Seq(Content)
  BY BackupTaskShape DEF TypeInv, TypeOK, ProgrammerType, Bounded
<1> USE DEF BackingUp, Step, Status
<1>2. CASE PrepareBackup
  <2>1. CASE At("DISCONNECT", "ERROR")
    BY <1>1, <1>2, <2>1, AtJob DEF PrepareBackup, BackupInv, backupVars
  <2>2. CASE At("READ", "OK")
    <3>1. /\ job'.at = "READ" /\ job'.pos = 1 /\ sent' = <<>> /\ backup' = "NONE"
      BY <1>1, <1>2, <2>2, AtJob DEF PrepareBackup, BackupInv, backupVars
    <3> QED
      BY <1>1, <3>1, TargetAssumption DEF BackupInv
  <2> QED
    BY <1>2, <2>1, <2>2 DEF PrepareBackup
<1>3. CASE ReadBlock
  <2>1. /\ job.at = "READ" /\ job.pos <= Sectors /\ UNCHANGED backup /\ backup = "NONE"
    BY <1>1, <1>3 DEF ReadBlock, BackupInv
  <2>2. /\ Len(sent) = job.pos - 1 /\ job.pos \in 1 .. Sectors
        /\ \A k \in 1 .. Len(sent) : sent[k] = flash[k]
    BY <1>1, <2>1, TargetAssumption DEF BackupInv, Job
  <2>3. CASE sent' = Append(sent, flash[job.pos]) /\ Advance
    <3>1. job'.at = "READ" /\ job'.pos = job.pos + 1
      BY <1>1, <2>1, <2>3, AdvanceJob
    <3>2. flash[job.pos] \in Content
      BY <1>1, <2>2
    <3>3. /\ Len(sent') = Len(sent) + 1 /\ sent'[Len(sent) + 1] = flash[job.pos]
          /\ \A k \in 1 .. Len(sent) : sent'[k] = sent[k]
      BY <1>1, <2>3, <3>2, AppendProperties
    <3>4. \A k \in 1 .. Len(sent') : sent'[k] = flash[k]
      BY <2>2, <3>3, <1>1, LenProperties
    <3>5. Len(sent') = job'.pos - 1 /\ job'.pos <= Sectors + 1
      BY <2>2, <3>1, <3>3, TargetAssumption
    <3> QED
      BY <1>1, <2>1, <3>1, <3>4, <3>5 DEF BackupInv
  <2>4. CASE At("RESET", "ERROR") /\ UNCHANGED sent
    BY <1>1, <2>1, <2>4, AtJob DEF BackupInv
  <2> QED
    BY <1>3, <2>3, <2>4 DEF ReadBlock
<1>4. CASE EndReading
  <2>1. /\ job.at = "READ" /\ UNCHANGED <<sent, backup>> /\ backup = "NONE"
    BY <1>1, <1>4 DEF EndReading, BackupInv, backupVars
  <2>2. CASE At("RESET", "ABORTED")
    BY <1>1, <2>1, <2>2, AtJob DEF BackupInv
  <2>3. CASE At("RESET", "OK") /\ job.pos > Sectors
    <3>1. job'.at = "RESET" /\ job'.status = "OK"
      BY <1>1, <2>3, AtJob
    <3>2. Len(sent) = Sectors /\ \A k \in 1 .. Sectors : sent[k] = flash[k]
      BY <1>1, <2>1, <2>3, TargetAssumption DEF BackupInv, Job
    <3>3. sent \in [1 .. Sectors -> Content]
      BY <1>1, <3>2, LenProperties
    <3>4. sent = flash
      BY <1>1, <3>2, <3>3
    <3> QED
      BY <1>1, <2>1, <3>1, <3>4 DEF BackupInv
  <2> QED
    BY <1>4, <2>2, <2>3 DEF EndReading
<1>5. CASE ResetAfterBackup
  <2>1. job.at = "RESET" /\ UNCHANGED <<sent, backup>> /\ backup = "NONE"
    BY <1>1, <1>5 DEF ResetAfterBackup, BackupInv, backupVars
  <2>2. PICK status \in Status : At("DISCONNECT", status) /\ (status = "OK" => job.status = "OK")
    BY <1>1, <1>5 DEF ResetAfterBackup, Job
  <2>3. job'.at = "DISCONNECT" /\ job'.status = status
    BY <1>1, <2>2, AtJob
  <2> QED
    BY <1>1, <2>1, <2>2, <2>3 DEF BackupInv
<1>6. CASE ReportBackup
  <2>1. /\ job.at = "REPORT" /\ UNCHANGED sent /\ backup' = job.status /\ At("END", job.status)
        /\ job.status \in Status
    BY <1>1, <1>6 DEF ReportBackup, Job
  <2>2. job'.at = "END"
    BY <1>1, <2>1, AtJob
  <2> QED
    BY <1>1, <2>1, <2>2 DEF BackupInv
<1> QED
  BY <1>2, <1>3, <1>4, <1>5, <1>6 DEF BackupTask

LEMMA NextBackup ==
    ASSUME TypeInv, BackupInv, [Next]_vars PROVE BackupInv'
<1>1. ASSUME UNCHANGED <<flash, task, job, sent, backup>> PROVE BackupInv'
  BY <1>1 DEF BackupInv
<1>2. CASE QuietStep
  BY <1>1, <1>2, QuietRests DEF Rests
<1>3. CASE ProgramCreate
  <2>1. CASE UNCHANGED programmerVars
    BY <1>1, <2>1 DEF programmerVars, target, control, backupVars
  <2>2. CASE Create("FLASH", app.op, "COPY")
    <3>1. task' \in {"FLASH", "NONE"}
      BY <2>2, Created DEF Step
    <3> QED
      BY <3>1 DEF BackupInv
  <2> QED
    BY <1>3, <2>1, <2>2 DEF ProgramCreate, StartFlash
<1>4. ASSUME NEW op \in Operation, TargetBackup(op) PROVE BackupInv'
  <2>1. Create("BACKUP", op, "CONNECT") /\ sent' = <<>> /\ backup' = "NONE"
    BY <1>4 DEF TargetBackup, StartBackup
  <2>2. task' = "NONE" \/ job'.at = "CONNECT"
    BY <2>1, Created DEF Step
  <2> QED
    BY <2>1, <2>2 DEF BackupInv
<1>5. CASE TargetTask
  <2>1. CASE FlashTask
    BY <2>1, FlashTaskShape DEF BackupInv
  <2>2. CASE Connect \/ Disconnect \/ End
    BY <2>2, SharedTaskShape DEF BackupInv
  <2> QED
    BY <1>5, <2>1, <2>2, BackupTaskBackup DEF TargetTask, ProgrammerTask
<1>6. CASE Restart
  BY <1>6 DEF Restart, BackupInv
<1> QED
  BY <1>2, <1>3, <1>4, <1>5, <1>6, StepKinds

\* BackupFaithful: a backup whose result is OK has handed to the radio every sector
\* of the target's flash, in order, as the flash is when the result is reported.
THEOREM BackupIsFaithful == Spec => []BackupFaithful
<1> DEFINE Inv == TypeInv /\ BackupInv
<1>1. Init => Inv
  BY InitType, InitSafety DEF SafetyInv
<1>2. Inv /\ [Next]_vars => Inv'
  BY NextType, NextBackup
<1>3. Inv => BackupFaithful
  BY DEF BackupInv, BackupFaithful
<1> QED
  BY <1>1, <1>2, <1>3, PTL DEF Spec
-----------------------------------------------------------------------------
(***************************************************************************)
(* What a PROGRAM_START answered OK stands for.                            *)
(***************************************************************************)

LEMMA NextAccepted ==
    ASSUME TypeInv, AcceptedInv, [Next]_vars PROVE AcceptedInv'
<1> USE DEF AcceptedInv, AcceptedRan
<1>1. CASE QuietStep
  <2>1. UNCHANGED <<task, operationId, job, started, unborn>> /\ phase' \in {phase, "CONNECT", "IDENTIFY"}
    BY <1>1, QuietRests DEF Rests
  <2>2. UNCHANGED accepted
    BY <1>1 DEF QuietStep, ImageBegin, ImageData, ImageErase, ImageCount, ImageEnd, ImageMark,
           ProgramStart, ProgramAbort, TargetReset, TargetQuery, TargetReply, PeerEpochReset,
           PeerEpochInvalidate, WatchdogExpires, vars, appVars
  <2> QED
    BY <2>1, <2>2
<1>2. CASE ProgramCreate
  <2>1. accepted' = IF Repeated(app.op) \/ task' # task THEN accepted \cup {app.op} ELSE accepted
    BY <1>2 DEF ProgramCreate
  <2>2. CASE UNCHANGED programmerVars
    <3>1. Repeated(app.op) => app.op \in started \cup unborn
      BY DEF Repeated
    <3> QED
      BY <2>1, <2>2, <3>1 DEF programmerVars, control, history
  <2>3. CASE Create("FLASH", app.op, "COPY") /\ ~Repeated(app.op)
    <3>1. /\ task = "NONE" /\ UNCHANGED phase /\ operationId' = app.op
          /\ \/ task' = "FLASH" /\ started' = started \cup {app.op} /\ UNCHANGED unborn
             \/ UNCHANGED <<task, started>> /\ unborn' = unborn \cup {app.op}
      BY <2>3, Created DEF Step
    <3> QED
      BY <2>1, <2>3, <3>1
  <2> QED
    BY <1>2, <2>2, <2>3 DEF ProgramCreate, StartFlash
<1>3. ASSUME NEW op \in Operation, TargetBackup(op) PROVE AcceptedInv'
  <2>1. Create("BACKUP", op, "CONNECT") /\ UNCHANGED accepted
    BY <1>3 DEF TargetBackup, StartBackup
  <2>2. /\ task = "NONE" /\ UNCHANGED phase /\ operationId' = op
        /\ \/ task' = "BACKUP" /\ job'.at = "CONNECT" /\ UNCHANGED <<started, unborn>>
           \/ UNCHANGED <<task, started>> /\ unborn' = unborn \cup {op}
    BY <2>1, Created DEF Step
  <2> QED
    BY <2>1, <2>2
<1>4. CASE TargetTask
  <2>1. UNCHANGED accepted
    BY <1>4 DEF TargetTask, appVars
  <2>2. CASE FlashTask
    BY <2>1, <2>2, FlashTaskShape
  <2>3. CASE BackupTask
    <3>1. phase' \in {phase, "CONNECT", "IDENTIFY"} /\ job.at # "CONNECT"
      BY <2>3 DEF BackupTask, PrepareBackup, ReadBlock, EndReading, ResetAfterBackup, ReportBackup,
             BackingUp
    <3> QED
      BY <2>1, <2>3, <3>1, BackupTaskShape
  <2>4. CASE Connect \/ Disconnect \/ End
    <3>1. /\ UNCHANGED <<operationId, started, unborn>> /\ task' \in {task, "NONE"}
          /\ phase' = "CONNECT" \/ (UNCHANGED phase /\ job.at = "DISCONNECT") \/ UNCHANGED <<phase, job>>
      BY <2>4, SharedTaskShape
    <3>2. job.at = "CONNECT" => UNCHANGED task
      BY <2>4 DEF Connect, Disconnect, End, Quiet
    <3> QED
      BY <2>1, <3>1, <3>2
  <2> QED
    BY <1>4, <2>2, <2>3, <2>4 DEF TargetTask, ProgrammerTask
<1>5. CASE Restart
  BY <1>5 DEF Restart
<1> QED
  BY <1>1, <1>2, <1>3, <1>4, <1>5, StepKinds

\* AcceptedRan: what programmer_start answers OK without creating a task, because
\* the id is that of the active or last operation, had its task created before, or
\* is one whose creation failed.
THEOREM AcceptedWasCreated == Spec => []AcceptedRan
<1> DEFINE Inv == TypeInv /\ AcceptedInv
<1>1. Init => Inv
  BY InitType, InitSafety DEF SafetyInv
<1>2. Inv /\ [Next]_vars => Inv'
  BY NextType, NextAccepted
<1>3. Inv => AcceptedRan
  BY DEF AcceptedInv
<1> QED
  BY <1>1, <1>2, <1>3, PTL DEF Spec
===============================================================================
