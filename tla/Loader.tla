-------------------------------- MODULE Loader --------------------------------
(***************************************************************************)
(* The probe's work on the target: components/cortexm_debug, mspm0g3507    *)
(* and mspm0_loader over arm_adi, called by the operations of programmer.c *)
(* one at a time, and at the other end the core of the target with the     *)
(* SRAM loader (tools/mspm0_loader/loader.c) or its own application, which *)
(* runs between any two accesses.  The target may be reset or unplugged at *)
(* any moment, and another chip may be plugged in.                         *)
(***************************************************************************)
EXTENDS ArmAdi, Sequences

CONSTANTS
    Chip,        \* kinds of chip that may be plugged in
    Expected,    \* the one mspm0g3507_identify accepts
    MaxEvents    \* bound: resets and unpluggings by the user

Command == {"PROBE", "ERASE", "PROGRAM"}
Mailbox == {"magic", "command", "status", "result"}
Word == Mailbox \cup {"code", "buffer", "test"}
Register == {"DHCSR", "DCRSR", "DCRDR", "AIRCR", "ID", "FLASH"}
Sector == {1, 2}
Content == {"OLD", "ERASED", "IMAGE", "GARBAGE"}
Value == {"GARBAGE", "BLOB", "IMAGE", "MAGIC", "IDLE", "BUSY", "DONE", "ERROR", "OK", "BAD",
          "PATTERN"} \cup Command \cup Content \cup Chip

\* What a command leaves in the flash: the commands of a job are for sector 1.
Writes == [c \in Command |->
              CASE c = "PROBE" -> <<>> [] c = "ERASE" -> <<"ERASED">> [] OTHER -> <<"IMAGE">>]

ASSUME LoaderAssumption ==
    /\ Address = Word \cup Register
    /\ Expected \in Chip /\ Chip \cap {"GARBAGE"} = {}
    /\ MaxEvents \in Nat

VARIABLES
    port,       \* pins, arm_adi.c's variables and the target's debug port
    core,       \* the target's core: halted or not, by whom; what it executes
    sram,       \* the words of the target's SRAM the probe uses
    flash,      \* the target's MAIN flash
    host,       \* the operation that owns the target: where it is, its status
    events,     \* user events so far
    \* History.
    ordered,    \* the loader command the target may still carry out
    progress,   \* how far the target got with it
    foreign     \* whether memory of a chip not expected was written

target == <<core, sram, flash>>
history == <<ordered, progress, foreign>>
vars == <<port, target, host, events, history>>

Core == [chip : Chip, halted : {"NO", "HOST", "BREAK"}, debug : BOOLEAN,
         at : {"APP", "LOADER"}, stage : {"ENTRY", "BUSY", "HALF", "PASSED", "FAILED", "REPORTED"},
         regs : SUBSET {"MSP", "R0", "PC"}, dcrdr : {"NONE", "MSP", "R0", "PC"}]
Powered(chip) == [chip |-> chip, halted |-> "NO", debug |-> FALSE, at |-> "APP",
                  stage |-> "ENTRY", regs |-> {}, dcrdr |-> "NONE"]

\* A reset: the application starts, or the core stays halted where it would.
Restarted(c) == {[Powered(c.chip) EXCEPT !.debug = c.debug, !.halted = h] : h \in {"NO", c.halted}}
\* The command the probe is still waiting for may yet run: it goes on setting it up.
Restart ==
    /\ core' \in Restarted(core)
    /\ ordered' = IF host.command = "PENDING" THEN ordered ELSE "NONE"
-----------------------------------------------------------------------------
(***************************************************************************)
(* The functions the operations call, as the accesses they make in order.  *)
(***************************************************************************)
Write(a, v) == [op |-> "WRITE", at |-> a, value |-> v, accept |-> {}]
Read(a, accept) == [op |-> "READ", at |-> a, value |-> "NONE", accept |-> accept]
\* wait_dhcsr: polls DHCSR for a bit that is set or clear.
Wait(bit, set) == [op |-> "POLL", at |-> "DHCSR", value |-> bit, accept |-> {set}]
Pulse == [op |-> "PULSE", at |-> "NRESET", value |-> "NONE", accept |-> {}]

\* cortexm_halt, cortexm_run, cortexm_wait_halted, cortexm_write_register
Halt == <<Write("DHCSR", "HALT"), Wait("S_HALT", TRUE)>>
Run == <<Write("DHCSR", "RUN")>>
WaitHalted == <<Wait("S_HALT", TRUE)>>
WriteRegister(reg) == <<Write("DCRDR", reg), Write("DCRSR", reg), Wait("S_REGRDY", TRUE)>>

\* Mutant of SystemReset: the debugger's halt request is left as it is.
SystemResetOnly == <<Write("AIRCR", "SYSRESETREQ")>>

\* cortexm_system_reset, and its fallback when the core does not run after it.
SystemReset == <<Write("AIRCR", "SYSRESETREQ")>> \o Run \o <<Wait("S_HALT", FALSE)>>
Recover == <<Pulse>> \o Run \o <<Wait("S_HALT", FALSE)>>

\* mspm0g3507_identify and mspm0g3507_sram_self_test, whose last write restores.
Identify == <<Read("ID", {Expected})>>
SelfTest == <<Read("test", Value), Write("test", "PATTERN"), Read("test", {"PATTERN"})>>
Restore == <<Write("test", "GARBAGE")>>

\* mspm0_loader_upload
Upload == <<Write("code", "BLOB"), Read("code", {"BLOB"})>>

\* Mutant of Accepted: the status word of the mailbox is not looked at.
AcceptedResult == <<Read("magic", {"MAGIC"}), Read("command", Value), Read("status", Value),
                    Read("result", {"OK"})>>

\* What the mailbox must hold for a command to have succeeded.
Accepted == <<Read("magic", {"MAGIC"}), Read("command", Value), Read("status", {"DONE"}),
              Read("result", {"OK"})>>

\* mspm0_loader_execute
Execute(c) ==
    (IF c = "PROGRAM" THEN <<Write("buffer", "IMAGE")>> ELSE <<>>)
    \o <<Write("magic", "MAGIC"), Write("command", c), Write("status", "IDLE"),
         Write("result", "OK")>>
    \o WriteRegister("MSP") \o WriteRegister("R0") \o WriteRegister("PC")
    \o Run \o WaitHalted \o Accepted

\* Mutant of Verify: the flash is read and not compared.
VerifyAny == <<Read("FLASH", Value)>>

\* verify_segments, and the reading of a backup.
Verify == <<Read("FLASH", {"IMAGE"})>>
Dump == <<Read("FLASH", Value)>>

Routine == [r \in {"HALT", "IDENTIFY", "SELFTEST", "RESTORE", "UPLOAD", "VERIFY", "DUMP",
                   "RESET", "RECOVER"} \cup Command |->
    CASE r = "HALT" -> Halt [] r = "IDENTIFY" -> Identify [] r = "SELFTEST" -> SelfTest
      [] r = "RESTORE" -> Restore [] r = "UPLOAD" -> Upload [] r = "VERIFY" -> Verify
      [] r = "DUMP" -> Dump [] r = "RESET" -> SystemReset [] r = "RECOVER" -> Recover
      [] OTHER -> Execute(r)]

ConnectTarget == <<"CONNECT", "HALT", "IDENTIFY", "SELFTEST", "RESTORE">>

\* programmer_task, backup_task, programmer_read_target_info,
\* programmer_test_loader, programmer_reset_target
Job == [j \in {"FLASH", "BACKUP", "INFO", "TEST", "RESTART"} |->
    CASE j = "FLASH" -> ConnectTarget \o <<"UPLOAD", "PROBE", "ERASE", "PROGRAM", "VERIFY", "RESET">>
      [] j = "BACKUP" -> ConnectTarget \o <<"DUMP", "RESET">>
      [] j = "INFO" -> ConnectTarget \o <<"RESET">>
      [] j = "TEST" -> ConnectTarget \o <<"UPLOAD", "PROBE", "RESET">>
      [] j = "RESTART" -> <<"CONNECT", "RESET">>]
-----------------------------------------------------------------------------
(***************************************************************************)
(* How an operation goes on.                                               *)
(***************************************************************************)
Host == [job : DOMAIN Job \cup {"NONE"}, routine : DOMAIN Routine \cup {"CONNECT", "DISCONNECT"},
         step : 0 .. 20, status : {"OK", "ERROR", "ABORTED"},
         command : {"NONE", "PENDING", "OK", "FAILED"}]

\* Where a loop looks at s_abort before it goes on, the step is 0.
Stoppable == {"ERASE", "PROGRAM", "VERIFY", "DUMP"}
FirstStep(r) == IF r \in Command \cup Stoppable THEN 0 ELSE 1
Goto(r, status) == [host EXCEPT !.routine = r, !.step = FirstStep(r), !.status = status]

\* The routine after the one that ends; a failed one ends the operation.
Following ==
    LET last == Len(Job[host.job])
        at(r) == CHOOSE k \in 1 .. last : Job[host.job][k] = r
    IN IF host.routine = "RECOVER" \/ host.status # "OK" \/ host.routine = Job[host.job][last]
       THEN "DISCONNECT" ELSE Job[host.job][at(host.routine) + 1]

AfterOk ==
    IF host.step < Len(Routine[host.routine]) THEN [host EXCEPT !.step = @ + 1]
    ELSE Goto(Following, host.status)

\* Mutant of AfterError: a failed identification does not end the operation.
AfterErrorIdentify(status) ==
    IF host.routine = "IDENTIFY" THEN AfterOk ELSE Goto("DISCONNECT", status)

\* The self-test restores the word; a core that does not run after a reset is
\* reset by its pin; a backup resets the target first; otherwise it is the end.
AfterError(status) ==
    CASE host.routine = "SELFTEST" -> Goto("RESTORE", status)
      [] host.routine = "RESTORE" -> AfterOk
      [] host.routine = "RESET" /\ host.step > 1 -> Goto("RECOVER", host.status)
      [] host.routine = "DUMP" -> Goto("RESET", status)
      [] OTHER -> Goto("DISCONNECT", status)

\* The status of the loader command, which is over when its routine is.
Concluded(h, ok) ==
    IF host.routine \in Command /\ h.routine # host.routine
    THEN [h EXCEPT !.command = IF ok THEN "OK" ELSE "FAILED"] ELSE h

Continue(status) ==
    LET ok == status = "OK"
    IN host' = Concluded(IF ok THEN AfterOk
                         ELSE AfterError(IF host.status = "OK" THEN "ERROR" ELSE host.status), ok)

Busy == host.job # "NONE"
Current == Routine[host.routine][host.step]
Doing(op) ==
    /\ Busy /\ host.routine \in DOMAIN Routine /\ host.step > 0
    /\ Current.op = op
-----------------------------------------------------------------------------
(***************************************************************************)
(* The steps of the operations.                                            *)
(***************************************************************************)
StartJob(j) ==
    /\ ~Busy
    /\ host' = [host EXCEPT !.job = j, !.routine = "CONNECT", !.step = 1, !.status = "OK"]
    /\ UNCHANGED <<port, target, events, history>>

\* One attempt of arm_adi_connect.
ConnectStep ==
    /\ Busy /\ host.routine = "CONNECT"
    /\ \E r \in ConnectAtSpeed(port, UnderReset(host.step)) :
        LET next == NextAttempt(host.step, r.status) IN
        /\ port' = r.port
        /\ host' = IF next # 0 THEN [host EXCEPT !.step = next]
                   ELSE IF r.status = "OK" THEN Goto(Following, "OK")
                   ELSE Goto("DISCONNECT", "ERROR")
    /\ IF UnderReset(host.step) /\ port.present THEN Restart ELSE UNCHANGED <<core, ordered>>
    /\ UNCHANGED <<sram, flash, events, progress, foreign>>

\* A loop iteration begins: it stops for s_abort, or a command is ordered.
Iterate ==
    /\ Busy /\ host.step = 0
    /\ \/ /\ host.routine \in Stoppable
          /\ host' = IF host.routine = "DUMP" THEN Goto("RESET", "ABORTED")
                     ELSE Goto("DISCONNECT", "ABORTED")
          /\ UNCHANGED <<ordered, progress>>
       \/ /\ host.routine \in Command
          /\ host' = [host EXCEPT !.step = 1, !.command = "PENDING"]
          /\ ordered' = host.routine /\ progress' = "NONE"
       \/ /\ host.routine \notin Command
          /\ host' = [host EXCEPT !.step = 1]
          /\ UNCHANGED <<ordered, progress>>
    /\ UNCHANGED <<port, target, events, foreign>>

\* What a word written to the bus of the target does.
Registers(reg) ==
    IF core.halted = "NO" THEN core
    ELSE [core EXCEPT !.regs = IF core.dcrdr = reg THEN @ \cup {reg} ELSE @ \ {reg},
                      !.at = IF reg = "PC" THEN "LOADER" ELSE @,
                      !.stage = IF reg = "PC" THEN "ENTRY" ELSE @]
BusWrite(a, v) ==
    /\ sram' = IF a \in Word THEN [sram EXCEPT ![a] = v] ELSE sram
    /\ foreign' = (foreign \/ (a \in Word /\ core.chip # Expected))
    /\ CASE a = "AIRCR" -> Restart
         [] a = "DHCSR" -> /\ core' = [core EXCEPT !.debug = TRUE,
                                            !.halted = IF v = "HALT" THEN "HOST" ELSE "NO"]
                           /\ UNCHANGED ordered
         [] a = "DCRDR" -> core' = [core EXCEPT !.dcrdr = v] /\ UNCHANGED ordered
         [] a = "DCRSR" -> core' = Registers(v) /\ UNCHANGED ordered
         [] OTHER -> UNCHANGED <<core, ordered>>

WriteStep ==
    /\ Doing("WRITE")
    /\ \E r \in MemWrite(port, Current.at) :
        /\ port' = r.port
        /\ BusWrite(r.port.hit, Current.value)
        /\ Continue(r.status)
    /\ UNCHANGED <<flash, events, progress>>

\* What the word the debug port fetched holds.
Held(a) ==
    CASE a \in Word -> sram[a] [] a = "ID" -> core.chip [] a = "FLASH" -> flash[1]
      [] OTHER -> "GARBAGE"

ReadStep ==
    /\ Doing("READ")
    /\ \E r \in MemRead(port, Current.at) :
        /\ port' = r.port
        /\ Continue(IF r.status = "OK" /\ Held(r.value) \notin Current.accept
                    THEN "VERIFY" ELSE r.status)
    /\ UNCHANGED <<target, events, history>>

\* The bits of DHCSR; a register transfer is only sure to end in a halted core.
DhcsrBit(bit) ==
    CASE bit = "S_HALT" -> {core.halted # "NO"}
      [] bit = "S_REGRDY" -> IF core.halted # "NO" THEN {TRUE} ELSE BOOLEAN

\* Polls until the bit is as wanted, a read fails or the deadline has passed.
PollStep ==
    /\ Doing("POLL")
    /\ \E r \in MemRead(port, "DHCSR") :
        /\ port' = r.port
        /\ IF r.status # "OK" THEN Continue(r.status)
           ELSE \E value \in IF r.value = "DHCSR" THEN DhcsrBit(Current.value) ELSE BOOLEAN :
                IF value \in Current.accept THEN Continue("OK")
                ELSE UNCHANGED host \/ Continue("TIMEOUT")
    /\ UNCHANGED <<target, events, history>>

\* arm_adi_hardware_reset
PulseStep ==
    /\ Doing("PULSE")
    /\ IF port.connected /\ port.present THEN Restart /\ Continue("OK")
       ELSE UNCHANGED <<core, ordered>> /\ Continue("TARGET_POWER")
    /\ UNCHANGED <<port, sram, flash, events, progress, foreign>>

DisconnectStep ==
    /\ Busy /\ host.routine = "DISCONNECT"
    /\ port' = Fresh(Disconnect(port))
    /\ host' = [host EXCEPT !.job = "NONE"]
    /\ UNCHANGED <<target, events, history>>

HostStep ==
    \/ ConnectStep \/ Iterate \/ WriteStep \/ ReadStep \/ PollStep \/ PulseStep
    \/ DisconnectStep
-----------------------------------------------------------------------------
(***************************************************************************)
(* The target's core.                                                      *)
(***************************************************************************)
Runs(at) == Answers(port) /\ core.halted = "NO" /\ core.at = at

\* The application uses the SRAM as its own, and may stop at a breakpoint.
AppWrites ==
    /\ Runs("APP")
    /\ sram' = [w \in Word |-> "GARBAGE"]
    /\ UNCHANGED <<port, core, flash, host, events, history>>
AppBreak ==
    /\ Runs("APP") /\ core.debug
    /\ core' = [core EXCEPT !.halted = "BREAK"]
    /\ UNCHANGED <<port, sram, flash, host, events, history>>

\* loader_entry.  With its code, stack or mailbox pointer gone anything may run,
\* which is what the application stands for.
LoaderReports(result) ==
    /\ sram' = [sram EXCEPT !["result"] = result,
                            !["status"] = IF result = "OK" THEN "DONE" ELSE "ERROR"]
    /\ core' = [core EXCEPT !.halted = "BREAK", !.stage = "REPORTED"]
LoaderStart ==
    /\ Runs("LOADER") /\ core.stage = "ENTRY"
    /\ CASE sram["code"] # "BLOB" \/ core.regs # {"MSP", "R0", "PC"} ->
                core' = [core EXCEPT !.at = "APP"] /\ UNCHANGED sram
         [] sram["code"] = "BLOB" /\ core.regs = {"MSP", "R0", "PC"}
            /\ sram["magic"] # "MAGIC" -> LoaderReports("BAD")
         [] OTHER ->
                /\ sram' = [sram EXCEPT !["status"] = "BUSY"]
                /\ core' = [core EXCEPT !.stage = "BUSY", !.regs = {}]
    /\ UNCHANGED <<port, flash, host, events, history>>

\* The CRC of the buffer is the command's.
Executable(c) == c \in Command /\ (c = "PROGRAM" => sram["buffer"] = "IMAGE")

\* erase_sector and program_words, while they run and when they are done.
LoaderBegins ==
    /\ Runs("LOADER") /\ core.stage = "BUSY"
    /\ IF Executable(sram["command"])
       THEN /\ core' = [core EXCEPT !.stage = "HALF"] /\ progress' = "BEGUN"
            /\ flash' = [s \in Sector |-> IF s \in DOMAIN Writes[sram["command"]]
                                          THEN "GARBAGE" ELSE flash[s]]
            /\ UNCHANGED sram
       ELSE LoaderReports("BAD") /\ UNCHANGED <<flash, progress>>
    /\ UNCHANGED <<port, host, events, ordered, foreign>>
LoaderFinishes ==
    /\ Runs("LOADER") /\ core.stage = "HALF"
    /\ \/ /\ core' = [core EXCEPT !.stage = "PASSED"] /\ progress' = "DONE"
          /\ \/ flash' = [s \in Sector |-> IF s \in DOMAIN Writes[sram["command"]]
                                           THEN Writes[sram["command"]][s] ELSE flash[s]]
             \/ UNCHANGED flash
       \/ core' = [core EXCEPT !.stage = "FAILED"] /\ UNCHANGED <<flash, progress>>
    /\ UNCHANGED <<port, sram, host, events, ordered, foreign>>
LoaderEnds ==
    /\ Runs("LOADER") /\ core.stage \in {"PASSED", "FAILED"}
    /\ LoaderReports(IF core.stage = "PASSED" THEN "OK" ELSE "BAD")
    /\ UNCHANGED <<port, flash, host, events, history>>

CoreStep ==
    \/ AppWrites \/ AppBreak \/ LoaderStart \/ LoaderBegins \/ LoaderFinishes \/ LoaderEnds
-----------------------------------------------------------------------------
(***************************************************************************)
(* The user: the reset button of the target, its plug.                     *)
(***************************************************************************)
ResetButton ==
    /\ port.present /\ events < MaxEvents
    /\ Restart /\ events' = events + 1
    /\ UNCHANGED <<port, sram, flash, host, progress, foreign>>
Unplug ==
    /\ port.present /\ events < MaxEvents
    /\ port' = PowerLost(port)
    /\ events' = events + 1
    /\ UNCHANGED <<target, host, history>>
Plug(chip) ==
    /\ ~port.present
    /\ port' = [port EXCEPT !.present = TRUE]
    /\ core' = Powered(chip)
    /\ sram' = [w \in Word |-> "GARBAGE"] /\ flash' = [s \in Sector |-> "OLD"]
    /\ ordered' = "NONE" /\ progress' = "NONE" /\ foreign' = FALSE
    /\ UNCHANGED <<host, events>>

User == ResetButton \/ Unplug \/ \E chip \in Chip : Plug(chip)
-----------------------------------------------------------------------------
Init ==
    /\ port = PortInit
    /\ core \in {Powered(chip) : chip \in Chip}
    /\ sram = [w \in Word |-> "GARBAGE"] /\ flash = [s \in Sector |-> "OLD"]
    /\ host = [job |-> "NONE", routine |-> "DISCONNECT", step |-> 1, status |-> "ERROR",
               command |-> "NONE"]
    /\ events = 0 /\ ordered = "NONE" /\ progress = "NONE" /\ foreign = FALSE

Next == (\E j \in DOMAIN Job : StartJob(j)) \/ HostStep \/ CoreStep \/ User

Spec == Init /\ [][Next]_vars
-----------------------------------------------------------------------------
\* The order and the outcomes of the loader's commands are those of its service.
Service == INSTANCE LoaderService WITH
    NoCommand <- "NONE", Garbage <- "GARBAGE", answer <- host.command
ServiceSpec == Service!Spec

\* Every access asks the memory bus for its own word or for none; one that succeeds
\* has asked for it, or is a write whose loss the target will report (transfer_retry
\* does not repeat a refused transfer, select_ap_bank remembers what was acknowledged).
AccessExact ==
    [][\A op \in {"READ", "WRITE"} : Doing(op) /\ host' # host =>
        /\ port'.hit \in {Current.at, NoAddress}
        /\ host'.routine = host.routine =>
               port'.hit = Current.at \/ (op = "WRITE" /\ port'.sticky)]_vars

\* Nothing is written to the memory of a chip that is not the one expected, whatever
\* chip is plugged in at whatever moment (mspm0g3507_identify fails closed).
ForeignUntouched == ~foreign

\* Between operations the pins are released, and the target not held in reset.
PinsReleased == ~Busy => ~port.enabled /\ ~port.nreset /\ ~port.connected

\* An operation that ended well has left the core in its application, not halted by
\* the probe and not in the loader (cortexm_system_reset proves the core runs).
SuccessRuns ==
    ~Busy /\ host.status = "OK" => core.at = "APP" /\ core.halted # "HOST" /\ ordered = "NONE"

\* A flash operation that ends well leaves the image in this chip's flash.
SuccessIsProgrammed ==
    [][Busy /\ host.job = "FLASH" /\ host.status = "OK" /\ host'.job = "NONE" =>
        \/ flash = [flash EXCEPT ![1] = "IMAGE", ![2] = "OLD"]
        \/ port.line = "OFF"]_vars

\* An operation only goes forward through its routines and their accesses, except that
\* it may poll again before a deadline: whatever the target and its user do, it ends.
Forward == <<"CONNECT", "HALT", "IDENTIFY", "SELFTEST", "RESTORE", "UPLOAD", "PROBE", "ERASE",
             "PROGRAM", "VERIFY", "DUMP", "RESET", "RECOVER", "DISCONNECT">>
Rank(r) == CHOOSE k \in DOMAIN Forward : Forward[k] = r
OperationAdvances ==
    [][Busy /\ host'.job # "NONE" /\ host' # host =>
        \/ Rank(host'.routine) > Rank(host.routine)
        \/ host'.routine = host.routine /\ host'.step > host.step]_vars

TypeOK ==
    /\ port \in Port /\ core \in Core
    /\ sram \in [Word -> Value] /\ flash \in [Sector -> Content] /\ host \in Host
    /\ events \in 0 .. MaxEvents
    /\ ordered \in Command \cup {"NONE"} /\ progress \in {"NONE", "BEGUN", "DONE"}
    /\ foreign \in BOOLEAN
=============================================================================
