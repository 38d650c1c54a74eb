--------------------------------- MODULE ArmAdi ---------------------------------
(***************************************************************************)
(* components/arm_adi: the debug port and memory access port of the target *)
(* through swd_phy.  Every function is the set of its outcomes, composed   *)
(* in the order of its transfers.  What it must get right: the AP bank it  *)
(* believes selected is the target's, an error of the target is seen       *)
(* before anything is built on it, and no word is touched but the one      *)
(* asked for.                                                              *)
(***************************************************************************)
EXTENDS SwdPort

Clear == Dp("ABORT", FALSE, "NOTHING")

\* Mutant of Faulted: the transfer is repeated once the error is cleared.
FaultedRetries(p, r) == UNION {Transfer(a.port, r) : a \in Transfer(p, Clear)}

\* A FAULT clears the sticky error, whose outcome nobody looks at, and is returned.
Faulted(p, r) == {Failed(a.port, "FAULT") : a \in Transfer(p, Clear)}

\* transfer_retry: a target that is busy for all the tries is given up.
TransferRetry(p, r) ==
    (UNION {IF t.status = "FAULT" THEN Faulted(t.port, r) ELSE {t} : t \in Transfer(p, r)})
    \cup (IF May(p, "BUSY") THEN {Failed(Noisy(p), "TIMEOUT")} ELSE {})

\* arm_adi_read_dp and arm_adi_write_dp
ReadDp(p, reg) == TransferRetry(p, Dp(reg, TRUE, "NOTHING"))
WriteDp(p, reg, data) == TransferRetry(p, Dp(reg, FALSE, data))

\* select_ap_bank: s_selected is the bank of the last SELECT that was acknowledged.
SelectApBank(p, bank) ==
    IF p.selected = bank THEN {Done(p)}
    ELSE Then(WriteDp(p, "SELECT", bank), LAMBDA s : {Done([s.port EXCEPT !.selected = bank])})

\* arm_adi_read_ap: the read is posted, RDBUFF returns what it fetched.
ReadAp(p, bank, reg) ==
    Then(SelectApBank(p, bank), LAMBDA s :
        Then(TransferRetry(s.port, Ap(reg, TRUE, "NOTHING")), LAMBDA t :
            ReadDp(t.port, "RDBUFF")))

\* arm_adi_write_ap
WriteAp(p, bank, reg, data) ==
    Then(SelectApBank(p, bank), LAMBDA s : TransferRetry(s.port, Ap(reg, FALSE, data)))
-----------------------------------------------------------------------------
(***************************************************************************)
(* arm_adi_connect                                                         *)
(***************************************************************************)

\* CTRL/STAT is read until the power is acknowledged, whatever a read returns;
\* two tries stand for all.
PowerAck(p) ==
    LET acked(results) == {r \in results : r.status = "OK" /\ r.value = "POWER_ACK"}
        first == ReadDp(p, "CTRL")
        again == UNION {ReadDp(r.port, "CTRL") : r \in first \ acked(first)}
    IN {Done(r.port) : r \in acked(first) \cup acked(again)}
       \cup {Failed(r.port, "TIMEOUT") : r \in again \ acked(again)}

ValidIdr(r) == r.status = "OK" /\ r.value = "IDR"

\* read_ap_idr_after_reset: a FAULT or an empty IDR is tried again with the error
\* cleared and the bank forgotten; two tries stand for all.
ReadIdrAfterReset(p) ==
    LET retried(r) == r.status \in {"OK", "FAULT"} /\ ~ValidIdr(r)
        first == ReadAp(p, "ID", "0C")
        clearing == UNION {Transfer(r.port, Clear) : r \in {f \in first : retried(f)}}
        again == UNION {ReadAp([c.port EXCEPT !.selected = "UNKNOWN"], "ID", "0C") :
                            c \in clearing}
    IN {f \in first : ~retried(f)}
       \cup {IF r.status = "OK" /\ ~ValidIdr(r) THEN Failed(r.port, "TARGET_ID") ELSE r :
                r \in again}

ReadIdr(p) ==
    {IF r.status = "OK" /\ ~ValidIdr(r) THEN Failed(r.port, "TARGET_ID") ELSE r :
        r \in ReadAp(p, "ID", "0C")}

\* The debug port: errors cleared, the bank selected, the power asked for.
PowerUp(p) ==
    Then(WriteDp(p, "ABORT", "NOTHING"), LAMBDA a :
    Then(WriteDp(a.port, "SELECT", "MEM"), LAMBDA s :
    Then(WriteDp([s.port EXCEPT !.selected = "MEM"], "CTRL", "NOTHING"), LAMBDA c :
        PowerAck(c.port))))

\* nRESET is released before the access port is identified.
Identified(p, underReset) ==
    LET released == [p EXCEPT !.nreset = FALSE]
    IN IF underReset THEN ReadIdrAfterReset(released) ELSE ReadIdr(released)

\* The DP and the AP are set up, with the MEM bank and word accesses at the end.
SetUp(p, underReset) ==
    Then(PowerUp(p), LAMBDA k :
    Then(Identified(k.port, underReset), LAMBDA i :
    Then(WriteAp(i.port, "MEM", "00", "NOTHING"), LAMBDA w :
        {Done([w.port EXCEPT !.connected = TRUE])})))

\* connect_at_speed: without VTref nothing is driven; with no DPIDR all is released.
ConnectAtSpeed(p, underReset) ==
    LET old == [Fresh(p) EXCEPT !.connected = FALSE]
        driven == [Enable(old, underReset) EXCEPT !.selected = "UNKNOWN"]
    IN IF ~p.present THEN {Failed(old, "TARGET_POWER")}
       ELSE UNION {CASE r.status # "OK" -> {Failed(SafeState(r.port), r.status)}
                     [] r.status = "OK" /\ r.value # "DPIDR" ->
                           {Failed(SafeState(r.port), "TARGET_ID")}
                     [] OTHER -> SetUp(r.port, underReset) : r \in ReadDp(driven, "IDCODE")}

\* The attempts of arm_adi_connect: 100 kHz under reset, then 1000, 500, 250, 100 kHz.
Attempts == 5
UnderReset(n) == n = 1

\* Mutants of NextAttempt: a failed fallback is tried again, or as one more speed.
NextAttemptAgain(n, status) ==
    IF n = 1 THEN (IF status = "OK" THEN 2 ELSE 0) ELSE IF status = "OK" THEN 0
    ELSE IF n = Attempts THEN 2 ELSE n + 1
NextAttemptMore(n, status) ==
    IF n = 1 THEN (IF status = "OK" THEN 2 ELSE 0) ELSE IF status = "OK" THEN 0 ELSE n + 1

\* arm_adi_connect: the attempt after the n-th, or 0. The first must work; then the
\* first speed that works is taken.
NextAttempt(n, status) ==
    IF n = 1 THEN (IF status = "OK" THEN 2 ELSE 0)
    ELSE IF status = "OK" \/ n = Attempts THEN 0 ELSE n + 1

\* Mutant of Disconnect: the session is forgotten, the pins are not.
DisconnectDriven(p) == [p EXCEPT !.connected = FALSE]

\* arm_adi_disconnect
Disconnect(p) == [SafeState(p) EXCEPT !.connected = FALSE]
-----------------------------------------------------------------------------
(***************************************************************************)
(* arm_adi_mem_read32 and arm_adi_mem_write32: word size, address, data.   *)
(***************************************************************************)
Addressed(p, address) ==
    Then(WriteAp(Fresh(p), "MEM", "00", "NOTHING"), LAMBDA c :
        WriteAp(c.port, "MEM", "04", address))

MemRead(p, address) ==
    IF ~p.connected THEN {Failed(Fresh(p), "ARGUMENT")}
    ELSE Then(Addressed(p, address), LAMBDA t : ReadAp(t.port, "MEM", "0C"))

MemWrite(p, address) ==
    IF ~p.connected THEN {Failed(Fresh(p), "ARGUMENT")}
    ELSE Then(Addressed(p, address), LAMBDA t : WriteAp(t.port, "MEM", "0C", "NOTHING"))
=============================================================================
