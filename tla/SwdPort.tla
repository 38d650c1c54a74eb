-------------------------------- MODULE SwdPort --------------------------------
(***************************************************************************)
(* components/swd_phy, and the serial wire debug port of the target at the *)
(* other end of its pins (external: the Arm Debug Interface as arm_adi.c   *)
(* uses it).  The state of both is one record; a transfer is the set of    *)
(* its outcomes, each with the state it leaves, the status swd_phy returns *)
(* and the value read.  Bits, parity and timing are abstracted to what can *)
(* go wrong with them: Disturbance says what may.                          *)
(***************************************************************************)
EXTENDS Naturals

CONSTANTS
    Address,      \* word addresses of the target's memory and registers
    NoAddress,    \* no word, or one next to those that are meant
    Disturbance,  \* what may happen to a transfer: a subset of AllDisturbances
    MaxNoise      \* bound: disturbed transfers

AllDisturbances ==
    {"ACK",       \* the acknowledge is not understood: no data phase follows
     "READ",      \* the data read has the wrong parity
     "WRITE",     \* the data written arrives with the wrong parity
     "BUSY"}      \* the target answers WAIT until the probe gives up

ASSUME PortAssumption ==
    /\ NoAddress \notin Address
    /\ Disturbance \subseteq AllDisturbances
    /\ MaxNoise \in Nat

(***************************************************************************)
(* enabled and nreset are the pins, selected and connected the variables   *)
(* of arm_adi.c.  The rest is the target's: powered at all, in step with   *)
(* the probe (LOST: not, OFF: not before a line reset), its sticky error,  *)
(* AP bank, debug power, word size, transfer address, and the word its     *)
(* last posted read fetched.  hit is the word the memory bus of the target *)
(* was asked for by the last access, noise how many transfers may still be *)
(* disturbed.                                                              *)
(***************************************************************************)
Bank == {"MEM", "ID"}
Token == {"IDR", "ZERO", "DPIDR", "POWER_ACK", "NOTHING"}
Port == [enabled : BOOLEAN, nreset : BOOLEAN, selected : Bank \cup {"UNKNOWN"},
         connected : BOOLEAN, present : BOOLEAN, line : {"SYNC", "LOST", "OFF"},
         sticky : BOOLEAN, bank : Bank, power : BOOLEAN, word : BOOLEAN,
         tar : Address \cup {NoAddress}, posted : Address \cup {NoAddress} \cup Token,
         hit : Address \cup {NoAddress}, noise : 0 .. MaxNoise]

\* Power gone: what the target forgets.
PowerLost(p) == [p EXCEPT !.present = FALSE, !.line = "OFF", !.sticky = FALSE, !.bank = "MEM",
                          !.power = FALSE, !.word = FALSE, !.tar = NoAddress,
                          !.posted = "NOTHING"]

\* The probe has booted, the target has just been powered.
PortInit == [enabled |-> FALSE, nreset |-> FALSE, selected |-> "UNKNOWN", connected |-> FALSE,
             present |-> TRUE, line |-> "OFF", sticky |-> FALSE, bank |-> "MEM",
             power |-> FALSE, word |-> FALSE, tar |-> NoAddress, posted |-> "NOTHING",
             hit |-> NoAddress, noise |-> MaxNoise]

\* Nothing accessed yet; what an earlier read fetched is of no use to a later one.
Fresh(p) == [p EXCEPT !.hit = NoAddress, !.posted = "NOTHING"]

Result(p, status, value) == [port |-> p, status |-> status, value |-> value]
Failed(p, status) == Result(p, status, "NOTHING")
Done(p) == Result(p, "OK", "NOTHING")

\* What follows a result that is OK; another one is the outcome as it stands.
Then(results, Step(_)) ==
    UNION {IF r.status = "OK" THEN Step(r) ELSE {r} : r \in results}
-----------------------------------------------------------------------------
(***************************************************************************)
(* The target.                                                             *)
(***************************************************************************)
Dp(reg, read, data) == [ap |-> FALSE, reg |-> reg, read |-> read, data |-> data]
Ap(reg, read, data) == [ap |-> TRUE, reg |-> reg, read |-> read, data |-> data]

\* Only two address bits are on the wires: the bank says which register it is.
ApRegister(bank, reg) ==
    IF bank = "ID" THEN (IF reg = "0C" THEN "IDR" ELSE "RESERVED")
    ELSE CASE reg = "00" -> "CSW" [] reg = "04" -> "TAR" [] OTHER -> "DRW"

Answers(p) == p.present /\ ~p.nreset
Fetched(p) == IF p.word THEN p.tar ELSE NoAddress

ApAccess(p, r) ==
    LET register == ApRegister(p.bank, r.reg) IN
    IF ~p.power THEN Failed([p EXCEPT !.sticky = TRUE], "FAULT") ELSE
    CASE register = "DRW" /\ ~Answers(p) -> Done([p EXCEPT !.sticky = TRUE])
      [] register = "DRW" /\ Answers(p) ->
            Done([p EXCEPT !.hit = Fetched(p), !.posted = Fetched(p), !.tar = NoAddress])
      [] register = "CSW" /\ ~r.read -> Done([p EXCEPT !.word = TRUE])
      [] register = "TAR" /\ ~r.read -> Done([p EXCEPT !.tar = r.data])
      [] OTHER -> Done([p EXCEPT !.posted =
                            IF register = "IDR" /\ Answers(p) THEN "IDR" ELSE "ZERO"])

DpAccess(p, r) ==
    CASE r.reg = "ABORT" -> Done([p EXCEPT !.sticky = FALSE])
      [] r.reg = "SELECT" -> Done([p EXCEPT !.bank = r.data])
      [] r.reg = "CTRL" /\ ~r.read -> Done([p EXCEPT !.power = TRUE])
      [] r.reg = "CTRL" /\ r.read -> Result(p, "OK", IF p.power THEN "POWER_ACK" ELSE "ZERO")
      [] r.reg = "IDCODE" -> Result(p, "OK", "DPIDR")
      [] r.reg = "RDBUFF" -> Result(p, "OK", p.posted)

Access(p, r) == IF r.ap THEN ApAccess(p, r) ELSE DpAccess(p, r)

\* A sticky error refuses everything but what may find out and clear it.
Refuses(p, r) ==
    /\ p.sticky
    /\ ~(r.reg \in {"IDCODE", "ABORT"} \/ (r.reg = "CTRL" /\ r.read))
-----------------------------------------------------------------------------
(***************************************************************************)
(* The probe's side.                                                       *)
(***************************************************************************)

\* swd_phy_safe_state
SafeState(p) == [p EXCEPT !.enabled = FALSE, !.nreset = FALSE]

\* swd_phy_enable, swd_phy_assert_reset and swd_phy_line_reset, with VTref present.
Enable(p, reset) == [p EXCEPT !.enabled = TRUE, !.nreset = reset, !.line = "SYNC"]

May(p, what) == what \in Disturbance /\ p.noise > 0
Noisy(p) == [p EXCEPT !.noise = @ - 1]

Disturbed(p, r) ==
    {Failed([Noisy(p) EXCEPT !.line = line], "LINK") :
        line \in IF May(p, "ACK") THEN {"SYNC", "LOST"} ELSE {}}
    \cup (IF May(p, "READ") /\ r.read THEN {Failed(Access(Noisy(p), r).port, "PARITY")} ELSE {})
    \cup (IF May(p, "WRITE") /\ ~r.read THEN {Done([Noisy(p) EXCEPT !.sticky = TRUE])} ELSE {})

\* swd_phy_transfer
Transfer(p, r) ==
    IF ~p.enabled THEN {Failed(p, "STATE")}
    ELSE IF ~p.present \/ p.line = "OFF" THEN {Failed(p, "LINK")}
    ELSE IF p.line = "LOST" THEN {Failed(q, "LINK") : q \in {p, [p EXCEPT !.line = "SYNC"]}}
    ELSE IF Refuses(p, r)
         THEN {Failed(p, "FAULT")} \cup {d \in Disturbed(p, r) : d.status = "LINK"}
    ELSE {Access(p, r)} \cup Disturbed(p, r)
=============================================================================
