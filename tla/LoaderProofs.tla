----------------------------- MODULE LoaderProofs -----------------------------
(***************************************************************************)
(* Proofs about Loader, for any kinds of chip, any noise on the wire that  *)
(* SwdPort allows, and any number of resets and unpluggings.               *)
(*                                                                         *)
(* The invariant is Inv, at the end.  Its parts, and what each is for:     *)
(*   Control     types; where an operation may be; the pins                *)
(*   ChipInv     who is plugged in when the memory is written              *)
(*   CommandInv  a command of the loader, from the first word of its       *)
(*               mailbox to its last, against what the core is doing       *)
(*   ResetInv    what the reset that ends an operation leaves behind       *)
(*   FlashInv    what the verification of the flash is worth later         *)
(* Before them, what the helpers of the port and of the operations do.     *)
(***************************************************************************)
EXTENDS Loader, TLAPS

-----------------------------------------------------------------------------
(***************************************************************************)
(* The port: what a transfer returns and what it leaves alone.             *)
(***************************************************************************)
Outcomes == {"OK", "FAULT", "LINK", "PARITY", "STATE", "TIMEOUT", "TARGET_ID", "TARGET_POWER",
             "ARGUMENT"}
Slot == Address \cup {NoAddress}
Got == Slot \cup Token
Outcome == [port : Port, status : Outcomes, value : Got]

\* A transfer arm_adi.c asks for.
Request ==
    {r \in [ap : BOOLEAN, reg : {"ABORT", "SELECT", "CTRL", "IDCODE", "RDBUFF", "00", "04", "0C"},
            read : BOOLEAN, data : Bank \cup Address \cup {"NOTHING"}] :
        /\ r.ap <=> r.reg \in {"00", "04", "0C"}
        /\ r.reg = "04" => r.read \/ r.data \in Address
        /\ r.reg = "SELECT" => r.data \in Bank}

ApWrite(reg, data) == Ap(reg, FALSE, data)
ApRead(reg) == Ap(reg, TRUE, "NOTHING")

\* Two ports are the same but for some fields.
Field == {"enabled", "nreset", "selected", "connected", "present", "line", "sticky", "bank",
          "power", "word", "tar", "posted", "hit", "noise"}
But(p, o, fields) == \A f \in Field \ fields : o[f] = p[f]

\* What a transfer of the target's side may change, and one that is refused or lost.
Moved == {"line", "sticky", "bank", "power", "word", "tar", "posted", "hit", "noise"}
Upset == {"line", "sticky", "noise"}
Off(p, o) == p.line = "OFF" => o.line = "OFF"

\* What an assignment to one field of the port leaves, field by field.
LEMMA SetSticky ==
    ASSUME NEW p \in Port, NEW b \in BOOLEAN, NEW o, o = [p EXCEPT !.sticky = b]
    PROVE  o \in Port /\ o.sticky = b /\ But(p, o, {"sticky"})
BY DEF Port, But, Field

LEMMA SetPower ==
    ASSUME NEW p \in Port, NEW b \in BOOLEAN, NEW o, o = [p EXCEPT !.power = b]
    PROVE  o \in Port /\ o.power = b /\ But(p, o, {"power"})
BY DEF Port, But, Field

LEMMA SetWord ==
    ASSUME NEW p \in Port, NEW b \in BOOLEAN, NEW o, o = [p EXCEPT !.word = b]
    PROVE  o \in Port /\ o.word = b /\ But(p, o, {"word"})
BY DEF Port, But, Field

LEMMA SetBank ==
    ASSUME NEW p \in Port, NEW b \in Bank, NEW o, o = [p EXCEPT !.bank = b]
    PROVE  o \in Port /\ o.bank = b /\ But(p, o, {"bank"})
BY DEF Port, But, Field

LEMMA SetSelected ==
    ASSUME NEW p \in Port, NEW b \in Bank \cup {"UNKNOWN"}, NEW o, o = [p EXCEPT !.selected = b]
    PROVE  o \in Port /\ o.selected = b /\ But(p, o, {"selected"})
BY DEF Port, But, Field

LEMMA SetTar ==
    ASSUME NEW p \in Port, NEW w \in Slot, NEW o, o = [p EXCEPT !.tar = w]
    PROVE  o \in Port /\ o.tar = w /\ But(p, o, {"tar"})
BY DEF Port, But, Field, Slot

LEMMA SetPosted ==
    ASSUME NEW p \in Port, NEW w \in Got, NEW o, o = [p EXCEPT !.posted = w]
    PROVE  o \in Port /\ o.posted = w /\ But(p, o, {"posted"})
BY DEF Port, But, Field, Slot, Got

LEMMA SetLine ==
    ASSUME NEW p \in Port, NEW w \in {"SYNC", "LOST", "OFF"}, NEW o, o = [p EXCEPT !.line = w]
    PROVE  o \in Port /\ o.line = w /\ But(p, o, {"line"})
BY DEF Port, But, Field

LEMMA SetReset ==
    ASSUME NEW p \in Port, NEW b \in BOOLEAN, NEW o, o = [p EXCEPT !.nreset = b]
    PROVE  o \in Port /\ o.nreset = b /\ But(p, o, {"nreset"})
BY DEF Port, But, Field

LEMMA SetConnected ==
    ASSUME NEW p \in Port, NEW b \in BOOLEAN, NEW o, o = [p EXCEPT !.connected = b]
    PROVE  o \in Port /\ o.connected = b /\ But(p, o, {"connected"})
BY DEF Port, But, Field

\* A read puts the addressed word in the posted-read buffer and moves the address on.
LEMMA Fetch ==
    ASSUME NEW p \in Port, NEW w \in Slot,
           NEW o, o = [p EXCEPT !.hit = w, !.posted = w, !.tar = NoAddress]
    PROVE  o \in Port /\ o.hit = w /\ o.posted = w /\ But(p, o, {"hit", "posted", "tar"})
BY DEF Port, But, Field, Slot

\* Fresh resets the history of the last access.
LEMMA FreshPort ==
    ASSUME NEW p \in Port, NEW o, o = Fresh(p)
    PROVE  o \in Port /\ o.hit = NoAddress /\ But(p, o, {"hit", "posted"})
BY DEF Fresh, Port, But, Field, Token

\* A disturbance uses up one of those allowed.
LEMMA NoisyPort ==
    ASSUME NEW p \in Port, p.noise > 0, NEW o, o = Noisy(p)
    PROVE  o \in Port /\ But(p, o, {"noise"})
<1>1. p.noise - 1 \in 0 .. MaxNoise
  BY PortAssumption DEF Port
<1>2. o = [p EXCEPT !.noise = p.noise - 1]
  BY DEF Noisy
<1> QED
  BY <1>1, <1>2 DEF Port, But, Field

\* But composes, and may be weakened.
LEMMA ButChain ==
    ASSUME NEW p, NEW o, NEW u, NEW f, NEW g, But(p, o, f), But(o, u, g)
    PROVE  But(p, u, f \cup g)
BY DEF But

LEMMA ButMore ==
    ASSUME NEW p, NEW o, NEW f, NEW g, But(p, o, f), f \cap Field \subseteq g
    PROVE  But(p, o, g)
BY DEF But

\* An outcome is its three fields.
LEMMA OutcomeOf ==
    ASSUME NEW o \in Port, NEW status \in Outcomes, NEW value \in Got,
           NEW t, t = Result(o, status, value)
    PROVE  t \in Outcome /\ t.port = o /\ t.status = status /\ t.value = value
BY DEF Result, Outcome

\* The outcomes that are a port with a status, or with OK.
LEMMA Plain ==
    ASSUME NEW o \in Port
    PROVE  /\ \A status \in Outcomes : \A t : t = Failed(o, status) =>
                t \in Outcome /\ t.port = o /\ t.status = status
           /\ \A t : t = Done(o) => t \in Outcome /\ t.port = o /\ t.status = "OK"
BY OutcomeOf DEF Failed, Done, Outcomes, Got, Token

\* What a request is, by its fields.
LEMMA RequestFields ==
    ASSUME NEW r \in Request
    PROVE  /\ r.ap \in BOOLEAN /\ r.read \in BOOLEAN
           /\ r.reg \in {"ABORT", "SELECT", "CTRL", "IDCODE", "RDBUFF", "00", "04", "0C"}
           /\ (r.ap <=> r.reg \in {"00", "04", "0C"})
           /\ (r.reg = "04" => r.read \/ r.data \in Address)
           /\ (r.reg = "SELECT" => r.data \in Bank)
BY DEF Request

\* The transfers the code asks for are requests.
LEMMA RequestTypes ==
    /\ \A reg \in {"CTRL", "IDCODE", "RDBUFF"} : Dp(reg, TRUE, "NOTHING") \in Request
    /\ \A reg \in {"ABORT", "CTRL"} : Dp(reg, FALSE, "NOTHING") \in Request
    /\ \A b \in Bank : Dp("SELECT", FALSE, b) \in Request
    /\ \A reg \in {"00", "04", "0C"} : ApRead(reg) \in Request
    /\ \A reg \in {"00", "0C"} : ApWrite(reg, "NOTHING") \in Request
    /\ \A a \in Address : ApWrite("04", a) \in Request
BY DEF Request, Dp, Ap, ApRead, ApWrite

\* What the target does for a request it does not refuse.
LEMMA AccessApCases ==
    ASSUME NEW p \in Port, NEW r \in Request, r.ap
    PROVE  LET reg == ApRegister(p.bank, r.reg) IN
           /\ ~p.power => Access(p, r) = Failed([p EXCEPT !.sticky = TRUE], "FAULT")
           /\ p.power /\ reg = "DRW" /\ ~Answers(p) =>
                Access(p, r) = Done([p EXCEPT !.sticky = TRUE])
           /\ p.power /\ reg = "DRW" /\ Answers(p) =>
                Access(p, r) =
                  Done([p EXCEPT !.hit = Fetched(p), !.posted = Fetched(p), !.tar = NoAddress])
           /\ p.power /\ reg = "CSW" /\ ~r.read => Access(p, r) = Done([p EXCEPT !.word = TRUE])
           /\ p.power /\ reg = "TAR" /\ ~r.read => Access(p, r) = Done([p EXCEPT !.tar = r.data])
           /\ p.power /\ reg # "DRW" /\ (reg \notin {"CSW", "TAR"} \/ r.read) =>
                Access(p, r) = Done([p EXCEPT !.posted =
                                       IF reg = "IDR" /\ Answers(p) THEN "IDR" ELSE "ZERO"])
BY DEF Access, ApAccess

\* What the debug port does, register by register.
LEMMA AccessDpCases ==
    ASSUME NEW p \in Port, NEW r \in Request, ~r.ap
    PROVE  /\ r.reg = "ABORT" => Access(p, r) = Done([p EXCEPT !.sticky = FALSE])
           /\ r.reg = "SELECT" => Access(p, r) = Done([p EXCEPT !.bank = r.data])
           /\ r.reg = "CTRL" /\ ~r.read => Access(p, r) = Done([p EXCEPT !.power = TRUE])
           /\ r.reg = "CTRL" /\ r.read =>
                Access(p, r) = Result(p, "OK", IF p.power THEN "POWER_ACK" ELSE "ZERO")
           /\ r.reg = "IDCODE" => Access(p, r) = Result(p, "OK", "DPIDR")
           /\ r.reg = "RDBUFF" => Access(p, r) = Result(p, "OK", p.posted)
BY DEF Access, DpAccess

\* What an undisturbed transfer can do to the port.
LEMMA AccessFacts ==
    ASSUME NEW p \in Port, NEW r \in Request, NEW a, a = Access(p, r)
    PROVE  /\ a \in Outcome /\ a.status \in {"OK", "FAULT"}
           /\ a.status = "FAULT" => r.ap /\ But(p, a.port, {"sticky"})
           /\ But(p, a.port, {"sticky", "bank", "power", "word", "tar", "posted", "hit"})
           /\ r.reg # "SELECT" => a.port.bank = p.bank
           /\ r.reg = "SELECT" => a.port.bank = r.data
           /\ r.reg # "0C" => a.port.hit = p.hit
           /\ a.port.hit \in {p.hit, Fetched(p)}
<1> DEFINE moved == {"sticky", "bank", "power", "word", "tar", "posted", "hit"}
<1>p. p.bank \in Bank /\ p.tar \in Slot /\ p.posted \in Got
  BY DEF Port, Slot, Got
<1>1. CASE r.ap
  <2> DEFINE reg == ApRegister(p.bank, r.reg)
  <2>0. /\ r.reg # "SELECT" /\ r.read \in BOOLEAN
        /\ reg = "DRW" => r.reg = "0C"
        /\ reg = "TAR" /\ ~r.read => r.data \in Slot
    BY <1>p, <1>1, RequestFields DEF ApRegister, Bank, Slot
  <2>1. CASE ~p.power
    <3> DEFINE o == [p EXCEPT !.sticky = TRUE]
    <3>1. a = Failed(o, "FAULT")
      BY <1>1, <2>1, AccessApCases
    <3>2. o \in Port /\ But(p, o, {"sticky"})
      BY SetSticky
    <3> HIDE DEF o
    <3>3. a \in Outcome /\ a.port = o /\ a.status = "FAULT"
      BY <3>1, <3>2, Plain DEF Outcomes
    <3> QED
      BY <1>1, <2>0, <3>2, <3>3 DEF But, Field
  <2>2. CASE p.power /\ reg = "DRW" /\ ~Answers(p)
    <3> DEFINE o == [p EXCEPT !.sticky = TRUE]
    <3>1. a = Done(o)
      BY <1>1, <2>2, AccessApCases
    <3>2. o \in Port /\ But(p, o, {"sticky"})
      BY SetSticky
    <3> HIDE DEF o
    <3>3. a \in Outcome /\ a.port = o /\ a.status = "OK"
      BY <3>1, <3>2, Plain
    <3> QED
      BY <2>0, <3>2, <3>3 DEF But, Field
  <2>3. CASE p.power /\ reg = "DRW" /\ Answers(p)
    <3> DEFINE o == [p EXCEPT !.hit = Fetched(p), !.posted = Fetched(p), !.tar = NoAddress]
    <3>1. a = Done(o)
      BY <1>1, <2>3, AccessApCases
    <3>2. Fetched(p) \in Slot
      BY <1>p DEF Fetched, Slot
    <3>3. o \in Port /\ But(p, o, {"hit", "posted", "tar"}) /\ o.hit = Fetched(p)
      BY <3>2, Fetch
    <3> HIDE DEF o
    <3>4. a \in Outcome /\ a.port = o /\ a.status = "OK"
      BY <3>1, <3>3, Plain
    <3> QED
      BY <2>0, <2>3, <3>3, <3>4 DEF But, Field
  <2>4. CASE p.power /\ reg = "CSW" /\ ~r.read
    <3> DEFINE o == [p EXCEPT !.word = TRUE]
    <3>1. a = Done(o)
      BY <1>1, <2>4, AccessApCases
    <3>2. o \in Port /\ But(p, o, {"word"})
      BY SetWord
    <3> HIDE DEF o
    <3>3. a \in Outcome /\ a.port = o /\ a.status = "OK"
      BY <3>1, <3>2, Plain
    <3> QED
      BY <2>0, <3>2, <3>3 DEF But, Field
  <2>5. CASE p.power /\ reg = "TAR" /\ ~r.read
    <3> DEFINE o == [p EXCEPT !.tar = r.data]
    <3>1. a = Done(o)
      BY <1>1, <2>5, AccessApCases
    <3>2. o \in Port /\ But(p, o, {"tar"})
      BY <2>0, <2>5, SetTar
    <3> HIDE DEF o
    <3>3. a \in Outcome /\ a.port = o /\ a.status = "OK"
      BY <3>1, <3>2, Plain
    <3> QED
      BY <2>0, <3>2, <3>3 DEF But, Field
  <2>6. CASE p.power /\ reg # "DRW" /\ (reg \notin {"CSW", "TAR"} \/ r.read)
    <3> DEFINE w == IF reg = "IDR" /\ Answers(p) THEN "IDR" ELSE "ZERO"
               o == [p EXCEPT !.posted = w]
    <3>1. a = Done(o)
      BY <1>1, <2>6, AccessApCases
    <3>2. w \in Got
      BY DEF Got, Token
    <3> HIDE DEF w
    <3>3. o \in Port /\ But(p, o, {"posted"})
      BY <3>2, SetPosted
    <3> HIDE DEF o
    <3>4. a \in Outcome /\ a.port = o /\ a.status = "OK"
      BY <3>1, <3>3, Plain
    <3> QED
      BY <2>0, <3>3, <3>4 DEF But, Field
  <2> HIDE DEF reg
  <2> QED
    BY <2>0, <2>1, <2>2, <2>3, <2>4, <2>5, <2>6
<1>2. CASE ~r.ap
  <2>0. r.reg \in {"ABORT", "SELECT", "CTRL", "IDCODE", "RDBUFF"} /\ r.reg # "0C"
        /\ r.read \in BOOLEAN
    BY <1>2, RequestFields
  <2>1. CASE r.reg = "ABORT"
    <3> DEFINE o == [p EXCEPT !.sticky = FALSE]
    <3>1. a = Done(o)
      BY <1>2, <2>1, AccessDpCases
    <3>2. o \in Port /\ But(p, o, {"sticky"})
      BY SetSticky
    <3> HIDE DEF o
    <3>3. a \in Outcome /\ a.port = o /\ a.status = "OK"
      BY <3>1, <3>2, Plain
    <3> QED
      BY <2>1, <3>2, <3>3 DEF But, Field
  <2>2. CASE r.reg = "SELECT"
    <3> DEFINE o == [p EXCEPT !.bank = r.data]
    <3>1. a = Done(o)
      BY <1>2, <2>2, AccessDpCases
    <3>2. o \in Port /\ But(p, o, {"bank"}) /\ o.bank = r.data
      BY <2>2, RequestFields, SetBank
    <3> HIDE DEF o
    <3>3. a \in Outcome /\ a.port = o /\ a.status = "OK"
      BY <3>1, <3>2, Plain
    <3> QED
      BY <2>2, <3>2, <3>3 DEF But, Field
  <2>3. CASE r.reg = "CTRL" /\ ~r.read
    <3> DEFINE o == [p EXCEPT !.power = TRUE]
    <3>1. a = Done(o)
      BY <1>2, <2>3, AccessDpCases
    <3>2. o \in Port /\ But(p, o, {"power"})
      BY SetPower
    <3> HIDE DEF o
    <3>3. a \in Outcome /\ a.port = o /\ a.status = "OK"
      BY <3>1, <3>2, Plain
    <3> QED
      BY <2>3, <3>2, <3>3 DEF But, Field
  <2>4. CASE (r.reg = "CTRL" /\ r.read) \/ r.reg \in {"IDCODE", "RDBUFF"}
    <3>1. \E w \in Got : a = Result(p, "OK", w)
      <4>1. CASE r.reg = "CTRL" /\ r.read
        <5>1. a = Result(p, "OK", IF p.power THEN "POWER_ACK" ELSE "ZERO")
          BY <1>2, <4>1, AccessDpCases
        <5> QED
          BY <5>1 DEF Got, Token
      <4>2. CASE r.reg = "IDCODE"
        <5>1. a = Result(p, "OK", "DPIDR")
          BY <1>2, <4>2, AccessDpCases
        <5> QED
          BY <5>1 DEF Got, Token
      <4>3. CASE r.reg = "RDBUFF"
        <5>1. a = Result(p, "OK", p.posted)
          BY <1>2, <4>3, AccessDpCases
        <5> QED
          BY <1>p, <5>1
      <4> QED
        BY <2>4, <4>1, <4>2, <4>3
    <3>2. a \in Outcome /\ a.port = p /\ a.status = "OK"
      BY <3>1, OutcomeOf DEF Outcomes
    <3> QED
      BY <2>4, <3>2 DEF But
  <2> QED
    BY <2>0, <2>1, <2>2, <2>3, <2>4
<1> QED
  BY <1>1, <1>2, RequestFields

\* How a transfer comes out: refused or not understood, done, answered with the wrong
\* parity, or written and lost.
Unmoved(p, t) ==
    /\ t \in Outcome /\ t.status # "OK" /\ Off(p, t.port)
    /\ But(p, t.port, IF t.status = "FAULT" THEN Upset ELSE {"line", "noise"})
Linked(p) == p.enabled /\ p.present /\ p.line = "SYNC"
Obeyed(p, r, t) == Linked(p) /\ ~Refuses(p, r) /\ t = Access(p, r)
Garbled(p, r, t) ==
    /\ Linked(p) /\ ~Refuses(p, r) /\ r.read /\ t.status = "PARITY" /\ p.noise > 0
    /\ t \in Outcome /\ t.port = Access(Noisy(p), r).port
Lost(p, r, t) ==
    /\ Linked(p) /\ ~Refuses(p, r) /\ ~r.read /\ t.status = "OK"
    /\ t \in Outcome /\ But(p, t.port, {"sticky", "noise"}) /\ t.port.sticky

\* What a disturbed transfer can do to the port.
LEMMA DisturbedCases ==
    ASSUME NEW p \in Port, NEW r \in Request, NEW t \in Disturbed(p, r)
    PROVE  /\ p.noise > 0
           /\ \/ /\ t.status = "LINK" /\ t \in Outcome
                 /\ But(p, t.port, {"line", "noise"})
              \/ /\ r.read /\ t.status = "PARITY" /\ t \in Outcome
                 /\ t.port = Access(Noisy(p), r).port
              \/ /\ ~r.read /\ t.status = "OK" /\ t \in Outcome
                 /\ But(p, t.port, {"sticky", "noise"}) /\ t.port.sticky
<1>1. CASE \E line \in {"SYNC", "LOST"} :
             May(p, "ACK") /\ t = Failed([Noisy(p) EXCEPT !.line = line], "LINK")
  <2>1. PICK line \in {"SYNC", "LOST"} :
          May(p, "ACK") /\ t = Failed([Noisy(p) EXCEPT !.line = line], "LINK")
    BY <1>1
  <2>2. p.noise > 0
    BY <2>1 DEF May
  <2> DEFINE n == Noisy(p)
             o == [n EXCEPT !.line = line]
  <2>3. n \in Port /\ But(p, n, {"noise"})
    BY <2>2, NoisyPort
  <2> HIDE DEF n
  <2>4. o \in Port /\ But(n, o, {"line"})
    BY <2>3, SetLine
  <2>5. t = Failed(o, "LINK")
    BY <2>1 DEF n
  <2> HIDE DEF o
  <2>6. t \in Outcome /\ t.port = o /\ t.status = "LINK"
    BY <2>4, <2>5, Plain DEF Outcomes
  <2> QED
    BY <2>2, <2>3, <2>4, <2>6 DEF But, Field
<1>2. CASE May(p, "READ") /\ r.read /\ t = Failed(Access(Noisy(p), r).port, "PARITY")
  <2>1. p.noise > 0
    BY <1>2 DEF May
  <2> DEFINE n == Noisy(p)
             a == Access(n, r)
  <2>2. n \in Port
    BY <2>1, NoisyPort
  <2> HIDE DEF n
  <2>3. a \in Outcome
    BY <2>2, AccessFacts
  <2>4. t = Failed(a.port, "PARITY")
    BY <1>2 DEF n
  <2>5. a.port \in Port
    BY <2>3 DEF Outcome
  <2> HIDE DEF a
  <2>6. t \in Outcome /\ t.port = a.port /\ t.status = "PARITY"
    BY <2>4, <2>5, Plain DEF Outcomes
  <2> QED
    BY <1>2, <2>1, <2>6 DEF a, n
<1>3. CASE May(p, "WRITE") /\ ~r.read /\ t = Done([Noisy(p) EXCEPT !.sticky = TRUE])
  <2>1. p.noise > 0
    BY <1>3 DEF May
  <2> DEFINE n == Noisy(p)
             o == [n EXCEPT !.sticky = TRUE]
  <2>2. n \in Port /\ But(p, n, {"noise"})
    BY <2>1, NoisyPort
  <2> HIDE DEF n
  <2>3. o \in Port /\ But(n, o, {"sticky"}) /\ o.sticky
    BY <2>2, SetSticky
  <2>4. t = Done(o)
    BY <1>3 DEF n
  <2> HIDE DEF o
  <2>5. t \in Outcome /\ t.port = o /\ t.status = "OK"
    BY <2>3, <2>4, Plain
  <2> QED
    BY <1>3, <2>1, <2>2, <2>3, <2>5 DEF But, Field
<1> QED
  BY <1>1, <1>2, <1>3 DEF Disturbed

\* swd_phy_transfer: one of four things has happened to the port.
LEMMA TransferCases ==
    ASSUME NEW p \in Port, NEW r \in Request, NEW t \in Transfer(p, r)
    PROVE  /\ Unmoved(p, t) \/ Obeyed(p, r, t) \/ Garbled(p, r, t) \/ Lost(p, r, t)
           /\ t.status = "FAULT" => But(p, t.port, {"sticky"}) /\ (Refuses(p, r) \/ r.ap)
<1>p. p.enabled \in BOOLEAN /\ p.present \in BOOLEAN /\ p.line \in {"SYNC", "LOST", "OFF"}
  BY DEF Port
<1>1. CASE ~p.enabled
  <2>1. t = Failed(p, "STATE")
    BY <1>1 DEF Transfer
  <2>2. t \in Outcome /\ t.port = p /\ t.status = "STATE"
    BY <2>1, Plain DEF Outcomes
  <2> QED
    BY <2>2 DEF Unmoved, But, Off
<1>2. CASE p.enabled /\ (~p.present \/ p.line = "OFF")
  <2>1. t = Failed(p, "LINK")
    BY <1>2 DEF Transfer
  <2>2. t \in Outcome /\ t.port = p /\ t.status = "LINK"
    BY <2>1, Plain DEF Outcomes
  <2> QED
    BY <2>2 DEF Unmoved, But, Off
<1>3. CASE p.enabled /\ p.present /\ p.line = "LOST"
  <2>1. PICK o \in {p, [p EXCEPT !.line = "SYNC"]} : t = Failed(o, "LINK")
    BY <1>3 DEF Transfer
  <2>2. o \in Port /\ But(p, o, {"line"})
    BY <2>1, SetLine DEF But
  <2>3. t \in Outcome /\ t.port = o /\ t.status = "LINK"
    BY <2>1, <2>2, Plain DEF Outcomes
  <2> QED
    BY <1>3, <2>2, <2>3 DEF Unmoved, But, Off, Upset
<1>4. CASE Linked(p) /\ Refuses(p, r)
  <2>1. t = Failed(p, "FAULT") \/ (t \in Disturbed(p, r) /\ t.status = "LINK")
    BY <1>4 DEF Transfer, Linked
  <2>2. CASE t = Failed(p, "FAULT")
    <3>1. t \in Outcome /\ t.port = p /\ t.status = "FAULT"
      BY <2>2, Plain DEF Outcomes
    <3> QED
      BY <1>4, <3>1 DEF Unmoved, But, Off
  <2>3. CASE t \in Disturbed(p, r) /\ t.status = "LINK"
    <3>1. t \in Outcome /\ But(p, t.port, {"line", "noise"})
      BY <2>3, DisturbedCases
    <3> QED
      BY <1>4, <2>3, <3>1 DEF Unmoved, But, Off, Upset, Linked
  <2> QED
    BY <2>1, <2>2, <2>3
<1>5. CASE Linked(p) /\ ~Refuses(p, r)
  <2>1. t = Access(p, r) \/ t \in Disturbed(p, r)
    BY <1>5 DEF Transfer, Linked
  <2>2. CASE t = Access(p, r)
    BY <1>5, <2>2, AccessFacts DEF Obeyed
  <2>3. CASE t \in Disturbed(p, r)
    <3>1. CASE t.status = "LINK" /\ t \in Outcome /\ But(p, t.port, {"line", "noise"})
      BY <1>5, <3>1 DEF Unmoved, But, Off, Upset, Linked
    <3>2. CASE /\ r.read /\ t.status = "PARITY" /\ t \in Outcome
               /\ t.port = Access(Noisy(p), r).port
      BY <1>5, <2>3, <3>2, DisturbedCases DEF Garbled
    <3>3. CASE /\ ~r.read /\ t.status = "OK" /\ t \in Outcome
               /\ But(p, t.port, {"sticky", "noise"}) /\ t.port.sticky
      BY <1>5, <3>3 DEF Lost
    <3> QED
      BY <2>3, <3>1, <3>2, <3>3, DisturbedCases
  <2> QED
    BY <2>1, <2>2, <2>3
<1> QED
  BY <1>p, <1>1, <1>2, <1>3, <1>4, <1>5 DEF Linked

\* transfer_retry: an error of the target is cleared before it is returned.
LEMMA ClearCases ==
    ASSUME NEW p \in Port, NEW a \in Transfer(p, Clear)
    PROVE  a.port \in Port /\ But(p, a.port, Upset) /\ Off(p, a.port)
<1>2. Clear \in Request /\ Clear.reg = "ABORT" /\ ~Clear.ap /\ ~Clear.read
  BY RequestTypes DEF Clear, Dp
<1>3. Unmoved(p, a) \/ Obeyed(p, Clear, a) \/ Garbled(p, Clear, a) \/ Lost(p, Clear, a)
  BY <1>2, TransferCases
<1>4. CASE Unmoved(p, a)
  BY <1>4 DEF Unmoved, Outcome, But, Upset
<1>5. CASE Obeyed(p, Clear, a)
  <2>1. a = Done([p EXCEPT !.sticky = FALSE])
    BY <1>5, <1>2, AccessDpCases DEF Obeyed
  <2> DEFINE o == [p EXCEPT !.sticky = FALSE]
  <2>2. o \in Port /\ But(p, o, {"sticky"})
    BY SetSticky
  <2>3. a = Done(o)
    BY <2>1
  <2> HIDE DEF o
  <2>4. a.port = o
    BY <2>2, <2>3, Plain
  <2> QED
    BY <1>5, <2>2, <2>4 DEF But, Upset, Off, Field, Obeyed, Linked
<1>6. CASE Garbled(p, Clear, a)
  BY <1>2, <1>6 DEF Garbled
<1>7. CASE Lost(p, Clear, a)
  BY <1>7 DEF Lost, Outcome, But, Upset, Off, Field, Linked
<1> QED
  BY <1>3, <1>4, <1>5, <1>6, <1>7

\* A transfer answered FAULT moves nothing.
LEMMA FaultedCases ==
    ASSUME NEW p \in Port, NEW r \in Request, NEW t \in Faulted(p, r)
    PROVE  Unmoved(p, t) /\ t.status = "FAULT"
<1>1. PICK a \in Transfer(p, Clear) : t = Failed(a.port, "FAULT")
  BY DEF Faulted
<1>2. a.port \in Port /\ But(p, a.port, Upset) /\ Off(p, a.port)
  BY <1>1, ClearCases
<1>3. t \in Outcome /\ t.port = a.port /\ t.status = "FAULT"
  BY <1>1, <1>2, Plain DEF Outcomes
<1> QED
  BY <1>2, <1>3 DEF Unmoved

\* transfer_retry comes to no more than one transfer: at most one of its tries was obeyed.
LEMMA RetryCases ==
    ASSUME NEW p \in Port, NEW r \in Request, NEW t \in TransferRetry(p, r)
    PROVE  /\ \/ Unmoved(p, t)
              \/ Obeyed(p, r, t) /\ t.status = "OK"
              \/ Garbled(p, r, t)
              \/ Lost(p, r, t)
           /\ t.status = "FAULT" => Refuses(p, r) \/ r.ap
<1>1. CASE May(p, "BUSY") /\ t = Failed(Noisy(p), "TIMEOUT")
  <2> DEFINE o == Noisy(p)
  <2>1. o \in Port /\ But(p, o, {"noise"})
    BY <1>1, NoisyPort DEF May
  <2>2. t = Failed(o, "TIMEOUT")
    BY <1>1
  <2> HIDE DEF o
  <2>3. t \in Outcome /\ t.port = o /\ t.status = "TIMEOUT"
    BY <2>1, <2>2, Plain DEF Outcomes
  <2> QED
    BY <2>1, <2>3 DEF Unmoved, But, Off, Field
<1>2. CASE \E u \in Transfer(p, r) : u.status = "FAULT" /\ t \in Faulted(u.port, r)
  <2>1. PICK u \in Transfer(p, r) : u.status = "FAULT" /\ t \in Faulted(u.port, r)
    BY <1>2
  <2>2. But(p, u.port, {"sticky"}) /\ (Refuses(p, r) \/ r.ap) /\ u.port \in Port
    BY <2>1, TransferCases, AccessFacts DEF Unmoved, Obeyed, Garbled, Lost, Outcome
  <2>3. Unmoved(u.port, t) /\ t.status = "FAULT"
    BY <2>1, <2>2, FaultedCases
  <2>4. But(p, t.port, Upset) /\ Off(p, t.port)
    BY <2>2, <2>3 DEF But, Field, Upset, Unmoved, Off
  <2> QED
    BY <2>2, <2>3, <2>4 DEF Unmoved
<1>3. CASE t \in Transfer(p, r) /\ t.status # "FAULT"
  <2>1. Unmoved(p, t) \/ Obeyed(p, r, t) \/ Garbled(p, r, t) \/ Lost(p, r, t)
    BY <1>3, TransferCases
  <2>2. Obeyed(p, r, t) => t.status = "OK"
    BY <1>3, AccessFacts DEF Obeyed
  <2> QED
    BY <1>3, <2>1, <2>2
<1> QED
  BY <1>1, <1>2, <1>3 DEF TransferRetry

\* What a caller may rely on: where an access leaves the port, and what it says when
\* it is acknowledged.
Drifts(p, o) == o \in Port /\ But(p, o, Moved \cup {"selected"}) /\ Off(p, o)

\* Drifts composes, and knows nothing of the cached bank.
LEMMA DriftChain ==
    ASSUME NEW p, NEW o, NEW u, Drifts(p, o), Drifts(o, u)
    PROVE  Drifts(p, u)
BY DEF Drifts, But, Off

LEMMA DriftSelected ==
    ASSUME NEW p, NEW o, NEW b \in Bank \cup {"UNKNOWN"}, Drifts(p, o),
           NEW u, u = [o EXCEPT !.selected = b]
    PROVE  Drifts(p, u) /\ u.selected = b /\ But(o, u, {"selected"})
<1>1. u \in Port /\ u.selected = b /\ But(o, u, {"selected"})
  BY SetSelected DEF Drifts
<1> QED
  BY <1>1 DEF Drifts, But, Off, Field

\* What transfer_retry may change, and what an OK of it is worth.
LEMMA RetryFacts ==
    ASSUME NEW p \in Port, NEW r \in Request, NEW t \in TransferRetry(p, r)
    PROVE  /\ t \in Outcome /\ Drifts(p, t.port) /\ t.port.selected = p.selected
           /\ r.reg # "SELECT" => t.port.bank = p.bank
           /\ r.reg = "SELECT" => t.port.bank = p.bank \/ t.port.bank = r.data
           /\ r.reg # "0C" \/ p.sticky \/ ~Linked(p) => t.port.hit = p.hit
           /\ t.port.hit = p.hit \/ t.port.hit = Fetched(p)
           /\ t.status = "OK" =>
                /\ Linked(p) /\ Linked(t.port) /\ ~Refuses(p, r)
                /\ r.reg = "SELECT" => t.port.bank = r.data \/ t.port.sticky
           /\ p.sticky /\ t.status # "FAULT" /\ r.reg # "ABORT" => t.port.sticky
<1>1. CASE Unmoved(p, t)
  BY <1>1 DEF Unmoved, Outcome, Drifts, But, Off, Field, Moved, Upset
<1>2. CASE Obeyed(p, r, t) /\ t.status = "OK"
  <2>1. /\ t \in Outcome
        /\ But(p, t.port, {"sticky", "bank", "power", "word", "tar", "posted", "hit"})
        /\ (r.reg # "SELECT" => t.port.bank = p.bank)
        /\ (r.reg = "SELECT" => t.port.bank = r.data)
        /\ (r.reg # "0C" => t.port.hit = p.hit)
        /\ t.port.hit \in {p.hit, Fetched(p)}
    BY <1>2, AccessFacts DEF Obeyed
  <2>2. r.reg = "0C" => Refuses(p, r) \/ ~p.sticky
    BY DEF Refuses
  <2>3. p.sticky /\ r.reg # "ABORT" => t.port.sticky
    <3> SUFFICES ASSUME p.sticky, r.reg # "ABORT" PROVE t.port.sticky
      OBVIOUS
    <3>1. ~r.ap /\ (r.reg = "IDCODE" \/ (r.reg = "CTRL" /\ r.read))
      BY <1>2, RequestFields DEF Obeyed, Refuses
    <3>2. \E w : t = Result(p, "OK", w)
      BY <1>2, <3>1, AccessDpCases DEF Obeyed
    <3> QED
      BY <3>2 DEF Result
  <2> QED
    BY <1>2, <2>1, <2>2, <2>3 DEF Obeyed, Outcome, Drifts, But, Off, Field, Moved, Linked
<1>3. CASE Garbled(p, r, t)
  <2> DEFINE n == Noisy(p)
             a == Access(n, r)
  <2>1. n \in Port /\ But(p, n, {"noise"})
    BY <1>3, NoisyPort DEF Garbled
  <2>2. Fetched(n) = Fetched(p) /\ n.sticky = p.sticky /\ n.hit = p.hit /\ n.bank = p.bank
    BY <2>1 DEF But, Fetched, Field
  <2>9. t.port = a.port
    BY <1>3 DEF Garbled
  <2> HIDE DEF n
  <2>3. /\ But(n, a.port, {"sticky", "bank", "power", "word", "tar", "posted", "hit"})
        /\ (r.reg # "SELECT" => a.port.bank = n.bank)
        /\ (r.reg = "SELECT" => a.port.bank = r.data)
        /\ (r.reg # "0C" => a.port.hit = n.hit)
        /\ a.port.hit \in {n.hit, Fetched(n)}
    BY <2>1, AccessFacts
  <2>4. r.reg = "0C" => Refuses(p, r) \/ ~p.sticky
    BY DEF Refuses
  <2>5. p.sticky /\ r.reg # "ABORT" => t.port.sticky
    <3> SUFFICES ASSUME p.sticky, r.reg # "ABORT" PROVE t.port.sticky
      OBVIOUS
    <3>1. ~r.ap /\ (r.reg = "IDCODE" \/ (r.reg = "CTRL" /\ r.read))
      BY <1>3, RequestFields DEF Garbled, Refuses
    <3>2. \E w : a = Result(n, "OK", w)
      BY <2>1, <3>1, AccessDpCases
    <3> HIDE DEF a
    <3>3. a.port = n
      BY <3>2 DEF Result
    <3>4. t.port.sticky = p.sticky
      BY <2>2, <2>9, <3>3
    <3> QED
      BY <3>4
  <2>6. But(p, t.port, Moved)
    BY <2>1, <2>3, <2>9 DEF But, Field, Moved
  <2> HIDE DEF a
  <2> QED
    BY <1>3, <2>2, <2>3, <2>4, <2>5, <2>6, <2>9
    DEF Garbled, Outcome, Drifts, But, Off, Field, Moved, Linked
<1>4. CASE Lost(p, r, t)
  BY <1>4 DEF Lost, Outcome, Drifts, But, Off, Field, Moved, Linked
<1> QED
  BY <1>1, <1>2, <1>3, <1>4, RetryCases

-----------------------------------------------------------------------------
(***************************************************************************)
(* arm_adi: what its functions return.                                     *)
(***************************************************************************)

\* s_selected is the bank of the target, or unknown, or the target refuses the next
\* access.
BankOk(p) == p.selected # "UNKNOWN" => p.bank = p.selected \/ p.sticky
\* The memory access port is selected and known to be.
Aimed(p) == p.selected = "MEM" /\ p.bank = "MEM"

\* select_ap_bank: after an OK the cache names the bank asked for, truly if it was true.
LEMMA SelectCases ==
    ASSUME NEW p \in Port, NEW b \in Bank, NEW s \in SelectApBank(p, b)
    PROVE  /\ s \in Outcome /\ Drifts(p, s.port) /\ s.port.hit = p.hit
           /\ s.status = "OK" => s.port.selected = b /\ (BankOk(p) => BankOk(s.port))
           /\ p.selected = b => s.port = p /\ s.status = "OK"
<1>1. CASE p.selected = b
  <2>1. s = Done(p)
    BY <1>1 DEF SelectApBank
  <2>2. s \in Outcome /\ s.port = p /\ s.status = "OK"
    BY <2>1, Plain
  <2> QED
    BY <1>1, <2>2 DEF Drifts, But, Off
<1>2. CASE p.selected # b
  <2> DEFINE r == Dp("SELECT", FALSE, b)
  <2>1. r \in Request /\ r.reg = "SELECT" /\ r.data = b
    BY RequestTypes DEF Dp
  <2>2. PICK t \in TransferRetry(p, r) :
          s \in IF t.status = "OK" THEN {Done([t.port EXCEPT !.selected = b])} ELSE {t}
    BY <1>2 DEF SelectApBank, Then, WriteDp
  <2> HIDE DEF r
  <2>3. /\ t \in Outcome /\ Drifts(p, t.port) /\ t.port.hit = p.hit
        /\ t.status = "OK" => t.port.bank = b \/ t.port.sticky
    BY <2>1, <2>2, RetryFacts
  <2>4. CASE t.status # "OK"
    BY <1>2, <2>2, <2>3, <2>4
  <2>5. CASE t.status = "OK"
    <3> DEFINE o == [t.port EXCEPT !.selected = b]
    <3>1. Drifts(p, o) /\ o.selected = b /\ But(t.port, o, {"selected"})
      BY <2>3, DriftSelected
    <3>2. s = Done(o)
      BY <2>2, <2>5
    <3> HIDE DEF o
    <3>3. s \in Outcome /\ s.port = o /\ s.status = "OK"
      BY <3>1, <3>2, Plain DEF Drifts
    <3>4. o.hit = p.hit /\ (o.bank = b \/ o.sticky)
      BY <2>3, <2>5, <3>1 DEF But, Field
    <3> QED
      BY <1>2, <3>1, <3>3, <3>4 DEF BankOk
  <2> QED
    BY <2>4, <2>5
<1> QED
  BY <1>1, <1>2

\* write_ap: after an OK, cache and target have the bank; with the bank cached it is one transfer.
LEMMA WriteApCases ==
    ASSUME NEW p \in Port, NEW b \in Bank, NEW reg, NEW data,
           ApWrite(reg, data) \in Request, NEW t \in WriteAp(p, b, reg, data)
    PROVE  /\ t \in Outcome /\ Drifts(p, t.port)
           /\ (BankOk(p) /\ t.status = "OK" =>
                t.port.selected = b /\ t.port.bank = b /\ Linked(t.port))
           /\ (p.selected = b => t \in TransferRetry(p, ApWrite(reg, data)))
<1> DEFINE r == ApWrite(reg, data)
<1>1. r \in Request /\ r.ap /\ r.reg # "SELECT" /\ ~(r.reg \in {"IDCODE", "ABORT", "CTRL"})
  <2>1. r \in Request /\ r.ap
    BY DEF Ap, ApWrite
  <2> HIDE DEF r
  <2> QED
    BY <2>1, RequestFields
<1>2. PICK s \in SelectApBank(p, b) :
        t \in IF s.status = "OK" THEN TransferRetry(s.port, r) ELSE {s}
  BY DEF WriteAp, ApWrite, Then
<1> HIDE DEF r
<1>3. /\ s \in Outcome /\ Drifts(p, s.port)
      /\ s.status = "OK" => s.port.selected = b /\ (BankOk(p) => BankOk(s.port))
      /\ p.selected = b => s.port = p /\ s.status = "OK"
  BY SelectCases
<1>4. CASE s.status # "OK"
  BY <1>2, <1>3, <1>4
<1>5. CASE s.status = "OK"
  <2>1. t \in TransferRetry(s.port, r) /\ s.port \in Port
    BY <1>2, <1>3, <1>5 DEF Drifts
  <2>2. /\ t \in Outcome /\ Drifts(s.port, t.port)
        /\ t.port.selected = s.port.selected /\ t.port.bank = s.port.bank
        /\ t.status = "OK" => Linked(t.port) /\ ~Refuses(s.port, r)
    BY <1>1, <2>1, RetryFacts
  <2>3. t.status = "OK" => ~s.port.sticky
    BY <1>1, <2>2 DEF Refuses
  <2>4. Drifts(p, t.port)
    BY <1>3, <2>2, DriftChain
  <2>5. BankOk(p) /\ t.status = "OK" => t.port.selected = b /\ t.port.bank = b /\ Linked(t.port)
    BY <1>3, <1>5, <2>2, <2>3 DEF BankOk, Bank
  <2>6. p.selected = b => t \in TransferRetry(p, r)
    BY <1>3, <2>1
  <2> QED
    BY <2>2, <2>4, <2>5, <2>6 DEF r
<1> QED
  BY <1>4, <1>5

\* A read of the debug port.
LEMMA ReadDpFacts ==
    ASSUME NEW p \in Port, NEW reg \in {"CTRL", "IDCODE", "RDBUFF"}, NEW t \in ReadDp(p, reg)
    PROVE  /\ t \in Outcome /\ Drifts(p, t.port)
           /\ t.port.selected = p.selected /\ t.port.bank = p.bank /\ t.port.hit = p.hit
           /\ t.status = "OK" => Linked(p) /\ Linked(t.port)
           /\ p.sticky /\ (reg # "RDBUFF" \/ t.status = "OK") => t.port.sticky
           /\ t.status = "OK" /\ reg = "RDBUFF" => ~p.sticky
<1> DEFINE r == Dp(reg, TRUE, "NOTHING")
<1>1. r \in Request /\ r.reg = reg /\ r.read /\ ~r.ap
  BY RequestTypes DEF Dp
<1>2. t \in TransferRetry(p, r)
  BY DEF ReadDp
<1> HIDE DEF r
<1>3. /\ t \in Outcome /\ Drifts(p, t.port) /\ t.port.selected = p.selected
      /\ t.port.bank = p.bank /\ t.port.hit = p.hit
      /\ t.status = "OK" => Linked(p) /\ Linked(t.port) /\ ~Refuses(p, r)
      /\ p.sticky /\ t.status # "FAULT" => t.port.sticky
  BY <1>1, <1>2, RetryFacts
<1>4. t.status = "FAULT" => Refuses(p, r)
  BY <1>1, <1>2, RetryCases
<1>5. reg # "RDBUFF" => ~Refuses(p, r)
  BY <1>1 DEF Refuses
<1>6. reg = "RDBUFF" /\ t.status = "OK" => ~p.sticky
  BY <1>1, <1>3 DEF Refuses
<1> QED
  BY <1>3, <1>4, <1>5, <1>6

\* read_ap: the posted read and the RDBUFF that fetches its value.
LEMMA ReadApCases ==
    ASSUME NEW p \in Port, NEW b \in Bank, NEW reg \in {"00", "04", "0C"},
           NEW t \in ReadAp(p, b, reg)
    PROVE  /\ t \in Outcome /\ Drifts(p, t.port)
           /\ BankOk(p) /\ t.status = "OK" => BankOk(t.port)
           /\ p.selected = b =>
                \E x \in TransferRetry(p, ApRead(reg)) :
                   IF x.status = "OK" THEN t \in ReadDp(x.port, "RDBUFF") ELSE t = x
<1> DEFINE r == ApRead(reg)
<1>1. r \in Request /\ r.ap /\ r.reg = reg
  BY RequestTypes DEF Ap, ApRead
<1>2. PICK s \in SelectApBank(p, b) :
        t \in IF s.status = "OK"
              THEN Then(TransferRetry(s.port, r), LAMBDA u : ReadDp(u.port, "RDBUFF")) ELSE {s}
  BY DEF ReadAp, ApRead, Then
<1>3. /\ s \in Outcome /\ Drifts(p, s.port)
      /\ s.status = "OK" => s.port.selected = b /\ (BankOk(p) => BankOk(s.port))
      /\ p.selected = b => s.port = p /\ s.status = "OK"
  BY SelectCases
<1>4. CASE s.status # "OK"
  BY <1>2, <1>3, <1>4
<1>5. CASE s.status = "OK"
  <2>1. PICK x \in TransferRetry(s.port, r) :
          t \in IF x.status = "OK" THEN ReadDp(x.port, "RDBUFF") ELSE {x}
    BY <1>2, <1>5 DEF Then
  <2> HIDE DEF r
  <2>2. s.port \in Port
    BY <1>3 DEF Drifts
  <2>3. /\ x \in Outcome /\ Drifts(s.port, x.port)
        /\ x.port.selected = s.port.selected /\ x.port.bank = s.port.bank
        /\ x.status = "OK" => ~Refuses(s.port, r)
    BY <1>1, <2>1, <2>2, RetryFacts
  <2>4. p.selected = b => x \in TransferRetry(p, r)
    BY <1>3, <2>1
  <2>5. CASE x.status # "OK"
    <3>1. t = x
      BY <2>1, <2>5
    <3>2. Drifts(p, t.port)
      BY <1>3, <2>3, <3>1, DriftChain
    <3> QED
      BY <2>3, <2>4, <2>5, <3>1, <3>2 DEF r
  <2>6. CASE x.status = "OK"
    <3>1. t \in ReadDp(x.port, "RDBUFF")
      BY <2>1, <2>6
    <3>2. x.port \in Port /\ ~s.port.sticky
      BY <1>1, <2>3, <2>6 DEF Drifts, Refuses
    <3>3. /\ t \in Outcome /\ Drifts(x.port, t.port)
          /\ t.port.selected = x.port.selected /\ t.port.bank = x.port.bank
      BY <3>1, <3>2, ReadDpFacts
    <3>4. Drifts(p, x.port)
      BY <1>3, <2>3, DriftChain
    <3>5. Drifts(p, t.port)
      BY <3>3, <3>4, DriftChain
    <3>6. BankOk(p) => BankOk(t.port)
      BY <1>3, <1>5, <2>3, <3>2, <3>3 DEF BankOk
    <3> QED
      BY <2>4, <2>6, <3>1, <3>3, <3>5, <3>6 DEF r
  <2> QED
    BY <2>5, <2>6
<1> QED
  BY <1>4, <1>5

\* Reading CTRL/STAT leaves the selection as it is, however it ends.
LEMMA PowerAckCases ==
    ASSUME NEW p \in Port, NEW k \in PowerAck(p)
    PROVE  k \in Outcome /\ Drifts(p, k.port) /\ (BankOk(p) => BankOk(k.port))
<1> DEFINE Kept(o) == Drifts(p, o) /\ (BankOk(p) => BankOk(o))
<1>1. ASSUME NEW o, o \in Port, Kept(o), NEW r \in ReadDp(o, "CTRL")
      PROVE  r.port \in Port /\ Kept(r.port)
  <2>1. /\ Drifts(o, r.port) /\ r.port.selected = o.selected /\ r.port.bank = o.bank
        /\ o.sticky => r.port.sticky
    BY <1>1, ReadDpFacts
  <2>2. Drifts(p, r.port)
    BY <1>1, <2>1, DriftChain
  <2> QED
    BY <1>1, <2>1, <2>2 DEF BankOk, Drifts
<1>2. Kept(p)
  BY DEF Drifts, But, Off
<1>3. \A r \in ReadDp(p, "CTRL") : r.port \in Port /\ Kept(r.port)
  BY <1>1, <1>2
<1>4. \A f \in ReadDp(p, "CTRL") : \A r \in ReadDp(f.port, "CTRL") :
        r.port \in Port /\ Kept(r.port)
  BY <1>1, <1>3
<1>5. PICK r : /\ \/ r \in ReadDp(p, "CTRL")
                  \/ \E f \in ReadDp(p, "CTRL") : r \in ReadDp(f.port, "CTRL")
               /\ k = Done(r.port) \/ k = Failed(r.port, "TIMEOUT")
  BY DEF PowerAck
<1>6. r.port \in Port /\ Kept(r.port)
  BY <1>3, <1>4, <1>5
<1>7. k \in Outcome /\ k.port = r.port
  BY <1>5, <1>6, Plain DEF Outcomes
<1> QED
  BY <1>6, <1>7

\* A result of the identification: what is said when its register is empty.
LEMMA JudgedCases ==
    ASSUME NEW r \in Outcome,
           NEW t, t = IF r.status = "OK" /\ ~ValidIdr(r) THEN Failed(r.port, "TARGET_ID") ELSE r
    PROVE  t \in Outcome /\ t.port = r.port /\ (t.status = "OK" => r.status = "OK")
<1>1. CASE r.status = "OK" /\ ~ValidIdr(r)
  <2>1. t = Failed(r.port, "TARGET_ID") /\ r.port \in Port
    BY <1>1 DEF Outcome
  <2>2. t \in Outcome /\ t.port = r.port /\ t.status = "TARGET_ID"
    BY <2>1, Plain DEF Outcomes
  <2> QED
    BY <2>2
<1>2. CASE ~(r.status = "OK" /\ ~ValidIdr(r))
  BY <1>2
<1> QED
  BY <1>1, <1>2

\* read_idr and the second half of a connect keep the cached bank true when they return OK.
LEMMA ReadIdrCases ==
    ASSUME NEW p \in Port, NEW t \in ReadIdr(p)
    PROVE  t \in Outcome /\ Drifts(p, t.port) /\ (BankOk(p) /\ t.status = "OK" => BankOk(t.port))
<1>1. PICK r \in ReadAp(p, "ID", "0C") :
        t = IF r.status = "OK" /\ ~ValidIdr(r) THEN Failed(r.port, "TARGET_ID") ELSE r
  BY DEF ReadIdr
<1>2. /\ r \in Outcome /\ Drifts(p, r.port)
      /\ BankOk(p) /\ r.status = "OK" => BankOk(r.port)
  BY ReadApCases DEF Bank
<1>3. t \in Outcome /\ t.port = r.port /\ (t.status = "OK" => r.status = "OK")
  BY <1>1, <1>2, JudgedCases
<1> QED
  BY <1>2, <1>3

LEMMA ReadIdrAfterResetCases ==
    ASSUME NEW p \in Port, NEW t \in ReadIdrAfterReset(p)
    PROVE  t \in Outcome /\ Drifts(p, t.port) /\ (BankOk(p) /\ t.status = "OK" => BankOk(t.port))
<1>1. \A r \in ReadAp(p, "ID", "0C") :
        r \in Outcome /\ Drifts(p, r.port) /\ (BankOk(p) /\ r.status = "OK" => BankOk(r.port))
  BY ReadApCases DEF Bank
<1>2. CASE t \in ReadAp(p, "ID", "0C")
  BY <1>1, <1>2
<1>3. CASE \E f \in ReadAp(p, "ID", "0C") : \E c \in Transfer(f.port, Clear) :
             \E r \in ReadAp([c.port EXCEPT !.selected = "UNKNOWN"], "ID", "0C") :
                t = IF r.status = "OK" /\ ~ValidIdr(r) THEN Failed(r.port, "TARGET_ID") ELSE r
  <2>1. PICK f \in ReadAp(p, "ID", "0C") : \E c \in Transfer(f.port, Clear) :
             \E r \in ReadAp([c.port EXCEPT !.selected = "UNKNOWN"], "ID", "0C") :
                t = IF r.status = "OK" /\ ~ValidIdr(r) THEN Failed(r.port, "TARGET_ID") ELSE r
    BY <1>3
  <2>2. PICK c \in Transfer(f.port, Clear) :
             \E r \in ReadAp([c.port EXCEPT !.selected = "UNKNOWN"], "ID", "0C") :
                t = IF r.status = "OK" /\ ~ValidIdr(r) THEN Failed(r.port, "TARGET_ID") ELSE r
    BY <2>1
  <2> DEFINE o == [c.port EXCEPT !.selected = "UNKNOWN"]
  <2>3. PICK r \in ReadAp(o, "ID", "0C") :
                t = IF r.status = "OK" /\ ~ValidIdr(r) THEN Failed(r.port, "TARGET_ID") ELSE r
    BY <2>2
  <2>4. Drifts(p, f.port) /\ f.port \in Port
    BY <1>1 DEF Drifts
  <2>5. Drifts(f.port, c.port)
    BY <2>4, ClearCases DEF Drifts, But, Upset, Moved
  <2>6. Drifts(p, c.port)
    BY <2>4, <2>5, DriftChain
  <2>7. Drifts(p, o) /\ o.selected = "UNKNOWN"
    BY <2>6, DriftSelected
  <2> HIDE DEF o
  <2>8. o \in Port /\ BankOk(o)
    BY <2>7 DEF BankOk, Drifts
  <2>9. /\ r \in Outcome /\ Drifts(o, r.port)
        /\ r.status = "OK" => BankOk(r.port)
    BY <2>8, ReadApCases DEF Bank
  <2>10. t \in Outcome /\ t.port = r.port /\ (t.status = "OK" => r.status = "OK")
    BY <2>3, <2>9, JudgedCases
  <2>11. Drifts(p, t.port)
    BY <2>7, <2>9, <2>10, DriftChain
  <2> QED
    BY <2>9, <2>10, <2>11
<1>4. \/ t \in ReadAp(p, "ID", "0C")
      \/ \E f \in ReadAp(p, "ID", "0C") : \E c \in Transfer(f.port, Clear) :
             \E r \in ReadAp([c.port EXCEPT !.selected = "UNKNOWN"], "ID", "0C") :
                t = IF r.status = "OK" /\ ~ValidIdr(r) THEN Failed(r.port, "TARGET_ID") ELSE r
  BY Zenon DEF ReadIdrAfterReset
<1> QED
  BY <1>2, <1>3, <1>4

\* The debug port is set up: the bank is the one selected, or an error is pending.
LEMMA PowerUpCases ==
    ASSUME NEW p \in Port, p.selected = "UNKNOWN", NEW k \in PowerUp(p)
    PROVE  k \in Outcome /\ Drifts(p, k.port) /\ (k.status = "OK" => BankOk(k.port))
<1> DEFINE select == Dp("SELECT", FALSE, "MEM")
           power == Dp("CTRL", FALSE, "NOTHING")
           abort == Dp("ABORT", FALSE, "NOTHING")
<1>0. /\ abort \in Request /\ select \in Request /\ power \in Request
      /\ select.reg = "SELECT" /\ select.data = "MEM"
      /\ power.reg = "CTRL" /\ ~power.read /\ ~power.ap
  BY RequestTypes DEF Dp, Bank
<1>1. PICK a \in TransferRetry(p, abort) :
        k \in IF a.status = "OK"
              THEN Then(TransferRetry(a.port, select), LAMBDA s :
                   Then(TransferRetry([s.port EXCEPT !.selected = "MEM"], power), LAMBDA c :
                       PowerAck(c.port)))
              ELSE {a}
  BY DEF PowerUp, Then, WriteDp
<1>2. a \in Outcome /\ Drifts(p, a.port)
  BY <1>0, <1>1, RetryFacts
<1>3. CASE a.status # "OK"
  BY <1>1, <1>2, <1>3
<1>4. CASE a.status = "OK"
  <2>1. PICK s \in TransferRetry(a.port, select) :
          k \in IF s.status = "OK"
                THEN Then(TransferRetry([s.port EXCEPT !.selected = "MEM"], power), LAMBDA c :
                         PowerAck(c.port))
                ELSE {s}
    BY <1>1, <1>4 DEF Then
  <2>2. /\ s \in Outcome /\ Drifts(a.port, s.port)
        /\ s.status = "OK" => s.port.bank = "MEM" \/ s.port.sticky
    <3> HIDE DEF select
    <3>1. a.port \in Port
      BY <1>2 DEF Drifts
    <3> QED
      BY <1>0, <2>1, <3>1, RetryFacts
  <2>3. Drifts(p, s.port)
    BY <1>2, <2>2, DriftChain
  <2>4. CASE s.status # "OK"
    BY <2>1, <2>2, <2>3, <2>4
  <2>5. CASE s.status = "OK"
    <3> DEFINE o == [s.port EXCEPT !.selected = "MEM"]
    <3>1. Drifts(p, o) /\ o.selected = "MEM" /\ But(s.port, o, {"selected"})
      BY <2>3, DriftSelected DEF Bank
    <3>2. PICK c \in TransferRetry(o, power) :
            k \in IF c.status = "OK" THEN PowerAck(c.port) ELSE {c}
      BY <2>1, <2>5 DEF Then
    <3> HIDE DEF o, power
    <3>3. o \in Port
      BY <3>1 DEF Drifts
    <3>4. /\ c \in Outcome /\ Drifts(o, c.port)
          /\ c.port.selected = o.selected /\ c.port.bank = o.bank
          /\ c.status = "OK" => ~Refuses(o, power)
      BY <1>0, <3>2, <3>3, RetryFacts
    <3>5. Drifts(p, c.port)
      BY <3>1, <3>4, DriftChain
    <3>6. CASE c.status # "OK"
      BY <3>2, <3>4, <3>5, <3>6
    <3>7. CASE c.status = "OK"
      <4>1. ~o.sticky
        BY <1>0, <3>4, <3>7 DEF Refuses
      <4>2. BankOk(c.port)
        BY <2>2, <2>5, <3>1, <3>4, <4>1 DEF BankOk, But, Field
      <4>3. k \in PowerAck(c.port) /\ c.port \in Port
        BY <3>2, <3>4, <3>7 DEF Drifts
      <4>4. k \in Outcome /\ Drifts(c.port, k.port) /\ BankOk(k.port)
        BY <4>2, <4>3, PowerAckCases
      <4>5. Drifts(p, k.port)
        BY <3>5, <4>4, DriftChain
      <4> QED
        BY <4>4, <4>5
    <3> QED
      BY <3>6, <3>7
  <2> QED
    BY <2>4, <2>5
<1> QED
  BY <1>3, <1>4

\* What setting up a connection leaves alone.
Stays(p, o) ==
    /\ o \in Port /\ o.enabled = p.enabled /\ o.present = p.present
    /\ o.connected = p.connected /\ Off(p, o)

\* Stays is weaker than Drifts, and composes.
LEMMA DriftStays ==
    ASSUME NEW p, NEW o, Drifts(p, o)
    PROVE  Stays(p, o)
BY DEF Drifts, Stays, But, Field, Moved

LEMMA StaysChain ==
    ASSUME NEW p, NEW o, NEW u, Stays(p, o), Stays(o, u)
    PROVE  Stays(p, u)
BY DEF Stays, Off

\* The same of all that a connect does once the target has power.
LEMMA IdentifiedCases ==
    ASSUME NEW p \in Port, NEW underReset \in BOOLEAN, NEW i \in Identified(p, underReset)
    PROVE  i \in Outcome /\ Stays(p, i.port) /\ (BankOk(p) /\ i.status = "OK" => BankOk(i.port))
<1> DEFINE o == [p EXCEPT !.nreset = FALSE]
<1>1. o \in Port /\ But(p, o, {"nreset"})
  BY SetReset
<1>2. i \in ReadIdrAfterReset(o) \/ i \in ReadIdr(o)
  BY DEF Identified
<1> HIDE DEF o
<1>3. i \in Outcome /\ Drifts(o, i.port) /\ (BankOk(o) /\ i.status = "OK" => BankOk(i.port))
  <2>1. CASE i \in ReadIdrAfterReset(o)
    BY <1>1, <2>1, ReadIdrAfterResetCases
  <2>2. CASE i \in ReadIdr(o)
    BY <1>1, <2>2, ReadIdrCases
  <2> QED
    BY <1>2, <2>1, <2>2
<1>4. Stays(p, o) /\ (BankOk(p) => BankOk(o))
  BY <1>1 DEF Stays, But, Field, Off, BankOk
<1>5. Stays(p, i.port)
  BY <1>3, <1>4, DriftStays, StaysChain
<1> QED
  BY <1>3, <1>4, <1>5

\* The set-up of the ports: when it succeeds, the memory access port is selected and
\* the module knows it, whatever was lost on the way.
LEMMA SetUpCases ==
    ASSUME NEW p \in Port, NEW underReset \in BOOLEAN, p.selected = "UNKNOWN",
           NEW t \in SetUp(p, underReset)
    PROVE  /\ t \in Outcome /\ t.port.enabled = p.enabled /\ t.port.present = p.present
           /\ Off(p, t.port)
           /\ t.status # "OK" => t.port.connected = p.connected
           /\ t.status = "OK" => t.port.connected /\ Aimed(t.port)
<1>1. PICK k \in PowerUp(p) :
        t \in IF k.status = "OK"
              THEN Then(Identified(k.port, underReset), LAMBDA i :
                   Then(WriteAp(i.port, "MEM", "00", "NOTHING"), LAMBDA w :
                       {Done([w.port EXCEPT !.connected = TRUE])}))
              ELSE {k}
  BY DEF SetUp, Then
<1>2. k \in Outcome /\ Stays(p, k.port) /\ (k.status = "OK" => BankOk(k.port))
  BY PowerUpCases, DriftStays
<1>3. CASE k.status # "OK"
  BY <1>1, <1>2, <1>3 DEF Stays
<1>4. CASE k.status = "OK"
  <2>1. PICK i \in Identified(k.port, underReset) :
          t \in IF i.status = "OK"
                THEN Then(WriteAp(i.port, "MEM", "00", "NOTHING"), LAMBDA w :
                         {Done([w.port EXCEPT !.connected = TRUE])})
                ELSE {i}
    BY <1>1, <1>4 DEF Then
  <2>2. i \in Outcome /\ Stays(k.port, i.port) /\ (i.status = "OK" => BankOk(i.port))
    BY <1>2, <1>4, <2>1, IdentifiedCases DEF Stays
  <2>3. Stays(p, i.port)
    BY <1>2, <2>2, StaysChain
  <2>4. CASE i.status # "OK"
    BY <2>1, <2>2, <2>3, <2>4 DEF Stays
  <2>5. CASE i.status = "OK"
    <3>1. PICK w \in WriteAp(i.port, "MEM", "00", "NOTHING") :
            t \in IF w.status = "OK" THEN {Done([w.port EXCEPT !.connected = TRUE])} ELSE {w}
      BY <2>1, <2>5 DEF Then
    <3>2. i.port \in Port /\ ApWrite("00", "NOTHING") \in Request /\ "MEM" \in Bank
      BY <2>2, RequestTypes DEF Stays, Bank
    <3>3. w \in Outcome /\ Drifts(i.port, w.port) /\ (w.status = "OK" => Aimed(w.port))
      BY <2>2, <2>5, <3>1, <3>2, WriteApCases DEF Aimed
    <3>4. Stays(p, w.port)
      BY <2>3, <3>3, DriftStays, StaysChain
    <3>5. CASE w.status # "OK"
      BY <3>1, <3>3, <3>4, <3>5 DEF Stays
    <3>6. CASE w.status = "OK"
      <4> DEFINE o == [w.port EXCEPT !.connected = TRUE]
      <4>1. o \in Port /\ o.connected /\ But(w.port, o, {"connected"})
        BY <3>4, SetConnected DEF Stays
      <4>2. t = Done(o)
        BY <3>1, <3>6
      <4> HIDE DEF o
      <4>3. t \in Outcome /\ t.port = o /\ t.status = "OK"
        BY <4>1, <4>2, Plain
      <4> QED
        BY <3>3, <3>4, <3>6, <4>1, <4>3 DEF Stays, But, Field, Off, Aimed
    <3> QED
      BY <3>5, <3>6
  <2> QED
    BY <2>4, <2>5
<1> QED
  BY <1>3, <1>4

\* arm_adi_disconnect lets the pins go and leaves the rest.
LEMMA SafePort ==
    ASSUME NEW p \in Port, NEW o, o = SafeState(p)
    PROVE  o \in Port /\ ~o.enabled /\ ~o.nreset /\ But(p, o, {"enabled", "nreset"})
BY DEF SafeState, Port, But, Field

\* One attempt to connect: a session exists only when it has worked, and then the
\* memory access port is selected and known to be.
LEMMA ConnectCases ==
    ASSUME NEW p \in Port, NEW underReset \in BOOLEAN, NEW r \in ConnectAtSpeed(p, underReset)
    PROVE  /\ r \in Outcome /\ r.port.present = p.present
           /\ (~p.present => r.port.line = p.line)
           /\ (r.port.connected => Aimed(r.port))
           /\ (r.status = "OK" => r.port.connected /\ p.present)
<1> DEFINE fresh == Fresh(p)
           old == [fresh EXCEPT !.connected = FALSE]
<1>1. fresh \in Port /\ But(p, fresh, {"hit", "posted"})
  BY FreshPort
<1> HIDE DEF fresh
<1>2. old \in Port /\ ~old.connected /\ But(fresh, old, {"connected"})
  BY <1>1, SetConnected
<1>3. old.present = p.present /\ old.line = p.line
  BY <1>1, <1>2 DEF But, Field
<1>4. CASE ~p.present
  <2>1. r = Failed(old, "TARGET_POWER")
    BY <1>4 DEF ConnectAtSpeed, fresh
  <2> HIDE DEF old
  <2>2. r \in Outcome /\ r.port = old /\ r.status = "TARGET_POWER"
    BY <1>2, <2>1, Plain DEF Outcomes
  <2> QED
    BY <1>2, <1>3, <2>2
<1>5. CASE p.present
  <2> DEFINE driven == [Enable(old, underReset) EXCEPT !.selected = "UNKNOWN"]
  <2>1. PICK d \in ReadDp(driven, "IDCODE") :
          \/ d.status = "OK" /\ r \in SetUp(d.port, underReset)
          \/ \E s \in {d.status, "TARGET_ID"} : s # "OK" /\ r = Failed(SafeState(d.port), s)
    BY <1>5 DEF ConnectAtSpeed, fresh
  <2> HIDE DEF old
  <2>2. driven \in Port /\ driven.selected = "UNKNOWN" /\ But(old, driven, {"enabled", "nreset", "line", "selected"})
    BY ZenonT(60), <1>2 DEF Enable, Port, But, Field
  <2> HIDE DEF driven
  <2>3. /\ d \in Outcome /\ Drifts(driven, d.port) /\ d.port.selected = "UNKNOWN"
    BY <2>1, <2>2, ReadDpFacts
  <2>4. d.port \in Port /\ ~d.port.connected /\ d.port.present = p.present /\ d.status \in Outcomes
    BY <1>2, <1>3, <2>2, <2>3 DEF Drifts, But, Field, Moved, Outcome
  <2>5. ASSUME NEW s \in {d.status, "TARGET_ID"}, s # "OK", r = Failed(SafeState(d.port), s)
        PROVE  /\ r \in Outcome /\ r.port.present = p.present
               /\ ~r.port.connected /\ r.status # "OK"
    <3> DEFINE safe == SafeState(d.port)
    <3>1. safe \in Port /\ But(d.port, safe, {"enabled", "nreset"})
      BY <2>4, SafePort
    <3>2. r = Failed(safe, s) /\ s \in Outcomes
      BY <2>4, <2>5 DEF Outcomes
    <3> HIDE DEF safe
    <3>3. r \in Outcome /\ r.port = safe /\ r.status = s
      BY <3>1, <3>2, Plain
    <3> QED
      BY <1>5, <2>4, <2>5, <3>1, <3>3 DEF But, Field
  <2>6. CASE d.status = "OK" /\ r \in SetUp(d.port, underReset)
    <3>1. r \in SetUp(d.port, underReset)
      BY <2>6
    <3>2. /\ r \in Outcome /\ r.port.present = d.port.present
          /\ (r.status # "OK" => r.port.connected = d.port.connected)
          /\ (r.status = "OK" => r.port.connected /\ Aimed(r.port))
      BY <2>3, <2>4, <3>1, SetUpCases
    <3> QED
      BY <1>5, <2>4, <3>2
  <2> QED
    BY <1>5, <2>1, <2>5, <2>6
<1>6. p.present \in BOOLEAN
  BY DEF Port
<1> QED
  BY <1>4, <1>5, <1>6

\* What the registers of the memory access port do when an access is acknowledged.
LEMMA Registers4 ==
    /\ ApRegister("MEM", "00") = "CSW" /\ ApRegister("MEM", "04") = "TAR"
    /\ ApRegister("MEM", "0C") = "DRW"
BY DEF ApRegister

\* The access port answers only when the debug port has powered it.
LEMMA AccessNeedsPower ==
    ASSUME NEW p \in Port, NEW r \in Request, r.ap, Access(p, r).status = "OK"
    PROVE  p.power
<1> SUFFICES ASSUME ~p.power PROVE FALSE
  BY DEF Port
<1> DEFINE o == [p EXCEPT !.sticky = TRUE]
<1>1. Access(p, r) = Failed(o, "FAULT")
  BY AccessApCases
<1> HIDE DEF o
<1> QED
  BY <1>1 DEF Failed, Result

\* CSW, TAR and DRW in turn: each transfer of a word access, when it returns OK.
LEMMA SizeWritten ==
    ASSUME NEW p \in Port, p.bank = "MEM", NEW t \in TransferRetry(p, ApWrite("00", "NOTHING")),
           t.status = "OK"
    PROVE  ~p.sticky /\ (t.port.word \/ t.port.sticky)
<1> DEFINE r == ApWrite("00", "NOTHING")
<1>1. r \in Request /\ r.ap /\ ~r.read /\ r.reg = "00"
  BY RequestTypes DEF Ap, ApWrite
<1> HIDE DEF r
<1>2. Obeyed(p, r, t) \/ Lost(p, r, t)
  BY <1>1, RetryCases DEF r, Unmoved, Garbled
<1>5. ~p.sticky
  BY <1>1, <1>2 DEF Obeyed, Lost, Refuses
<1>3. CASE Obeyed(p, r, t)
  <2> DEFINE o == [p EXCEPT !.word = TRUE]
  <2>1. p.power
    BY <1>1, <1>3, AccessNeedsPower DEF Obeyed
  <2>2. t = Done(o)
    BY <1>1, <1>3, <2>1, AccessApCases, Registers4 DEF Obeyed
  <2>3. o \in Port /\ o.word
    BY SetWord
  <2> HIDE DEF o
  <2> QED
    BY <1>5, <2>2, <2>3, Plain
<1>4. CASE Lost(p, r, t)
  BY <1>4, <1>5 DEF Lost
<1> QED
  BY <1>2, <1>3, <1>4

LEMMA AddressWritten ==
    ASSUME NEW p \in Port, p.bank = "MEM", NEW a \in Address,
           NEW t \in TransferRetry(p, ApWrite("04", a)), t.status = "OK"
    PROVE  ~p.sticky /\ ((t.port.tar = a /\ t.port.word = p.word) \/ t.port.sticky)
<1> DEFINE r == ApWrite("04", a)
<1>1. r \in Request /\ r.ap /\ ~r.read /\ r.reg = "04" /\ r.data = a
  BY RequestTypes DEF Ap, ApWrite
<1> HIDE DEF r
<1>2. Obeyed(p, r, t) \/ Lost(p, r, t)
  BY <1>1, RetryCases DEF r, Unmoved, Garbled
<1>3. ~p.sticky
  BY <1>1, <1>2 DEF Obeyed, Lost, Refuses
<1>4. CASE Obeyed(p, r, t)
  <2> DEFINE o == [p EXCEPT !.tar = a]
  <2>1. p.power
    BY <1>1, <1>4, AccessNeedsPower DEF Obeyed
  <2>2. t = Done(o)
    BY <1>1, <1>4, <2>1, AccessApCases, Registers4 DEF Obeyed
  <2>3. o \in Port /\ o.tar = a /\ But(p, o, {"tar"})
    BY SetTar DEF Slot
  <2> HIDE DEF o
  <2>4. t.port = o
    BY <2>2, <2>3, Plain
  <2> QED
    BY <1>3, <2>3, <2>4 DEF But, Field
<1>5. CASE Lost(p, r, t)
  BY <1>3, <1>5 DEF Lost
<1> QED
  BY <1>2, <1>4, <1>5

LEMMA DataRead ==
    ASSUME NEW p \in Port, p.bank = "MEM", NEW t \in TransferRetry(p, ApRead("0C")),
           t.status = "OK"
    PROVE  /\ ~p.sticky
           /\ t.port.sticky \/ (t.port.hit = Fetched(p) /\ t.port.posted = Fetched(p))
<1> DEFINE r == ApRead("0C")
<1>1. r \in Request /\ r.ap /\ r.read /\ r.reg = "0C"
  BY RequestTypes DEF Ap, ApRead
<1> HIDE DEF r
<1>2. Obeyed(p, r, t)
  BY <1>1, RetryCases DEF r, Unmoved, Garbled, Lost
<1>3. ~p.sticky
  BY <1>1, <1>2 DEF Obeyed, Refuses
<1>4. p.power
  BY <1>1, <1>2, AccessNeedsPower DEF Obeyed
<1>5. CASE ~Answers(p)
  <2> DEFINE o == [p EXCEPT !.sticky = TRUE]
  <2>1. t = Done(o)
    BY <1>1, <1>2, <1>4, <1>5, AccessApCases, Registers4 DEF Obeyed
  <2>2. o \in Port /\ o.sticky
    BY SetSticky
  <2> HIDE DEF o
  <2> QED
    BY <1>3, <2>1, <2>2, Plain
<1>6. CASE Answers(p)
  <2> DEFINE o == [p EXCEPT !.hit = Fetched(p), !.posted = Fetched(p), !.tar = NoAddress]
  <2>1. t = Done(o)
    BY <1>1, <1>2, <1>4, <1>6, AccessApCases, Registers4 DEF Obeyed
  <2>2. Fetched(p) \in Slot
    BY DEF Fetched, Slot, Port
  <2>3. o \in Port /\ o.hit = Fetched(p) /\ o.posted = Fetched(p)
    <3>1. o \in Port /\ o.hit = Fetched(p) /\ o.posted = Fetched(p)
          /\ But(p, o, {"hit", "posted", "tar"})
      BY <2>2, Fetch
    <3> HIDE DEF o
    <3> QED
      BY <3>1
  <2> HIDE DEF o
  <2> QED
    BY <1>3, <2>1, <2>3, Plain
<1> QED
  BY <1>5, <1>6

LEMMA DataWritten ==
    ASSUME NEW p \in Port, p.bank = "MEM", NEW t \in TransferRetry(p, ApWrite("0C", "NOTHING")),
           t.status = "OK"
    PROVE  ~p.sticky /\ (t.port.sticky \/ t.port.hit = Fetched(p))
<1> DEFINE r == ApWrite("0C", "NOTHING")
<1>1. r \in Request /\ r.ap /\ ~r.read /\ r.reg = "0C"
  BY RequestTypes DEF Ap, ApWrite
<1> HIDE DEF r
<1>2. Obeyed(p, r, t) \/ Lost(p, r, t)
  BY <1>1, RetryCases DEF r, Unmoved, Garbled
<1>3. ~p.sticky
  BY <1>1, <1>2 DEF Obeyed, Lost, Refuses
<1>4. CASE Lost(p, r, t)
  BY <1>3, <1>4 DEF Lost
<1>5. CASE Obeyed(p, r, t) /\ ~Answers(p)
  <2> DEFINE o == [p EXCEPT !.sticky = TRUE]
  <2>0. p.power
    BY <1>1, <1>5, AccessNeedsPower DEF Obeyed
  <2>1. t = Done(o)
    BY <1>1, <1>5, <2>0, AccessApCases, Registers4 DEF Obeyed
  <2>2. o \in Port /\ o.sticky
    BY SetSticky
  <2> HIDE DEF o
  <2> QED
    BY <1>3, <2>1, <2>2, Plain
<1>6. CASE Obeyed(p, r, t) /\ Answers(p)
  <2> DEFINE o == [p EXCEPT !.hit = Fetched(p), !.posted = Fetched(p), !.tar = NoAddress]
  <2>0. p.power
    BY <1>1, <1>6, AccessNeedsPower DEF Obeyed
  <2>1. t = Done(o)
    BY <1>1, <1>6, <2>0, AccessApCases, Registers4 DEF Obeyed
  <2>2. Fetched(p) \in Slot
    BY DEF Fetched, Slot, Port
  <2>3. o \in Port /\ o.hit = Fetched(p) /\ o.posted = Fetched(p)
    <3>1. o \in Port /\ o.hit = Fetched(p) /\ o.posted = Fetched(p)
          /\ But(p, o, {"hit", "posted", "tar"})
      BY <2>2, Fetch
    <3> HIDE DEF o
    <3> QED
      BY <3>1
  <2> HIDE DEF o
  <2> QED
    BY <1>3, <2>1, <2>3, Plain
<1> QED
  BY <1>2, <1>4, <1>5, <1>6

\* RDBUFF returns what was posted, and only when no write has gone wrong.
LEMMA BufferRead ==
    ASSUME NEW p \in Port, NEW t \in ReadDp(p, "RDBUFF"), t.status = "OK"
    PROVE  t.value = p.posted /\ ~p.sticky
<1> DEFINE r == Dp("RDBUFF", TRUE, "NOTHING")
<1>1. r \in Request /\ ~r.ap /\ r.read /\ r.reg = "RDBUFF"
  BY RequestTypes DEF Dp
<1>2. t \in TransferRetry(p, r)
  BY DEF ReadDp
<1> HIDE DEF r
<1>3. Obeyed(p, r, t)
  BY <1>1, <1>2, RetryCases DEF Unmoved, Garbled, Lost
<1>4. t = Result(p, "OK", p.posted)
  BY <1>1, <1>3, AccessDpCases DEF Obeyed
<1>5. ~p.sticky
  BY <1>1, <1>3 DEF Obeyed, Refuses
<1> QED
  BY <1>4, <1>5 DEF Result

\* The two writes before the data: word size and address. When both are acknowledged,
\* the data phase reaches the word meant, or the target refuses it.
LEMMA AddressedCases ==
    ASSUME NEW p \in Port, Aimed(p), NEW a \in Address, NEW t \in Addressed(p, a)
    PROVE  /\ t \in Outcome /\ Drifts(p, t.port) /\ Aimed(t.port) /\ t.port.hit = NoAddress
           /\ (t.status = "OK" =>
                 /\ Linked(p) /\ Linked(t.port) /\ ~p.sticky
                 /\ (t.port.sticky \/ Fetched(t.port) = a))
<1> DEFINE f == Fresh(p)
<1>1. f \in Port /\ f.hit = NoAddress /\ But(p, f, {"hit", "posted"})
  BY FreshPort
<1>2. PICK c \in WriteAp(f, "MEM", "00", "NOTHING") :
        t \in IF c.status = "OK" THEN WriteAp(c.port, "MEM", "04", a) ELSE {c}
  BY DEF Addressed, Then
<1> HIDE DEF f
<1>3. Aimed(f) /\ Drifts(p, f) /\ (Linked(f) => Linked(p)) /\ f.sticky = p.sticky
  BY <1>1 DEF Aimed, Drifts, But, Field, Moved, Off, Linked
<1>4. c \in TransferRetry(f, ApWrite("00", "NOTHING")) /\ ApWrite("00", "NOTHING") \in Request
      /\ ApWrite("00", "NOTHING").reg = "00"
  <2>1. ApWrite("00", "NOTHING") \in Request /\ "MEM" \in Bank /\ ApWrite("00", "NOTHING").reg = "00"
    BY RequestTypes DEF Bank, ApWrite, Ap
  <2>2. f.selected = "MEM"
    BY <1>3 DEF Aimed
  <2> QED
    BY <1>1, <1>2, <2>1, <2>2, WriteApCases
<1>5. /\ c \in Outcome /\ Drifts(f, c.port) /\ c.port.selected = f.selected
      /\ c.port.bank = f.bank /\ c.port.hit = f.hit
      /\ (c.status = "OK" => Linked(f) /\ Linked(c.port))
  BY <1>1, <1>4, RetryFacts
<1>6. Aimed(c.port) /\ Drifts(p, c.port) /\ c.port.hit = NoAddress /\ c.port \in Port
  <2>1. Drifts(p, c.port)
    BY <1>3, <1>5, DriftChain
  <2> QED
    BY <1>1, <1>3, <1>5, <2>1 DEF Aimed, Drifts
<1>7. CASE c.status # "OK"
  BY <1>2, <1>5, <1>6, <1>7
<1>8. CASE c.status = "OK"
  <2>1. t \in WriteAp(c.port, "MEM", "04", a)
    BY <1>2, <1>8
  <2>2. t \in TransferRetry(c.port, ApWrite("04", a)) /\ ApWrite("04", a) \in Request
        /\ ApWrite("04", a).reg = "04"
    <3>1. ApWrite("04", a) \in Request /\ "MEM" \in Bank /\ ApWrite("04", a).reg = "04"
      BY RequestTypes DEF Bank, ApWrite, Ap
    <3>2. c.port.selected = "MEM"
      BY <1>6 DEF Aimed
    <3> QED
      BY <1>6, <2>1, <3>1, <3>2, WriteApCases
  <2>3. /\ t \in Outcome /\ Drifts(c.port, t.port) /\ t.port.selected = c.port.selected
        /\ t.port.bank = c.port.bank /\ t.port.hit = c.port.hit
        /\ (t.status = "OK" => Linked(c.port) /\ Linked(t.port))
    BY <1>6, <2>2, RetryFacts
  <2>4. Aimed(t.port) /\ Drifts(p, t.port)
    BY <1>6, <2>3, DriftChain DEF Aimed
  <2>5. ASSUME t.status = "OK" PROVE ~f.sticky /\ (t.port.sticky \/ Fetched(t.port) = a)
    <3>1. ~f.sticky /\ (c.port.word \/ c.port.sticky)
      BY <1>1, <1>3, <1>4, <1>8, SizeWritten DEF Aimed
    <3>2. ~c.port.sticky /\ ((t.port.tar = a /\ t.port.word = c.port.word) \/ t.port.sticky)
      BY <1>6, <2>2, <2>5, AddressWritten DEF Aimed
    <3>3. c.port.word
      BY <3>1, <3>2
    <3>4. CASE t.port.tar = a /\ t.port.word = c.port.word
      BY <3>1, <3>3, <3>4 DEF Fetched
    <3> QED
      BY <3>1, <3>2, <3>4
  <2> QED
    BY <1>3, <1>5, <1>6, <1>8, <2>3, <2>4, <2>5
<1> QED
  BY <1>7, <1>8

\* What an access to the target's memory changes, and what it may ask for.
Reaches(p, a, t) ==
    /\ t \in Outcome /\ But(p, t.port, Moved \cup {"selected"}) /\ Off(p, t.port)
    /\ p.connected => Aimed(t.port)
    /\ t.port.hit \in {a, NoAddress}
    /\ t.port.hit # NoAddress => Linked(p) /\ ~p.sticky

\* arm_adi_mem_read32: the only word it can have read is the one asked for.
LEMMA MemReadCases ==
    ASSUME NEW p \in Port, p.connected => Aimed(p), NEW a \in Address, NEW t \in MemRead(p, a)
    PROVE  /\ Reaches(p, a, t)
           /\ (t.status = "OK" => Linked(p) /\ ~p.sticky /\ t.value = a /\ t.port.hit = a)
<1>1. CASE ~p.connected
  <2> DEFINE f == Fresh(p)
  <2>1. f \in Port /\ f.hit = NoAddress /\ But(p, f, {"hit", "posted"})
    BY FreshPort
  <2>2. t = Failed(f, "ARGUMENT")
    BY <1>1 DEF MemRead
  <2> HIDE DEF f
  <2>3. t \in Outcome /\ t.port = f /\ t.status = "ARGUMENT"
    BY <2>1, <2>2, Plain DEF Outcomes
  <2> QED
    BY <1>1, <2>1, <2>3 DEF Reaches, But, Field, Moved, Off
<1>2. CASE p.connected
  <2>1. PICK d \in Addressed(p, a) :
          t \in IF d.status = "OK" THEN ReadAp(d.port, "MEM", "0C") ELSE {d}
    BY <1>2 DEF MemRead, Then
  <2>2. /\ d \in Outcome /\ Drifts(p, d.port) /\ Aimed(d.port) /\ d.port.hit = NoAddress
        /\ (d.status = "OK" =>
              /\ Linked(p) /\ Linked(d.port) /\ ~p.sticky
              /\ (d.port.sticky \/ Fetched(d.port) = a))
    BY <1>2, <2>1, AddressedCases
  <2>3. CASE d.status # "OK"
    BY <2>1, <2>2, <2>3 DEF Reaches, Drifts
  <2>4. CASE d.status = "OK"
    <3>1. t \in ReadAp(d.port, "MEM", "0C") /\ d.port \in Port /\ d.port.selected = "MEM"
      BY <2>1, <2>2, <2>4 DEF Drifts, Aimed
    <3>2. PICK x \in TransferRetry(d.port, ApRead("0C")) :
            IF x.status = "OK" THEN t \in ReadDp(x.port, "RDBUFF") ELSE t = x
      BY <3>1, ReadApCases DEF Bank
    <3>3. ApRead("0C") \in Request /\ ApRead("0C").reg = "0C"
      BY RequestTypes DEF ApRead, Ap
    <3>4. /\ x \in Outcome /\ Drifts(d.port, x.port) /\ x.port.selected = d.port.selected
          /\ x.port.bank = d.port.bank
          /\ (d.port.sticky => x.port.hit = d.port.hit)
          /\ (x.port.hit = d.port.hit \/ x.port.hit = Fetched(d.port))
      BY <3>1, <3>2, <3>3, RetryFacts
    <3>5. Aimed(x.port) /\ Drifts(p, x.port) /\ x.port.hit \in {a, NoAddress}
      <4>1. Drifts(p, x.port)
        BY <2>2, <3>4, DriftChain
      <4> QED
        BY <2>2, <2>4, <3>4, <4>1 DEF Aimed
    <3>6. CASE x.status # "OK"
      BY <2>2, <2>4, <3>2, <3>4, <3>5, <3>6 DEF Reaches, Drifts
    <3>7. CASE x.status = "OK"
      <4>1. t \in ReadDp(x.port, "RDBUFF") /\ x.port \in Port
        BY <3>2, <3>5, <3>7 DEF Drifts
      <4>2. /\ t \in Outcome /\ Drifts(x.port, t.port) /\ t.port.selected = x.port.selected
            /\ t.port.bank = x.port.bank /\ t.port.hit = x.port.hit
        BY <4>1, ReadDpFacts
      <4>3. Drifts(p, t.port) /\ Aimed(t.port)
        BY <3>5, <4>2, DriftChain DEF Aimed
      <4>4. ASSUME t.status = "OK" PROVE t.value = a /\ t.port.hit = a
        <5>1. t.value = x.port.posted /\ ~x.port.sticky
          BY <4>1, <4>4, BufferRead
        <5>2. /\ ~d.port.sticky
              /\ x.port.sticky \/ (x.port.hit = Fetched(d.port) /\ x.port.posted = Fetched(d.port))
          BY <2>2, <3>1, <3>2, <3>7, DataRead DEF Aimed
        <5> QED
          BY <2>2, <2>4, <4>2, <5>1, <5>2
      <4> QED
        BY <2>2, <2>4, <3>5, <4>2, <4>3, <4>4 DEF Reaches, Drifts
    <3> QED
      BY <3>6, <3>7
  <2> QED
    BY <2>3, <2>4
<1> QED
  BY <1>1, <1>2

\* arm_adi_mem_write32: the only word it can have written is the one asked for.
LEMMA MemWriteCases ==
    ASSUME NEW p \in Port, p.connected => Aimed(p), NEW a \in Address, NEW t \in MemWrite(p, a)
    PROVE  /\ Reaches(p, a, t)
           /\ (t.status = "OK" => Linked(p) /\ ~p.sticky /\ (t.port.hit = a \/ t.port.sticky))
<1>1. CASE ~p.connected
  <2> DEFINE f == Fresh(p)
  <2>1. f \in Port /\ f.hit = NoAddress /\ But(p, f, {"hit", "posted"})
    BY FreshPort
  <2>2. t = Failed(f, "ARGUMENT")
    BY <1>1 DEF MemWrite
  <2> HIDE DEF f
  <2>3. t \in Outcome /\ t.port = f /\ t.status = "ARGUMENT"
    BY <2>1, <2>2, Plain DEF Outcomes
  <2> QED
    BY <1>1, <2>1, <2>3 DEF Reaches, But, Field, Moved, Off
<1>2. CASE p.connected
  <2>1. PICK d \in Addressed(p, a) :
          t \in IF d.status = "OK" THEN WriteAp(d.port, "MEM", "0C", "NOTHING") ELSE {d}
    BY <1>2 DEF MemWrite, Then
  <2>2. /\ d \in Outcome /\ Drifts(p, d.port) /\ Aimed(d.port) /\ d.port.hit = NoAddress
        /\ (d.status = "OK" =>
              /\ Linked(p) /\ Linked(d.port) /\ ~p.sticky
              /\ (d.port.sticky \/ Fetched(d.port) = a))
    BY <1>2, <2>1, AddressedCases
  <2>3. CASE d.status # "OK"
    BY <2>1, <2>2, <2>3 DEF Reaches, Drifts
  <2>4. CASE d.status = "OK"
    <3>1. t \in WriteAp(d.port, "MEM", "0C", "NOTHING") /\ d.port \in Port
          /\ d.port.selected = "MEM"
      BY <2>1, <2>2, <2>4 DEF Drifts, Aimed
    <3>2. ApWrite("0C", "NOTHING") \in Request /\ ApWrite("0C", "NOTHING").reg = "0C" /\ "MEM" \in Bank
      BY RequestTypes DEF ApWrite, Ap, Bank
    <3>3. t \in TransferRetry(d.port, ApWrite("0C", "NOTHING"))
      BY <3>1, <3>2, WriteApCases
    <3>4. /\ t \in Outcome /\ Drifts(d.port, t.port) /\ t.port.selected = d.port.selected
          /\ t.port.bank = d.port.bank
          /\ (d.port.sticky => t.port.hit = d.port.hit)
          /\ (t.port.hit = d.port.hit \/ t.port.hit = Fetched(d.port))
      BY <3>1, <3>2, <3>3, RetryFacts
    <3>5. Aimed(t.port) /\ Drifts(p, t.port) /\ t.port.hit \in {a, NoAddress}
      <4>1. Drifts(p, t.port)
        BY <2>2, <3>4, DriftChain
      <4> QED
        BY <2>2, <2>4, <3>4, <4>1 DEF Aimed
    <3>6. ASSUME t.status = "OK" PROVE t.port.hit = a \/ t.port.sticky
      <4>1. ~d.port.sticky /\ (t.port.sticky \/ t.port.hit = Fetched(d.port))
        BY <2>2, <3>1, <3>3, <3>6, DataWritten DEF Aimed
      <4> QED
        BY <2>2, <2>4, <4>1
    <3> QED
      BY <2>2, <2>4, <3>4, <3>5, <3>6 DEF Reaches, Drifts
  <2> QED
    BY <2>3, <2>4
<1> QED
  BY <1>1, <1>2

-----------------------------------------------------------------------------
(***************************************************************************)
(* The operations: their routines, the accesses of each, their order.      *)
(***************************************************************************)
Names == DOMAIN Routine
Values == Value \cup {"NONE", "HALT", "RUN", "SYSRESETREQ", "S_HALT", "S_REGRDY", "MSP", "R0", "PC"}

\* An access as a routine may ask for it: a word gets a value, a core register its name.
Accesses ==
    {s \in [op : {"WRITE", "READ", "POLL", "PULSE"}, at : Address \cup {"NRESET"},
            value : Values, accept : SUBSET (Value \cup BOOLEAN)] :
        /\ s.op \in {"WRITE", "READ"} => s.at \in Address
        /\ s.op = "WRITE" /\ s.at \in Word => s.value \in Value
        /\ s.op = "WRITE" /\ s.at \in {"DCRDR", "DCRSR"} => s.value \in {"MSP", "R0", "PC"}
        /\ s.op = "POLL" => s.value \in {"S_HALT", "S_REGRDY"}}

\* The writes of a routine that may run on a chip not yet identified.
Harmless == {s \in Accesses : s.op = "WRITE" => s.at \in {"DHCSR", "AIRCR"}}

\* The tables of functions and operations, written out.
LEMMA NamesAre ==
    /\ Names = {"HALT", "IDENTIFY", "SELFTEST", "RESTORE", "UPLOAD", "VERIFY", "DUMP", "RESET",
                "RECOVER", "PROBE", "ERASE", "PROGRAM"}
    /\ DOMAIN Job = {"FLASH", "BACKUP", "INFO", "TEST", "RESTART"}
BY DEF Names, Routine, Job, Command

LEMMA RoutineIs ==
    /\ Routine["HALT"] = Halt /\ Routine["IDENTIFY"] = Identify
    /\ Routine["SELFTEST"] = SelfTest /\ Routine["RESTORE"] = Restore
    /\ Routine["UPLOAD"] = Upload /\ Routine["VERIFY"] = Verify /\ Routine["DUMP"] = Dump
    /\ Routine["RESET"] = SystemReset /\ Routine["RECOVER"] = Recover
    /\ \A c \in Command : Routine[c] = Execute(c)
<1>1. \A c \in Command : Routine[c] = Execute(c)
  <2>1. Routine["PROBE"] = Execute("PROBE")
    BY Zenon DEF Routine, Command
  <2>2. Routine["ERASE"] = Execute("ERASE")
    BY Zenon DEF Routine, Command
  <2>3. Routine["PROGRAM"] = Execute("PROGRAM")
    BY Zenon DEF Routine, Command
  <2> QED
    BY <2>1, <2>2, <2>3 DEF Command
<1>2. Routine["HALT"] = Halt /\ Routine["IDENTIFY"] = Identify
  BY Zenon DEF Routine, Command
<1>3. Routine["SELFTEST"] = SelfTest /\ Routine["RESTORE"] = Restore
  BY Zenon DEF Routine, Command
<1>4. Routine["UPLOAD"] = Upload /\ Routine["VERIFY"] = Verify
  BY Zenon DEF Routine, Command
<1>5. Routine["DUMP"] = Dump /\ Routine["RESET"] = SystemReset
  BY Zenon DEF Routine, Command
<1>6. Routine["RECOVER"] = Recover
  BY Zenon DEF Routine, Command
<1> QED
  BY <1>1, <1>2, <1>3, <1>4, <1>5, <1>6

\* Words of the SRAM and registers are addresses.
LEMMA WordsAre == Word \subseteq Address /\ Register \subseteq Address /\ NoAddress \notin Address
BY LoaderAssumption, PortAssumption

HaltedPoll == Wait("S_HALT", TRUE)
RunningPoll == Wait("S_HALT", FALSE)
ReadyPoll == Wait("S_REGRDY", TRUE)

\* The fields of each kind of access.
LEMMA AccessesAre ==
    /\ \A a \in Address : \A v \in Values :
         /\ a \in Word => v \in Value
         /\ a \in {"DCRDR", "DCRSR"} => v \in {"MSP", "R0", "PC"}
         => Write(a, v) \in Accesses
    /\ \A a \in {"DHCSR", "AIRCR"} : \A v \in Values : Write(a, v) \in Harmless
    /\ \A a \in Address : \A accept \in SUBSET Value : Read(a, accept) \in Harmless
    /\ HaltedPoll \in Harmless /\ RunningPoll \in Harmless /\ ReadyPoll \in Harmless
    /\ Pulse \in Harmless
    /\ Harmless \subseteq Accesses
<1>1. \A a \in Address : \A v \in Values :
         (/\ a \in Word => v \in Value
          /\ a \in {"DCRDR", "DCRSR"} => v \in {"MSP", "R0", "PC"})
         => Write(a, v) \in Accesses
  BY DEF Write, Accesses
<1>2. \A a \in {"DHCSR", "AIRCR"} : \A v \in Values : Write(a, v) \in Harmless
  BY WordsAre DEF Write, Accesses, Harmless, Register, Word, Mailbox
<1>3. \A a \in Address : \A accept \in SUBSET Value : Read(a, accept) \in Harmless
  BY DEF Read, Accesses, Harmless, Values
<1>4. HaltedPoll \in Harmless /\ RunningPoll \in Harmless /\ ReadyPoll \in Harmless
  BY WordsAre DEF HaltedPoll, RunningPoll, ReadyPoll, Wait, Accesses, Harmless, Values, Register
<1>5. Pulse \in Harmless
  BY DEF Pulse, Accesses, Harmless, Values
<1> QED
  BY <1>1, <1>2, <1>3, <1>4, <1>5 DEF Harmless

\* The three ways out of an operation, access by access.
LEMMA TailsAre ==
    /\ SystemReset = <<Write("AIRCR", "SYSRESETREQ")>> \o <<Write("DHCSR", "RUN")>> \o <<RunningPoll>>
    /\ Recover = <<Pulse>> \o <<Write("DHCSR", "RUN")>> \o <<RunningPoll>>
    /\ WaitHalted = <<HaltedPoll>>
    /\ \A r : WriteRegister(r) = <<Write("DCRDR", r), Write("DCRSR", r), ReadyPoll>>
<1>1. SystemReset = <<Write("AIRCR", "SYSRESETREQ")>> \o <<Write("DHCSR", "RUN")>> \o <<RunningPoll>>
  BY Zenon DEF SystemReset, Run, RunningPoll
<1>2. Recover = <<Pulse>> \o <<Write("DHCSR", "RUN")>> \o <<RunningPoll>>
  BY Zenon DEF Recover, Run, RunningPoll
<1>3. WaitHalted = <<HaltedPoll>>
  BY Zenon DEF WaitHalted, HaltedPoll
<1>4. \A r : WriteRegister(r) = <<Write("DCRDR", r), Write("DCRSR", r), ReadyPoll>>
  BY Zenon DEF WriteRegister, ReadyPoll
<1> QED
  BY <1>1, <1>2, <1>3, <1>4

\* The functions that write only the two registers that halt and reset the core.
LEMMA HarmlessRoutines ==
    ASSUME NEW r \in {"HALT", "IDENTIFY", "RESET", "RECOVER"}
    PROVE  /\ Len(Routine[r]) \in 1 .. 3
           /\ \A k \in 1 .. Len(Routine[r]) : Routine[r][k] \in Harmless
<1>1. "HALT" \in Values /\ "RUN" \in Values /\ "SYSRESETREQ" \in Values /\ "ID" \in Address
      /\ {Expected} \in SUBSET Value
  BY LoaderAssumption DEF Values, Value, Register
<1>2. CASE r = "HALT"
  <2>1. Routine[r] = <<Write("DHCSR", "HALT"), HaltedPoll>>
    BY <1>2, RoutineIs DEF Halt, HaltedPoll
  <2> QED
    BY <1>1, <2>1, AccessesAre
<1>3. CASE r = "IDENTIFY"
  <2>1. Routine[r] = <<Read("ID", {Expected})>>
    BY <1>3, RoutineIs DEF Identify
  <2> QED
    BY <1>1, <2>1, AccessesAre
<1>4. CASE r = "RESET"
  <2>1. Routine[r] = SystemReset
    BY <1>4, RoutineIs
  <2>2. /\ Len(SystemReset) = 3 /\ SystemReset[1] = Write("AIRCR", "SYSRESETREQ")
        /\ SystemReset[2] = Write("DHCSR", "RUN") /\ SystemReset[3] = RunningPoll
    BY TailsAre
  <2> QED
    BY <1>1, <2>1, <2>2, AccessesAre
<1>5. CASE r = "RECOVER"
  <2>1. Routine[r] = Recover
    BY <1>5, RoutineIs
  <2>2. /\ Len(Recover) = 3 /\ Recover[1] = Pulse
        /\ Recover[2] = Write("DHCSR", "RUN") /\ Recover[3] = RunningPoll
    BY TailsAre
  <2> QED
    BY <1>1, <2>1, <2>2, AccessesAre
<1> QED
  BY <1>2, <1>3, <1>4, <1>5

\* The accesses of a command: Base(c) is what goes before its mailbox.
Base(c) == IF c = "PROGRAM" THEN 1 ELSE 0

\* execute: its accesses by their place, from the first word of the mailbox to its last.
LEMMA ExecuteIs ==
    ASSUME NEW c \in Command, NEW b, b = Base(c)
    PROVE  LET s == Execute(c) IN
           /\ b \in 0 .. 1 /\ Len(s) = b + 19
           /\ b = 1 => s[1] = Write("buffer", "IMAGE")
           /\ s[b + 1] = Write("magic", "MAGIC") /\ s[b + 2] = Write("command", c)
           /\ s[b + 3] = Write("status", "IDLE") /\ s[b + 4] = Write("result", "OK")
           /\ s[b + 5] = Write("DCRDR", "MSP") /\ s[b + 6] = Write("DCRSR", "MSP")
           /\ s[b + 7] = ReadyPoll
           /\ s[b + 8] = Write("DCRDR", "R0") /\ s[b + 9] = Write("DCRSR", "R0")
           /\ s[b + 10] = ReadyPoll
           /\ s[b + 11] = Write("DCRDR", "PC") /\ s[b + 12] = Write("DCRSR", "PC")
           /\ s[b + 13] = ReadyPoll
           /\ s[b + 14] = Write("DHCSR", "RUN") /\ s[b + 15] = HaltedPoll
           /\ s[b + 16] = Read("magic", {"MAGIC"}) /\ s[b + 17] = Read("command", Value)
           /\ s[b + 18] = Read("status", {"DONE"}) /\ s[b + 19] = Read("result", {"OK"})
<1>1. CASE c = "PROGRAM"
  <2>1. b = 1
    BY <1>1 DEF Base
  <2>2. Execute(c) = <<Write("buffer", "IMAGE")>>
          \o <<Write("magic", "MAGIC"), Write("command", c), Write("status", "IDLE"),
               Write("result", "OK")>>
          \o <<Write("DCRDR", "MSP"), Write("DCRSR", "MSP"), ReadyPoll>>
          \o <<Write("DCRDR", "R0"), Write("DCRSR", "R0"), ReadyPoll>>
          \o <<Write("DCRDR", "PC"), Write("DCRSR", "PC"), ReadyPoll>>
          \o <<Write("DHCSR", "RUN")>> \o <<HaltedPoll>>
          \o <<Read("magic", {"MAGIC"}), Read("command", Value), Read("status", {"DONE"}),
               Read("result", {"OK"})>>
    BY <1>1, TailsAre DEF Execute, Run, Accepted
  <2> QED
    BY <2>1, <2>2
<1>2. CASE c # "PROGRAM"
  <2>1. b = 0
    BY <1>2 DEF Base
  <2>2. Execute(c) = <<>>
          \o <<Write("magic", "MAGIC"), Write("command", c), Write("status", "IDLE"),
               Write("result", "OK")>>
          \o <<Write("DCRDR", "MSP"), Write("DCRSR", "MSP"), ReadyPoll>>
          \o <<Write("DCRDR", "R0"), Write("DCRSR", "R0"), ReadyPoll>>
          \o <<Write("DCRDR", "PC"), Write("DCRSR", "PC"), ReadyPoll>>
          \o <<Write("DHCSR", "RUN")>> \o <<HaltedPoll>>
          \o <<Read("magic", {"MAGIC"}), Read("command", Value), Read("status", {"DONE"}),
               Read("result", {"OK"})>>
    BY <1>2, TailsAre DEF Execute, Run, Accepted
  <2> QED
    BY <2>1, <2>2
<1> QED
  BY <1>1, <1>2

\* Functions that read or write words of the memory.
LEMMA WordRoutines ==
    ASSUME NEW r \in {"SELFTEST", "RESTORE", "UPLOAD", "VERIFY", "DUMP"}
    PROVE  /\ Len(Routine[r]) \in 1 .. 3
           /\ \A k \in 1 .. Len(Routine[r]) : Routine[r][k] \in Accesses
<1>1. /\ {"test", "code", "FLASH"} \subseteq Address
      /\ {"test", "code"} \cap {"DCRDR", "DCRSR"} = {}
      /\ {"PATTERN", "GARBAGE", "BLOB"} \subseteq Value \cap Values
  BY WordsAre DEF Word, Register, Value, Values
<1>2. /\ {"PATTERN"} \in SUBSET Value /\ {"BLOB"} \in SUBSET Value /\ {"IMAGE"} \in SUBSET Value
      /\ Value \in SUBSET Value
  BY DEF Value
<1>3. /\ Write("test", "PATTERN") \in Accesses /\ Write("test", "GARBAGE") \in Accesses
      /\ Write("code", "BLOB") \in Accesses
  BY <1>1, AccessesAre
<1>4. /\ Read("test", Value) \in Accesses /\ Read("test", {"PATTERN"}) \in Accesses
      /\ Read("code", {"BLOB"}) \in Accesses
      /\ Read("FLASH", {"IMAGE"}) \in Accesses /\ Read("FLASH", Value) \in Accesses
  BY <1>1, <1>2, AccessesAre
<1>5. CASE r = "SELFTEST"
  <2>1. Routine[r] = <<Read("test", Value), Write("test", "PATTERN"), Read("test", {"PATTERN"})>>
    BY <1>5, RoutineIs DEF SelfTest
  <2> QED
    BY <1>3, <1>4, <2>1
<1>6. CASE r = "RESTORE"
  <2>1. Routine[r] = <<Write("test", "GARBAGE")>>
    BY <1>6, RoutineIs DEF Restore
  <2> QED
    BY <1>3, <2>1
<1>7. CASE r = "UPLOAD"
  <2>1. Routine[r] = <<Write("code", "BLOB"), Read("code", {"BLOB"})>>
    BY <1>7, RoutineIs DEF Upload
  <2> QED
    BY <1>3, <1>4, <2>1
<1>8. CASE r = "VERIFY"
  <2>1. Routine[r] = <<Read("FLASH", {"IMAGE"})>>
    BY <1>8, RoutineIs DEF Verify
  <2> QED
    BY <1>4, <2>1
<1>9. CASE r = "DUMP"
  <2>1. Routine[r] = <<Read("FLASH", Value)>>
    BY <1>9, RoutineIs DEF Dump
  <2> QED
    BY <1>4, <2>1
<1> QED
  BY <1>5, <1>6, <1>7, <1>8, <1>9

\* The two loader commands, access by access.
LEMMA CommandRoutines ==
    ASSUME NEW c \in Command
    PROVE  /\ Len(Routine[c]) = Base(c) + 19
           /\ \A k \in 1 .. Len(Routine[c]) : Routine[c][k] \in Accesses
<1> DEFINE b == Base(c)
           s == Execute(c)
<1>1. /\ {"buffer", "magic", "command", "status", "result"} \subseteq Address
      /\ {"DHCSR", "DCRDR", "DCRSR"} \subseteq Address
      /\ {"buffer", "magic", "command", "status", "result", "DHCSR"} \cap {"DCRDR", "DCRSR"} = {}
      /\ {"IMAGE", "MAGIC", "IDLE", "OK", c} \subseteq Value \cap Values
      /\ {"MSP", "R0", "PC", "RUN"} \subseteq Values
      /\ {"DHCSR", "DCRDR", "DCRSR"} \cap Word = {}
  BY WordsAre DEF Word, Mailbox, Register, Value, Values
<1>2. /\ {"MAGIC"} \in SUBSET Value /\ {"DONE"} \in SUBSET Value /\ {"OK"} \in SUBSET Value
      /\ Value \in SUBSET Value
  BY DEF Value
<1>3. /\ Write("buffer", "IMAGE") \in Accesses /\ Write("magic", "MAGIC") \in Accesses
      /\ Write("command", c) \in Accesses /\ Write("status", "IDLE") \in Accesses
      /\ Write("result", "OK") \in Accesses
  BY <1>1, AccessesAre
<1>4. /\ \A v \in {"MSP", "R0", "PC"} : Write("DCRDR", v) \in Accesses /\ Write("DCRSR", v) \in Accesses
      /\ Write("DHCSR", "RUN") \in Accesses
  BY <1>1, AccessesAre
<1>5. /\ Read("magic", {"MAGIC"}) \in Accesses /\ Read("command", Value) \in Accesses
      /\ Read("status", {"DONE"}) \in Accesses /\ Read("result", {"OK"}) \in Accesses
      /\ HaltedPoll \in Accesses /\ ReadyPoll \in Accesses
  BY <1>1, <1>2, AccessesAre
<1>6. /\ b \in 0 .. 1 /\ Len(s) = b + 19
      /\ b = 1 => s[1] = Write("buffer", "IMAGE")
      /\ s[b + 1] = Write("magic", "MAGIC") /\ s[b + 2] = Write("command", c)
      /\ s[b + 3] = Write("status", "IDLE") /\ s[b + 4] = Write("result", "OK")
      /\ s[b + 5] = Write("DCRDR", "MSP") /\ s[b + 6] = Write("DCRSR", "MSP")
      /\ s[b + 7] = ReadyPoll
      /\ s[b + 8] = Write("DCRDR", "R0") /\ s[b + 9] = Write("DCRSR", "R0")
      /\ s[b + 10] = ReadyPoll
      /\ s[b + 11] = Write("DCRDR", "PC") /\ s[b + 12] = Write("DCRSR", "PC")
      /\ s[b + 13] = ReadyPoll
      /\ s[b + 14] = Write("DHCSR", "RUN") /\ s[b + 15] = HaltedPoll
      /\ s[b + 16] = Read("magic", {"MAGIC"}) /\ s[b + 17] = Read("command", Value)
      /\ s[b + 18] = Read("status", {"DONE"}) /\ s[b + 19] = Read("result", {"OK"})
  BY ExecuteIs
<1> HIDE DEF s, b
<1>7. \A k \in 1 .. b + 19 : s[k] \in Accesses
  <2>1. b = 1 => s[1] \in Accesses
    BY <1>3, <1>6
  <2>2. /\ s[b + 1] \in Accesses /\ s[b + 2] \in Accesses /\ s[b + 3] \in Accesses
        /\ s[b + 4] \in Accesses
    BY <1>3, <1>6
  <2>3. /\ s[b + 5] \in Accesses /\ s[b + 6] \in Accesses /\ s[b + 8] \in Accesses
        /\ s[b + 9] \in Accesses /\ s[b + 11] \in Accesses /\ s[b + 12] \in Accesses
        /\ s[b + 14] \in Accesses
    BY <1>4, <1>6
  <2>4. /\ s[b + 7] \in Accesses /\ s[b + 10] \in Accesses /\ s[b + 13] \in Accesses
        /\ s[b + 15] \in Accesses
    BY <1>5, <1>6
  <2>5. /\ s[b + 16] \in Accesses /\ s[b + 17] \in Accesses /\ s[b + 18] \in Accesses
        /\ s[b + 19] \in Accesses
    BY <1>5, <1>6
  <2>6. b = 0 \/ b = 1
    BY <1>6
  <2> QED
    BY <2>1, <2>2, <2>3, <2>4, <2>5, <2>6
<1>8. Routine[c] = s
  BY RoutineIs DEF s
<1> QED
  BY <1>6, <1>7, <1>8 DEF b

\* The accesses of every function.
LEMMA RoutineFacts ==
    ASSUME NEW r \in Names
    PROVE  /\ Len(Routine[r]) \in 1 .. 20
           /\ \A k \in 1 .. Len(Routine[r]) :
                 Routine[r][k] \in Accesses
                 /\ (r \in {"HALT", "IDENTIFY", "RESET", "RECOVER"} => Routine[r][k] \in Harmless)
<1>1. CASE r \in {"HALT", "IDENTIFY", "RESET", "RECOVER"}
  BY <1>1, HarmlessRoutines, AccessesAre
<1>2. CASE r \in {"SELFTEST", "RESTORE", "UPLOAD", "VERIFY", "DUMP"}
  BY <1>2, WordRoutines
<1>3. CASE r \in Command
  BY <1>3, CommandRoutines DEF Base, Command
<1> QED
  BY <1>1, <1>2, <1>3, NamesAre DEF Command

\* Which routine may follow which.
Pairs == {<<"CONNECT", "HALT">>, <<"CONNECT", "RESET">>, <<"HALT", "IDENTIFY">>,
          <<"IDENTIFY", "SELFTEST">>, <<"SELFTEST", "RESTORE">>, <<"RESTORE", "UPLOAD">>,
          <<"RESTORE", "DUMP">>, <<"RESTORE", "RESET">>, <<"UPLOAD", "PROBE">>,
          <<"PROBE", "ERASE">>, <<"PROBE", "RESET">>, <<"ERASE", "PROGRAM">>,
          <<"PROGRAM", "VERIFY">>, <<"VERIFY", "RESET">>, <<"DUMP", "RESET">>}

\* Every operation goes from a connect to a reset through neighbours in Pairs.
LEMMA JobTable ==
    ASSUME NEW j \in DOMAIN Job, NEW s, s = Job[j]
    PROVE  /\ Len(s) \in 2 .. 11 /\ DOMAIN s = 1 .. Len(s) /\ s[1] = "CONNECT" /\ s[Len(s)] = "RESET"
           /\ \A k \in 1 .. Len(s) - 1 :
                 <<s[k], s[k + 1]>> \in Pairs /\ (j = "FLASH" /\ s[k + 1] = "RESET" => s[k] = "VERIFY")
<1>1. CASE j = "FLASH"
  <2>1. /\ Len(s) = 11 /\ s[1] = "CONNECT" /\ s[2] = "HALT" /\ s[3] = "IDENTIFY"
        /\ s[4] = "SELFTEST" /\ s[5] = "RESTORE" /\ s[6] = "UPLOAD" /\ s[7] = "PROBE"
        /\ s[8] = "ERASE" /\ s[9] = "PROGRAM" /\ s[10] = "VERIFY" /\ s[11] = "RESET"
        /\ DOMAIN s = 1 .. 11
    BY <1>1 DEF Job, ConnectTarget
  <2>2. /\ <<s[1], s[2]>> \in Pairs
        /\ <<s[2], s[3]>> \in Pairs
        /\ <<s[3], s[4]>> \in Pairs
        /\ <<s[4], s[5]>> \in Pairs
        /\ <<s[5], s[6]>> \in Pairs
        /\ <<s[6], s[7]>> \in Pairs
        /\ <<s[7], s[8]>> \in Pairs
        /\ <<s[8], s[9]>> \in Pairs
        /\ <<s[9], s[10]>> \in Pairs
        /\ <<s[10], s[11]>> \in Pairs
    BY <2>1 DEF Pairs
  <2>3. \A k \in 1 .. 10 : j = "FLASH" /\ s[k + 1] = "RESET" => s[k] = "VERIFY"
    BY <1>1, <2>1
  <2>4. \A k \in 1 .. 10 : <<s[k], s[k + 1]>> \in Pairs
    <3> HIDE DEF Pairs
    <3> SUFFICES ASSUME NEW k \in 1 .. 10 PROVE <<s[k], s[k + 1]>> \in Pairs
      OBVIOUS
    <3>1. k = 1 \/ k = 2 \/ k = 3 \/ k = 4 \/ k = 5 \/ k = 6 \/ k = 7 \/ k = 8 \/ k = 9 \/ k = 10
      OBVIOUS
    <3> QED
      BY <2>2, <3>1
  <2> QED
    BY <2>1, <2>3, <2>4
<1>2. CASE j = "BACKUP"
  <2>1. /\ Len(s) = 7 /\ s[1] = "CONNECT" /\ s[2] = "HALT" /\ s[3] = "IDENTIFY"
        /\ s[4] = "SELFTEST" /\ s[5] = "RESTORE" /\ s[6] = "DUMP" /\ s[7] = "RESET"
        /\ DOMAIN s = 1 .. 7
    BY <1>2 DEF Job, ConnectTarget
  <2>2. /\ <<s[1], s[2]>> \in Pairs
        /\ <<s[2], s[3]>> \in Pairs
        /\ <<s[3], s[4]>> \in Pairs
        /\ <<s[4], s[5]>> \in Pairs
        /\ <<s[5], s[6]>> \in Pairs
        /\ <<s[6], s[7]>> \in Pairs
    BY <2>1 DEF Pairs
  <2>3. \A k \in 1 .. 6 : j = "FLASH" /\ s[k + 1] = "RESET" => s[k] = "VERIFY"
    BY <1>2, <2>1
  <2>4. \A k \in 1 .. 6 : <<s[k], s[k + 1]>> \in Pairs
    <3> HIDE DEF Pairs
    <3> SUFFICES ASSUME NEW k \in 1 .. 6 PROVE <<s[k], s[k + 1]>> \in Pairs
      OBVIOUS
    <3>1. k = 1 \/ k = 2 \/ k = 3 \/ k = 4 \/ k = 5 \/ k = 6
      OBVIOUS
    <3> QED
      BY <2>2, <3>1
  <2> QED
    BY <2>1, <2>3, <2>4
<1>3. CASE j = "INFO"
  <2>1. /\ Len(s) = 6 /\ s[1] = "CONNECT" /\ s[2] = "HALT" /\ s[3] = "IDENTIFY"
        /\ s[4] = "SELFTEST" /\ s[5] = "RESTORE" /\ s[6] = "RESET"
        /\ DOMAIN s = 1 .. 6
    BY <1>3 DEF Job, ConnectTarget
  <2> QED
    BY <1>3, <2>1 DEF Pairs
<1>4. CASE j = "TEST"
  <2>1. /\ Len(s) = 8 /\ s[1] = "CONNECT" /\ s[2] = "HALT" /\ s[3] = "IDENTIFY"
        /\ s[4] = "SELFTEST" /\ s[5] = "RESTORE" /\ s[6] = "UPLOAD" /\ s[7] = "PROBE"
        /\ s[8] = "RESET" /\ DOMAIN s = 1 .. 8
    BY <1>4 DEF Job, ConnectTarget
  <2>2. /\ <<s[1], s[2]>> \in Pairs
        /\ <<s[2], s[3]>> \in Pairs
        /\ <<s[3], s[4]>> \in Pairs
        /\ <<s[4], s[5]>> \in Pairs
        /\ <<s[5], s[6]>> \in Pairs
        /\ <<s[6], s[7]>> \in Pairs
        /\ <<s[7], s[8]>> \in Pairs
    BY <2>1 DEF Pairs
  <2>3. \A k \in 1 .. 7 : j = "FLASH" /\ s[k + 1] = "RESET" => s[k] = "VERIFY"
    BY <1>4, <2>1
  <2>4. \A k \in 1 .. 7 : <<s[k], s[k + 1]>> \in Pairs
    <3> HIDE DEF Pairs
    <3> SUFFICES ASSUME NEW k \in 1 .. 7 PROVE <<s[k], s[k + 1]>> \in Pairs
      OBVIOUS
    <3>1. k = 1 \/ k = 2 \/ k = 3 \/ k = 4 \/ k = 5 \/ k = 6 \/ k = 7
      OBVIOUS
    <3> QED
      BY <2>2, <3>1
  <2> QED
    BY <2>1, <2>3, <2>4
<1>5. CASE j = "RESTART"
  <2>1. Len(s) = 2 /\ s[1] = "CONNECT" /\ s[2] = "RESET" /\ DOMAIN s = 1 .. 2
    BY <1>5 DEF Job
  <2> QED
    BY <1>5, <2>1 DEF Pairs
<1> QED
  BY <1>1, <1>2, <1>3, <1>4, <1>5, NamesAre

\* The rank of a routine: what follows a routine ranks above it.
LEMMA RankIs ==
    ASSUME NEW r \in Names \cup {"CONNECT", "DISCONNECT"}
    PROVE  Rank(r) \in 1 .. 14 /\ Forward[Rank(r)] = r
<1>1. \E k \in 1 .. 14 : Forward[k] = r
  <2>1. /\ Forward[1] = "CONNECT" /\ Forward[2] = "HALT" /\ Forward[3] = "IDENTIFY"
        /\ Forward[4] = "SELFTEST" /\ Forward[5] = "RESTORE" /\ Forward[6] = "UPLOAD"
        /\ Forward[7] = "PROBE" /\ Forward[8] = "ERASE" /\ Forward[9] = "PROGRAM"
        /\ Forward[10] = "VERIFY" /\ Forward[11] = "DUMP" /\ Forward[12] = "RESET"
        /\ Forward[13] = "RECOVER" /\ Forward[14] = "DISCONNECT"
    BY DEF Forward
  <2> QED
    BY <2>1, NamesAre
<1>2. DOMAIN Forward = 1 .. 14
  BY DEF Forward
<1>3. Rank(r) = CHOOSE k \in 1 .. 14 : Forward[k] = r
  BY <1>2 DEF Rank
<1> HIDE DEF Forward
<1> QED
  BY <1>1, <1>3

\* Rank grows along every operation.
LEMMA RankGrows ==
    /\ \A a, b : <<a, b>> \in Pairs => Rank(b) > Rank(a)
    /\ \A a \in Names \cup {"CONNECT"} : Rank("DISCONNECT") > Rank(a)
    /\ Rank("RECOVER") > Rank("RESET")
<1>1. \A k \in 1 .. 14 :
        /\ Forward[k] = "CONNECT" => k = 1
        /\ Forward[k] = "HALT" => k = 2
        /\ Forward[k] = "IDENTIFY" => k = 3
        /\ Forward[k] = "SELFTEST" => k = 4
        /\ Forward[k] = "RESTORE" => k = 5
        /\ Forward[k] = "UPLOAD" => k = 6
        /\ Forward[k] = "PROBE" => k = 7
        /\ Forward[k] = "ERASE" => k = 8
        /\ Forward[k] = "PROGRAM" => k = 9
        /\ Forward[k] = "VERIFY" => k = 10
        /\ Forward[k] = "DUMP" => k = 11
        /\ Forward[k] = "RESET" => k = 12
        /\ Forward[k] = "RECOVER" => k = 13
        /\ Forward[k] = "DISCONNECT" => k = 14
  BY DEF Forward
<1>2. /\ Rank("CONNECT") = 1 /\ Rank("HALT") = 2 /\ Rank("IDENTIFY") = 3 /\ Rank("SELFTEST") = 4
      /\ Rank("RESTORE") = 5 /\ Rank("UPLOAD") = 6 /\ Rank("PROBE") = 7 /\ Rank("ERASE") = 8
      /\ Rank("PROGRAM") = 9 /\ Rank("VERIFY") = 10 /\ Rank("DUMP") = 11 /\ Rank("RESET") = 12
      /\ Rank("RECOVER") = 13 /\ Rank("DISCONNECT") = 14
  BY <1>1, RankIs, NamesAre
<1>3. \A a, b : <<a, b>> \in Pairs => Rank(b) > Rank(a)
  BY <1>2 DEF Pairs
<1>4. \A a \in Names \cup {"CONNECT"} : Rank("DISCONNECT") > Rank(a)
  BY <1>2, NamesAre
<1> QED
  BY <1>2, <1>3, <1>4

-----------------------------------------------------------------------------
(***************************************************************************)
(* How an operation goes on: the invariant of its control and what a step  *)
(* of it makes of the host's record.                                       *)
(***************************************************************************)
InJob(j, r) == \E k \in DOMAIN Job[j] : Job[j][k] = r

HostInv ==
    /\ host.routine = "CONNECT" => host.step \in 1 .. Attempts
    /\ (Busy /\ host.routine \in Names => host.step <= Len(Routine[host.routine]))
    /\ (Busy /\ host.routine \notin {"RECOVER", "DISCONNECT"} => InJob(host.job, host.routine))
    /\ host.step = 0 => host.routine \in Command \cup Stoppable
    /\ (host.command = "PENDING" <=> (Busy /\ host.routine \in Command /\ host.step > 0))
    /\ (Busy /\ host.routine \notin {"RESTORE", "RESET", "RECOVER", "DISCONNECT"}
            => host.status = "OK")
    /\ (~Busy => host.routine = "DISCONNECT")

\* The function that follows the one under way.
LEMMA FollowIs ==
    ASSUME host.job \in DOMAIN Job, host.routine = "RECOVER" \/ InJob(host.job, host.routine)
    PROVE  /\ host.routine \in {"RECOVER", "RESET"} \/ host.status # "OK" => Following = "DISCONNECT"
           /\ (host.routine \notin {"RECOVER", "RESET"} /\ host.status = "OK" =>
                 /\ <<host.routine, Following>> \in Pairs /\ InJob(host.job, Following)
                 /\ host.job = "FLASH" /\ Following = "RESET" => host.routine = "VERIFY")
<1> DEFINE s == Job[host.job]
           n == Len(s)
           at == CHOOSE k \in 1 .. n : s[k] = host.routine
<1>1. /\ n \in 2 .. 11 /\ DOMAIN s = 1 .. n /\ s[n] = "RESET"
      /\ \A k \in 1 .. n - 1 :
            <<s[k], s[k + 1]>> \in Pairs
            /\ (host.job = "FLASH" /\ s[k + 1] = "RESET" => s[k] = "VERIFY")
  BY JobTable
<1>2. Following = IF host.routine = "RECOVER" \/ host.status # "OK" \/ host.routine = s[n]
                  THEN "DISCONNECT" ELSE s[at + 1]
  BY DEF Following
<1>3. ASSUME host.routine \notin {"RECOVER", "RESET"}, host.status = "OK"
      PROVE  /\ <<host.routine, Following>> \in Pairs /\ InJob(host.job, Following)
             /\ host.job = "FLASH" /\ Following = "RESET" => host.routine = "VERIFY"
  <2>1. \E k \in 1 .. n : s[k] = host.routine
    BY <1>1, <1>3 DEF InJob
  <2>2. at \in 1 .. n /\ s[at] = host.routine
    BY <2>1
  <2> HIDE DEF at
  <2>3. Following = s[at + 1]
    BY <1>1, <1>2, <1>3
  <2> HIDE DEF s
  <2>4. at \in 1 .. n - 1 /\ at + 1 \in DOMAIN s
    BY <1>1, <1>3, <2>2
  <2>5. <<s[at], s[at + 1]>> \in Pairs /\ (host.job = "FLASH" /\ s[at + 1] = "RESET" => s[at] = "VERIFY")
    BY <1>1, <2>4
  <2>6. InJob(host.job, s[at + 1])
    BY <2>4 DEF InJob, s
  <2> QED
    BY <2>2, <2>3, <2>5, <2>6
<1> QED
  BY <1>1, <1>2, <1>3

\* A step of the operation: on to the next access, or over to another routine.
Stepped == host' = [host EXCEPT !.step = host.step + 1]
Over(r, status, end) ==
    /\ host' \in Host /\ host'.job = host.job /\ host'.routine = r
    /\ host'.step = FirstStep(r) /\ host'.status = status
    /\ (host.routine \in Command => host'.command = end)
    /\ (host.routine \notin Command => host'.command = host.command)
AtEnd == host.step >= Len(Routine[host.routine])
Bad == IF host.status = "OK" THEN "ERROR" ELSE host.status
End(status) == IF status = "OK" THEN "OK" ELSE "FAILED"

\* Neighbours in an operation are two different functions.
LEMMA PairsAre == \A a, b : <<a, b>> \in Pairs => a # b /\ a \in Names \cup {"CONNECT"} /\ b \in Names
BY NamesAre DEF Pairs

\* The end of a function, as a change of the host's fields.
LEMMA OverIs ==
    ASSUME host \in Host, NEW r \in Names \cup {"DISCONNECT"}, r # host.routine,
           NEW st \in {"OK", "ERROR", "ABORTED"}, NEW status,
           host' = Concluded(Goto(r, st), status = "OK")
    PROVE  Over(r, st, End(status))
<1> DEFINE g == Goto(r, st)
           end == End(status)
<1>1. /\ g \in Host /\ g.job = host.job /\ g.routine = r /\ g.step = FirstStep(r)
      /\ g.status = st /\ g.command = host.command
  <2>1. FirstStep(r) \in 0 .. 20
    BY DEF FirstStep
  <2> QED
    BY <2>1 DEF Goto, Host, Names
<1>2. end \in {"OK", "FAILED"}
  BY DEF End
<1>0. host' = IF host.routine \in Command THEN [g EXCEPT !.command = end] ELSE g
  BY <1>1, Zenon DEF Concluded, End
<1> HIDE DEF g, end
<1>3. CASE host.routine \in Command
  <2>1. host' = [g EXCEPT !.command = end]
    BY <1>0, <1>3
  <2>2. /\ host' \in Host /\ host'.job = host.job /\ host'.routine = r /\ host'.step = FirstStep(r)
        /\ host'.status = st /\ host'.command = end
    BY <1>1, <1>2, <2>1 DEF Host
  <2> QED
    BY <1>3, <2>2 DEF Over, end
<1>4. CASE host.routine \notin Command
  <2>1. host' = g
    BY <1>0, <1>4
  <2> QED
    BY <1>1, <1>4, <2>1 DEF Over
<1> QED
  BY <1>3, <1>4

\* Continue either goes on to the next access or ends the function.
LEMMA ContinueCases ==
    ASSUME host \in Host, HostInv, Busy, host.routine \in Names, NEW status, Continue(status)
    PROVE  /\ (status = "OK" \/ host.routine = "RESTORE" =>
                 \/ ~AtEnd /\ Stepped
                 \/ AtEnd /\ Over(Following, host.status, End(status)))
           /\ (status # "OK" /\ host.routine = "SELFTEST" => Over("RESTORE", Bad, "FAILED"))
           /\ (status # "OK" /\ host.routine = "RESET" /\ host.step > 1
                 => Over("RECOVER", host.status, "FAILED"))
           /\ (status # "OK" /\ host.routine = "DUMP" => Over("RESET", Bad, "FAILED"))
           /\ (status # "OK" /\ host.routine \notin {"SELFTEST", "RESTORE", "DUMP"}
                 /\ ~(host.routine = "RESET" /\ host.step > 1)
                 => Over("DISCONNECT", Bad, "FAILED"))
<1>1. host' = Concluded(IF status = "OK" THEN AfterOk ELSE AfterError(Bad), status = "OK")
  BY DEF Continue, Bad
<1>2. host.step \in Nat /\ Len(Routine[host.routine]) \in Nat
  BY RoutineFacts DEF Host
<1>11. /\ Bad \in {"OK", "ERROR", "ABORTED"} /\ host.status \in {"OK", "ERROR", "ABORTED"}
       /\ {"RESTORE", "RECOVER", "RESET", "DISCONNECT"} \subseteq Names \cup {"DISCONNECT"}
  BY NamesAre DEF Bad, Host
<1>3. ASSUME ~AtEnd, host' = Concluded(AfterOk, status = "OK")
      PROVE  Stepped
  <2>1. AfterOk = [host EXCEPT !.step = host.step + 1]
    BY <1>2, <1>3 DEF AfterOk, AtEnd
  <2>2. [host EXCEPT !.step = host.step + 1].routine = host.routine
    BY DEF Host
  <2> QED
    BY <1>3, <2>1, <2>2, Zenon DEF Concluded, Stepped
<1>4. ASSUME AtEnd, host' = Concluded(AfterOk, status = "OK")
      PROVE  Over(Following, host.status, End(status))
  <2>1. AfterOk = Goto(Following, host.status)
    BY <1>2, <1>4 DEF AfterOk, AtEnd
  <2>2. Following # host.routine /\ Following \in Names \cup {"DISCONNECT"}
    <3>1. host.job \in DOMAIN Job
      BY DEF Busy, Host
    <3>2. host.routine = "RECOVER" \/ InJob(host.job, host.routine)
      BY NamesAre DEF HostInv
    <3> QED
      BY <3>1, <3>2, FollowIs, PairsAre, NamesAre
  <2>3. host' = Concluded(Goto(Following, host.status), status = "OK")
    BY <1>4, <2>1
  <2> HIDE DEF Following
  <2> QED
    BY <1>11, <2>2, <2>3, OverIs
<1>5. CASE status = "OK"
  <2>1. host' = Concluded(AfterOk, status = "OK")
    BY <1>1, <1>5
  <2> QED
    BY <1>3, <1>4, <1>5, <2>1
<1>6. CASE status # "OK" /\ host.routine = "SELFTEST"
  <2>1. AfterError(Bad) = Goto("RESTORE", Bad)
    BY <1>6 DEF AfterError
  <2>2. host' = Concluded(Goto("RESTORE", Bad), status = "OK")
    BY <1>1, <1>6, <2>1
  <2>3. Over("RESTORE", Bad, End(status))
    BY <1>6, <1>11, <2>2, OverIs
  <2> QED
    BY <1>6, <2>3 DEF End
<1>7. CASE status # "OK" /\ host.routine = "RESTORE"
  <2>1. AfterError(Bad) = AfterOk
    BY <1>7 DEF AfterError
  <2>2. host' = Concluded(AfterOk, status = "OK")
    BY <1>1, <1>7, <2>1
  <2> QED
    BY <1>3, <1>4, <1>7, <2>2
<1>8. CASE status # "OK" /\ host.routine = "RESET" /\ host.step > 1
  <2>1. AfterError(Bad) = Goto("RECOVER", host.status)
    BY <1>8 DEF AfterError
  <2>2. host' = Concluded(Goto("RECOVER", host.status), status = "OK")
    BY <1>1, <1>8, <2>1
  <2>3. Over("RECOVER", host.status, End(status))
    BY <1>8, <1>11, <2>2, OverIs
  <2> QED
    BY <1>8, <2>3 DEF End
<1>9. CASE status # "OK" /\ host.routine = "DUMP"
  <2>1. AfterError(Bad) = Goto("RESET", Bad)
    BY <1>9 DEF AfterError
  <2>2. host' = Concluded(Goto("RESET", Bad), status = "OK")
    BY <1>1, <1>9, <2>1
  <2>3. Over("RESET", Bad, End(status))
    BY <1>9, <1>11, <2>2, OverIs
  <2> QED
    BY <1>9, <2>3 DEF End
<1>10. CASE status # "OK" /\ host.routine \notin {"SELFTEST", "RESTORE", "DUMP"}
            /\ ~(host.routine = "RESET" /\ host.step > 1)
  <2>1. AfterError(Bad) = Goto("DISCONNECT", Bad)
    BY <1>10 DEF AfterError
  <2>2. host' = Concluded(Goto("DISCONNECT", Bad), status = "OK")
    BY <1>1, <1>10, <2>1
  <2>3. Over("DISCONNECT", Bad, End(status))
    BY <1>10, <1>11, <2>2, OverIs, NamesAre
  <2> QED
    BY <1>10, <2>3 DEF End
<1> QED
  BY <1>5, <1>6, <1>7, <1>8, <1>9, <1>10

\* Which functions an operation has, as the others of its table imply.
LEMMA InJobNext ==
    ASSUME NEW j \in DOMAIN Job
    PROVE  /\ InJob(j, "CONNECT") /\ InJob(j, "RESET")
           /\ (InJob(j, "SELFTEST") => InJob(j, "RESTORE"))
<1> DEFINE s == Job[j]
           n == Len(s)
<1>1. /\ n \in 2 .. 11 /\ DOMAIN s = 1 .. n /\ s[1] = "CONNECT" /\ s[n] = "RESET"
      /\ \A k \in 1 .. n - 1 : <<s[k], s[k + 1]>> \in Pairs
  BY JobTable
<1> HIDE DEF s
<1>2. ASSUME NEW k \in 1 .. n, s[k] = "SELFTEST"
      PROVE  \E i \in 1 .. n : s[i] = "RESTORE"
  <2>1. k \in 1 .. n - 1 /\ k + 1 \in 1 .. n
    BY <1>1, <1>2
  <2>2. <<s[k], s[k + 1]>> \in Pairs
    BY <1>1, <2>1
  <2>3. s[k + 1] = "RESTORE"
    BY <1>2, <2>2 DEF Pairs
  <2> QED
    BY <2>1, <2>3
<1>3. 1 \in 1 .. n /\ n \in 1 .. n
  BY <1>1
<1> QED
  BY <1>1, <1>2, <1>3 DEF InJob, s

\* The end of a function keeps what is known of the host.
LEMMA OverKeeps ==
    ASSUME host \in Host, HostInv, Busy, host.routine \in Names \cup {"CONNECT"},
           NEW r \in Names \cup {"DISCONNECT"}, NEW st, NEW end, end # "PENDING",
           r \in {"RECOVER", "DISCONNECT"} \/ InJob(host.job, r),
           st = "OK" \/ r \in {"RESTORE", "RESET", "RECOVER", "DISCONNECT"},
           Over(r, st, end)
    PROVE  HostInv' /\ Busy'
<1>1. /\ host'.job = host.job /\ host'.routine = r /\ host'.step = FirstStep(r)
      /\ host'.status = st
      /\ (host.routine \in Command => host'.command = end)
      /\ (host.routine \notin Command => host'.command = host.command)
  BY DEF Over
<1>2. Busy' /\ Busy
  BY <1>1 DEF Busy
<1>3. FirstStep(r) \in 0 .. 1 /\ (FirstStep(r) = 0 <=> r \in Command \cup Stoppable)
  BY DEF FirstStep
<1>4. r # "CONNECT" /\ (r \in Names => Len(Routine[r]) \in 1 .. 20)
  BY NamesAre, RoutineFacts
<1>5. host'.command # "PENDING"
  BY <1>1 DEF HostInv
<1>6. ~(host'.routine \in Command /\ host'.step > 0)
  BY <1>1, <1>3
<1>7. host'.routine \in Names => host'.step <= Len(Routine[host'.routine])
  <2> DEFINE len == Len(Routine[r])
             step == FirstStep(r)
  <2>2. r \in Names => len \in 1 .. 20
    BY <1>4
  <2>3. step \in 0 .. 1
    BY <1>3
  <2> HIDE DEF len, step
  <2>1. r \in Names => step <= len
    BY <2>2, <2>3
  <2> QED
    BY <1>1, <2>1 DEF step, len
<1>8. host'.routine \notin {"RECOVER", "DISCONNECT"} => InJob(host'.job, host'.routine)
  BY <1>1
<1> QED
  BY <1>1, <1>2, <1>3, <1>4, <1>5, <1>6, <1>7, <1>8 DEF HostInv

\* So does going on to the next access.
LEMMA SteppedKeeps ==
    ASSUME host \in Host, HostInv, Busy, host.routine \in Names, host.step > 0, ~AtEnd, Stepped
    PROVE  /\ host' \in Host /\ HostInv' /\ Busy' /\ host'.job = host.job
           /\ host'.routine = host.routine /\ host'.step = host.step + 1
           /\ host'.status = host.status /\ host'.command = host.command
<1> DEFINE n == host.step + 1
<1>1. n \in 0 .. 20 /\ n > 0 /\ n <= Len(Routine[host.routine])
  <2> DEFINE len == Len(Routine[host.routine])
             step == host.step
  <2>1. len \in 1 .. 20 /\ step \in 0 .. 20
    BY RoutineFacts DEF Host
  <2>2. ~(step >= len)
    BY DEF AtEnd
  <2> HIDE DEF len, step
  <2>3. step + 1 \in 0 .. 20 /\ step + 1 > 0 /\ step + 1 <= len
    BY <2>1, <2>2
  <2> QED
    BY <2>3 DEF len, step
<1>0. host' = [host EXCEPT !.step = n]
  BY DEF Stepped
<1>3. n = host.step + 1
  OBVIOUS
<1> HIDE DEF n
<1>2. /\ host'.job = host.job /\ host'.routine = host.routine /\ host'.step = n
      /\ host'.status = host.status /\ host'.command = host.command
  BY <1>0 DEF Host
<1>4. host' \in Host
  BY <1>0, <1>1 DEF Host
<1>5. Busy' /\ host.routine # "CONNECT"
  BY <1>2, NamesAre DEF Busy
<1> QED
  BY <1>1, <1>2, <1>3, <1>4, <1>5 DEF HostInv

\* A step of a routine keeps the control in order.
LEMMA ContinueKeeps ==
    ASSUME host \in Host, HostInv, Busy, host.routine \in Names, host.step > 0,
           NEW status, Continue(status)
    PROVE  host' \in Host /\ HostInv' /\ Busy' /\ host'.job = host.job
<1>1. host.job \in DOMAIN Job /\ (host.routine = "RECOVER" \/ InJob(host.job, host.routine))
  BY NamesAre DEF HostInv, Busy, Host
<1>2. host.routine \in Names \cup {"CONNECT"} /\ "FAILED" # "PENDING" /\ End(status) # "PENDING"
  BY DEF End
<1>3. {"RESTORE", "RECOVER", "RESET", "DISCONNECT"} \subseteq Names \cup {"DISCONNECT"}
  BY NamesAre
<1>4. ASSUME NEW r \in Names \cup {"DISCONNECT"}, NEW st, NEW end, end # "PENDING",
             r \in {"RECOVER", "DISCONNECT"} \/ InJob(host.job, r),
             st = "OK" \/ r \in {"RESTORE", "RESET", "RECOVER", "DISCONNECT"},
             Over(r, st, end)
      PROVE  host' \in Host /\ HostInv' /\ Busy' /\ host'.job = host.job
  BY <1>2, <1>4, OverKeeps DEF Over
<1>5. CASE ~AtEnd /\ Stepped
  BY <1>5, SteppedKeeps
<1>6. CASE Over(Following, host.status, End(status))
  <2>1. /\ Following \in Names \cup {"DISCONNECT"}
        /\ Following \in {"RECOVER", "DISCONNECT"} \/ InJob(host.job, Following)
        /\ host.status = "OK" \/ Following = "DISCONNECT"
    BY <1>1, FollowIs, PairsAre
  <2> HIDE DEF Following
  <2> QED
    BY <1>2, <1>4, <1>6, <2>1
<1>7. CASE Over("RESTORE", Bad, "FAILED") /\ host.routine = "SELFTEST"
  <2>1. InJob(host.job, "RESTORE")
    BY <1>1, <1>7, InJobNext
  <2> QED
    BY <1>3, <1>4, <1>7, <2>1
<1>8. CASE Over("RECOVER", host.status, "FAILED")
  BY <1>3, <1>4, <1>8
<1>9. CASE Over("RESET", Bad, "FAILED")
  <2>1. InJob(host.job, "RESET")
    BY <1>1, InJobNext
  <2> QED
    BY <1>3, <1>4, <1>9, <2>1
<1>10. CASE Over("DISCONNECT", Bad, "FAILED")
  BY <1>3, <1>4, <1>10
<1> QED
  BY <1>5, <1>6, <1>7, <1>8, <1>9, <1>10, ContinueCases

-----------------------------------------------------------------------------
(***************************************************************************)
(* What a reset and a write on the bus do to the target.                   *)
(***************************************************************************)
LEMMA RestartIs ==
    ASSUME core \in Core, Restart
    PROVE  /\ core' \in Core /\ core'.chip = core.chip /\ core'.at = "APP"
           /\ core'.halted \in {"NO", core.halted}
           /\ (host.command = "PENDING" => ordered' = ordered)
           /\ (host.command # "PENDING" => ordered' = "NONE")
<1>1. PICK h \in {"NO", core.halted} :
        core' = [Powered(core.chip) EXCEPT !.debug = core.debug, !.halted = h]
  BY DEF Restart, Restarted
<1>2. h \in {"NO", "HOST", "BREAK"} /\ core.debug \in BOOLEAN /\ core.chip \in Chip
  BY DEF Core
<1>3. core' \in Core /\ core'.chip = core.chip /\ core'.at = "APP" /\ core'.halted = h
  BY <1>1, <1>2 DEF Powered, Core
<1> QED
  BY <1>3 DEF Restart

\* A write of the debug port on the target's bus, by what it addresses.
LEMMA BusCases ==
    ASSUME NEW a, NEW v, BusWrite(a, v)
    PROVE  /\ a \in Word => sram' = [sram EXCEPT ![a] = v]
           /\ (a \notin Word => sram' = sram)
           /\ foreign' = (foreign \/ (a \in Word /\ core.chip # Expected))
           /\ (a = "AIRCR" => Restart)
           /\ (a # "AIRCR" => ordered' = ordered)
           /\ (a = "DHCSR" => core' = [core EXCEPT !.debug = TRUE,
                                          !.halted = IF v = "HALT" THEN "HOST" ELSE "NO"])
           /\ (a = "DCRDR" => core' = [core EXCEPT !.dcrdr = v])
           /\ (a = "DCRSR" => core' = Registers(v))
           /\ (a \notin {"AIRCR", "DHCSR", "DCRDR", "DCRSR"} => core' = core)
<1>1. /\ (a \in Word => sram' = [sram EXCEPT ![a] = v]) /\ (a \notin Word => sram' = sram)
      /\ foreign' = (foreign \/ (a \in Word /\ core.chip # Expected))
  BY Zenon DEF BusWrite
<1>2. CASE a = "AIRCR"
  <2>1. Restart
    BY <1>2, Zenon DEF BusWrite
  <2> QED
    BY <1>1, <1>2, <2>1
<1>3. CASE a = "DHCSR"
  <2>1. /\ core' = [core EXCEPT !.debug = TRUE, !.halted = IF v = "HALT" THEN "HOST" ELSE "NO"]
        /\ UNCHANGED ordered
    BY <1>3, Zenon DEF BusWrite
  <2> QED
    BY <1>1, <1>3, <2>1
<1>4. CASE a = "DCRDR"
  <2>1. core' = [core EXCEPT !.dcrdr = v] /\ UNCHANGED ordered
    BY <1>4, Zenon DEF BusWrite
  <2> QED
    BY <1>1, <1>4, <2>1
<1>5. CASE a = "DCRSR"
  <2>1. core' = Registers(v) /\ UNCHANGED ordered
    BY <1>5, Zenon DEF BusWrite
  <2> QED
    BY <1>1, <1>5, <2>1
<1>6. CASE a \notin {"AIRCR", "DHCSR", "DCRDR", "DCRSR"}
  <2>1. UNCHANGED <<core, ordered>>
    BY <1>6, Zenon DEF BusWrite
  <2> QED
    BY <1>1, <1>6, <2>1
<1> QED
  BY <1>2, <1>3, <1>4, <1>5, <1>6

\* Writing a core register leaves the chip and keeps the core's type.
LEMMA RegistersIs ==
    ASSUME core \in Core, NEW reg \in {"MSP", "R0", "PC"}
    PROVE  /\ Registers(reg) \in Core /\ Registers(reg).chip = core.chip
           /\ Registers(reg).halted = core.halted
           /\ (core.halted = "NO" => Registers(reg) = core)
           /\ (core.halted # "NO" =>
                 /\ Registers(reg).at = (IF reg = "PC" THEN "LOADER" ELSE core.at)
                 /\ Registers(reg).stage = (IF reg = "PC" THEN "ENTRY" ELSE core.stage))
<1>1. CASE core.halted = "NO"
  BY <1>1 DEF Registers
<1>2. CASE core.halted # "NO"
  <2> DEFINE rs == IF core.dcrdr = reg THEN core.regs \cup {reg} ELSE core.regs \ {reg}
             at == IF reg = "PC" THEN "LOADER" ELSE core.at
             stage == IF reg = "PC" THEN "ENTRY" ELSE core.stage
  <2>1. Registers(reg) = [core EXCEPT !.regs = rs, !.at = at, !.stage = stage]
    BY <1>2, Zenon DEF Registers
  <2>2. rs \in SUBSET {"MSP", "R0", "PC"}
    BY DEF Core
  <2>3. at \in {"APP", "LOADER"} /\ stage \in {"ENTRY", "BUSY", "HALF", "PASSED", "FAILED", "REPORTED"}
    BY DEF Core
  <2> HIDE DEF rs, at, stage
  <2>4. /\ Registers(reg) \in Core /\ Registers(reg).chip = core.chip
        /\ Registers(reg).halted = core.halted
        /\ Registers(reg).at = at /\ Registers(reg).stage = stage
    BY <2>1, <2>2, <2>3 DEF Core
  <2> QED
    BY <1>2, <2>4 DEF at, stage
<1> QED
  BY <1>1, <1>2

\* The core after a write on the bus.
LEMMA BusCore ==
    ASSUME core \in Core, NEW s \in Accesses, s.op = "WRITE", NEW a \in {s.at, NoAddress},
           BusWrite(a, s.value)
    PROVE  /\ core' \in Core /\ core'.chip = core.chip
           /\ (a \notin {"AIRCR", "DCRSR"} => core'.at = core.at /\ core'.stage = core.stage)
           /\ (a \notin {"AIRCR", "DHCSR"} => core'.halted = core.halted)
           /\ (a = "DHCSR" => core'.halted = IF s.value = "HALT" THEN "HOST" ELSE "NO")
           /\ (a = "DCRSR" /\ (core.halted = "NO" \/ s.value # "PC") =>
                  core'.at = core.at /\ core'.stage = core.stage)
           /\ (a = "DCRSR" /\ core.halted # "NO" /\ s.value = "PC" =>
                  core'.at = "LOADER" /\ core'.stage = "ENTRY")
<1>0. NoAddress \notin {"AIRCR", "DHCSR", "DCRDR", "DCRSR"}
  BY WordsAre DEF Register
<1>1. CASE a = "AIRCR"
  BY <1>1, BusCases, RestartIs
<1>2. CASE a = "DHCSR"
  <2> DEFINE h == IF s.value = "HALT" THEN "HOST" ELSE "NO"
  <2>1. core' = [core EXCEPT !.debug = TRUE, !.halted = h]
    BY <1>2, BusCases
  <2>2. h \in {"NO", "HOST", "BREAK"}
    OBVIOUS
  <2> HIDE DEF h
  <2>3. /\ core' \in Core /\ core'.chip = core.chip /\ core'.at = core.at
        /\ core'.stage = core.stage /\ core'.halted = h
    BY <2>1, <2>2 DEF Core
  <2> QED
    BY <1>2, <2>3 DEF h
<1>3. CASE a = "DCRDR"
  <2>1. core' = [core EXCEPT !.dcrdr = s.value]
    BY <1>3, BusCases
  <2>2. s.value \in {"MSP", "R0", "PC"}
    BY <1>0, <1>3 DEF Accesses
  <2>3. /\ core' \in Core /\ core'.chip = core.chip /\ core'.at = core.at
        /\ core'.stage = core.stage /\ core'.halted = core.halted
    BY <2>1, <2>2 DEF Core
  <2> QED
    BY <1>3, <2>3
<1>4. CASE a = "DCRSR"
  <2>1. core' = Registers(s.value)
    BY <1>4, BusCases
  <2>2. s.value \in {"MSP", "R0", "PC"}
    BY <1>0, <1>4 DEF Accesses
  <2> QED
    BY <1>4, <2>1, <2>2, RegistersIs
<1>5. CASE a \notin {"AIRCR", "DHCSR", "DCRDR", "DCRSR"}
  BY <1>5, BusCases
<1> QED
  BY <1>1, <1>2, <1>3, <1>4, <1>5

\* The words after a write on the bus.
LEMMA BusWords ==
    ASSUME sram \in [Word -> Value], NEW s \in Accesses, s.op = "WRITE",
           NEW a \in {s.at, NoAddress}, BusWrite(a, s.value)
    PROVE  /\ sram' \in [Word -> Value]
           /\ \A w \in Word : sram'[w] = IF w = a THEN s.value ELSE sram[w]
<1>1. NoAddress \notin Word
  BY WordsAre
<1>2. CASE a \in Word
  <2>1. sram' = [sram EXCEPT ![a] = s.value]
    BY <1>2, BusCases, ZenonT(60)
  <2>2. s.value \in Value
    BY <1>1, <1>2 DEF Accesses
  <2> HIDE DEF Word, Value
  <2> QED
    BY <1>2, <2>1, <2>2
<1>3. CASE a \notin Word
  <2>1. sram' = sram
    BY <1>3, BusCases
  <2> QED
    BY <1>3, <2>1
<1> QED
  BY <1>2, <1>3

-----------------------------------------------------------------------------
(***************************************************************************)
(* The control of the operation and the port: types, pins, progress.       *)
(***************************************************************************)
PortInv ==
    /\ port.connected => Aimed(port)
    /\ (~port.present => port.line = "OFF")
    /\ (~Busy => ~port.enabled /\ ~port.nreset /\ ~port.connected)

Control == TypeOK /\ HostInv /\ PortInv

\* An access leaves the pins and the session alone.
Shifted(p, o) ==
    /\ o \in Port /\ But(p, o, Moved \cup {"selected"}) /\ Off(p, o)
    /\ p.connected => Aimed(o)

\* Where the host is while it does an access.
LEMMA DoingIs ==
    ASSUME TypeOK, HostInv, NEW op, Doing(op)
    PROVE  /\ Busy /\ host.routine \in Names /\ host.step > 0
           /\ host.step \in 1 .. Len(Routine[host.routine])
           /\ Current \in Accesses /\ Current.op = op
           /\ (host.routine \in {"HALT", "IDENTIFY", "RESET", "RECOVER"} => Current \in Harmless)
<1>1. Busy /\ host.routine \in Names /\ host.step > 0 /\ Current.op = op
  BY DEF Doing, Names
<1>2. host.step \in 1 .. Len(Routine[host.routine])
  <2> DEFINE n == host.step
             len == Len(Routine[host.routine])
  <2>1. n \in 0 .. 20 /\ len \in 1 .. 20 /\ n > 0 /\ n <= len
    BY <1>1, RoutineFacts DEF TypeOK, Host, HostInv
  <2> HIDE DEF n, len
  <2>2. n \in 1 .. len
    BY <2>1
  <2> QED
    BY <2>2 DEF n, len
<1> QED
  BY <1>1, <1>2, RoutineFacts DEF Current

Wrote(t) ==
    /\ Reaches(port, Current.at, t) /\ port' = t.port
    /\ BusWrite(t.port.hit, Current.value) /\ Continue(t.status)
    /\ t.port.hit \in {Current.at, NoAddress}
    /\ (t.status = "OK" => Linked(port) /\ ~port.sticky /\ (t.port.hit = Current.at \/ t.port.sticky))

\* A write, a read and a poll, as what they do to the port and the host.
LEMMA WriteStepIs ==
    ASSUME TypeOK, HostInv, PortInv, WriteStep
    PROVE  Doing("WRITE") /\ UNCHANGED <<flash, events, progress>> /\ \E t : Wrote(t)
<1>1. Doing("WRITE") /\ UNCHANGED <<flash, events, progress>>
  BY DEF WriteStep
<1>2. Current \in Accesses /\ Current.op = "WRITE"
  BY <1>1, DoingIs
<1>3. Current.at \in Address
  BY <1>2 DEF Accesses
<1>4. PICK t \in MemWrite(port, Current.at) :
        /\ port' = t.port /\ BusWrite(t.port.hit, Current.value) /\ Continue(t.status)
  BY Zenon DEF WriteStep
<1>5. port \in Port /\ (port.connected => Aimed(port))
  BY DEF TypeOK, PortInv
<1>6. /\ Reaches(port, Current.at, t)
      /\ (t.status = "OK" => Linked(port) /\ ~port.sticky /\ (t.port.hit = Current.at \/ t.port.sticky))
  BY <1>3, <1>4, <1>5, MemWriteCases
<1> QED
  BY <1>1, <1>4, <1>6 DEF Wrote, Reaches

Took(t, status) ==
    /\ Reaches(port, Current.at, t) /\ port' = t.port /\ Continue(status)
    /\ (status = "OK" => Linked(port) /\ ~port.sticky /\ t.port.hit = Current.at
                         /\ Held(Current.at) \in Current.accept)

LEMMA ReadStepIs ==
    ASSUME TypeOK, HostInv, PortInv, ReadStep
    PROVE  Doing("READ") /\ UNCHANGED <<target, events, history>> /\ \E t, status : Took(t, status)
<1>1. Doing("READ") /\ UNCHANGED <<target, events, history>>
  BY DEF ReadStep
<1>2. Current \in Accesses /\ Current.op = "READ"
  BY <1>1, DoingIs
<1>3. Current.at \in Address
  BY <1>2 DEF Accesses
<1>4. PICK t \in MemRead(port, Current.at) :
        /\ port' = t.port
        /\ Continue(IF t.status = "OK" /\ Held(t.value) \notin Current.accept
                    THEN "VERIFY" ELSE t.status)
  BY Zenon DEF ReadStep
<1> DEFINE status == IF t.status = "OK" /\ Held(t.value) \notin Current.accept
                     THEN "VERIFY" ELSE t.status
<1>5. port \in Port /\ (port.connected => Aimed(port))
  BY DEF TypeOK, PortInv
<1>6. /\ Reaches(port, Current.at, t)
      /\ (t.status = "OK" => Linked(port) /\ ~port.sticky /\ t.value = Current.at
                             /\ t.port.hit = Current.at)
  BY <1>3, <1>4, <1>5, MemReadCases
<1>7. status = "OK" => t.status = "OK" /\ Held(t.value) \in Current.accept
  OBVIOUS
<1>8. Continue(status)
  BY <1>4
<1> HIDE DEF status
<1>9. Took(t, status)
  BY <1>4, <1>6, <1>7, <1>8 DEF Took
<1> QED
  BY <1>1, <1>9

Polled(t, status) ==
    /\ Continue(status)
    /\ (status = "OK" => /\ Linked(port) /\ ~port.sticky
                         /\ \E bit \in DhcsrBit(Current.value) : bit \in Current.accept)

LEMMA PollStepIs ==
    ASSUME TypeOK, HostInv, PortInv, PollStep
    PROVE  /\ Doing("POLL") /\ UNCHANGED <<target, events, history>>
           /\ \E t : /\ Reaches(port, "DHCSR", t) /\ port' = t.port
                     /\ \/ UNCHANGED host /\ Linked(port) /\ ~port.sticky
                        \/ \E status : Polled(t, status)
<1>1. Doing("POLL") /\ UNCHANGED <<target, events, history>>
  BY DEF PollStep
<1>2. PICK t \in MemRead(port, "DHCSR") :
        /\ port' = t.port
        /\ IF t.status # "OK" THEN Continue(t.status)
           ELSE \E value \in IF t.value = "DHCSR" THEN DhcsrBit(Current.value) ELSE BOOLEAN :
                IF value \in Current.accept THEN Continue("OK")
                ELSE UNCHANGED host \/ Continue("TIMEOUT")
  BY Zenon DEF PollStep
<1>3. "DHCSR" \in Address /\ port \in Port /\ (port.connected => Aimed(port))
  BY WordsAre DEF TypeOK, PortInv, Register
<1>4. /\ Reaches(port, "DHCSR", t)
      /\ (t.status = "OK" => Linked(port) /\ ~port.sticky /\ t.value = "DHCSR")
  BY <1>2, <1>3, MemReadCases
<1>5. CASE t.status # "OK"
  <2>1. Continue(t.status)
    BY <1>2, <1>5
  <2>2. Polled(t, t.status)
    BY <1>5, <2>1 DEF Polled
  <2> QED
    BY <1>1, <1>2, <1>4, <2>2
<1>6. CASE t.status = "OK"
  <2>1. PICK value \in DhcsrBit(Current.value) :
          IF value \in Current.accept THEN Continue("OK")
          ELSE UNCHANGED host \/ Continue("TIMEOUT")
    <3>1. t.value = "DHCSR"
      BY <1>4, <1>6
    <3>2. \E value \in IF t.value = "DHCSR" THEN DhcsrBit(Current.value) ELSE BOOLEAN :
            IF value \in Current.accept THEN Continue("OK")
            ELSE UNCHANGED host \/ Continue("TIMEOUT")
      BY <1>2, <1>6, Zenon
    <3> QED
      BY <3>1, <3>2, Zenon
  <2>2. CASE value \in Current.accept
    <3>1. Continue("OK")
      BY <2>1, <2>2
    <3>2. Polled(t, "OK")
      BY <1>4, <1>6, <2>2, <3>1 DEF Polled
    <3> QED
      BY <1>1, <1>2, <1>4, <3>2
  <2>3. CASE UNCHANGED host
    BY <1>1, <1>2, <1>4, <1>6, <2>3
  <2>4. CASE Continue("TIMEOUT")
    <3>1. Polled(t, "TIMEOUT")
      BY <2>4 DEF Polled
    <3> QED
      BY <1>1, <1>2, <1>4, <3>1
  <2> QED
    BY <2>1, <2>2, <2>3, <2>4
<1> QED
  BY <1>5, <1>6

\* What an access did to the port, seen from the state.
LEMMA ReachShifts ==
    ASSUME NEW a, NEW t, Reaches(port, a, t), port' = t.port
    PROVE  Shifted(port, port')
BY DEF Reaches, Shifted, Outcome

-----------------------------------------------------------------------------
(***************************************************************************)
(* The steps of the target's core.                                         *)
(***************************************************************************)
Words == [Word -> Value]

\* The steps of the loader, of the application and of the user, one after the other.
LEMMA ReportsIs ==
    ASSUME core \in Core, sram \in Words, NEW result \in {"OK", "BAD"}, LoaderReports(result)
    PROVE  /\ core' \in Core /\ core'.chip = core.chip /\ core'.at = core.at
           /\ core'.halted = "BREAK" /\ core'.stage = "REPORTED"
           /\ sram' \in Words
           /\ sram'["status"] = (IF result = "OK" THEN "DONE" ELSE "ERROR")
           /\ \A w \in Word \ {"status", "result"} : sram'[w] = sram[w]
<1>1. core' = [core EXCEPT !.halted = "BREAK", !.stage = "REPORTED"]
  BY DEF LoaderReports
<1>2. /\ core' \in Core /\ core'.chip = core.chip /\ core'.at = core.at
      /\ core'.halted = "BREAK" /\ core'.stage = "REPORTED"
  BY <1>1 DEF Core
<1> DEFINE report == IF result = "OK" THEN "DONE" ELSE "ERROR"
<1>3. sram' = [sram EXCEPT !["result"] = result, !["status"] = report]
  BY DEF LoaderReports
<1>4. report \in Value /\ result \in Value /\ {"status", "result"} \subseteq Word
  BY DEF Value, Word, Mailbox
<1> HIDE DEF report
<1> HIDE DEF Value, Word
<1>5. /\ sram' \in Words /\ sram'["status"] = report
      /\ \A w \in Word \ {"status", "result"} : sram'[w] = sram[w]
  BY <1>3, <1>4 DEF Words
<1> QED
  BY <1>2, <1>5 DEF report

LEMMA LoaderStartIs ==
    ASSUME core \in Core, sram \in Words, LoaderStart
    PROVE  /\ core.at = "LOADER" /\ core.stage = "ENTRY" /\ core.halted = "NO"
           /\ UNCHANGED <<port, flash, host, events, history>>
           /\ core' \in Core /\ core'.chip = core.chip /\ sram' \in Words
           /\ \/ core'.at = "APP" /\ core'.halted = "NO" /\ sram' = sram
              \/ /\ core'.at = "LOADER" /\ core'.halted = "BREAK" /\ core'.stage = "REPORTED"
                 /\ sram'["status"] = "ERROR" /\ sram'["command"] = sram["command"]
              \/ /\ core'.at = "LOADER" /\ core'.halted = "NO" /\ core'.stage = "BUSY"
                 /\ sram'["status"] = "BUSY" /\ sram'["command"] = sram["command"]
<1>1. /\ core.at = "LOADER" /\ core.stage = "ENTRY" /\ core.halted = "NO"
      /\ UNCHANGED <<port, flash, host, events, history>>
  BY DEF LoaderStart, Runs
<1> DEFINE gone == sram["code"] # "BLOB" \/ core.regs # {"MSP", "R0", "PC"}
           bad == sram["code"] = "BLOB" /\ core.regs = {"MSP", "R0", "PC"} /\ sram["magic"] # "MAGIC"
<1>2. CASE gone
  <2>1. core' = [core EXCEPT !.at = "APP"] /\ UNCHANGED sram
    BY <1>2, Zenon DEF LoaderStart
  <2>2. core' \in Core /\ core'.chip = core.chip /\ core'.at = "APP" /\ core'.halted = "NO"
    BY <1>1, <2>1 DEF Core
  <2> QED
    BY <1>1, <2>1, <2>2
<1>3. CASE bad
  <2>1. LoaderReports("BAD")
    BY <1>3, Zenon DEF LoaderStart
  <2>2. "command" \in Word \ {"status", "result"}
    BY DEF Word, Mailbox
  <2> QED
    BY <1>1, <2>1, <2>2, ReportsIs
<1>4. CASE ~gone /\ ~bad
  <2>1. sram' = [sram EXCEPT !["status"] = "BUSY"] /\ core' = [core EXCEPT !.stage = "BUSY", !.regs = {}]
    BY <1>4, Zenon DEF LoaderStart
  <2>2. /\ core' \in Core /\ core'.chip = core.chip /\ core'.at = "LOADER"
        /\ core'.halted = "NO" /\ core'.stage = "BUSY"
    BY <1>1, <2>1 DEF Core
  <2>3. "BUSY" \in Value /\ "status" \in Word /\ "command" \in Word
    BY DEF Value, Word, Mailbox
  <2> HIDE DEF Value, Word
  <2>4. sram' \in Words /\ sram'["status"] = "BUSY" /\ sram'["command"] = sram["command"]
    BY <2>1, <2>3 DEF Words
  <2> QED
    BY <1>1, <2>2, <2>4
<1> QED
  BY <1>2, <1>3, <1>4

\* The flash after half a command and after all of it.
LEMMA FlashIs ==
    ASSUME flash \in [Sector -> Content], NEW c \in Command
    PROVE  /\ [s \in Sector |-> IF s \in DOMAIN Writes[c] THEN "GARBAGE" ELSE flash[s]]
                 \in [Sector -> Content]
           /\ [s \in Sector |-> IF s \in DOMAIN Writes[c] THEN Writes[c][s] ELSE flash[s]]
                 \in [Sector -> Content]
           /\ 2 \notin DOMAIN Writes[c]
<1>1. Writes["PROBE"] = <<>> /\ Writes["ERASE"] = <<"ERASED">> /\ Writes["PROGRAM"] = <<"IMAGE">>
  BY Zenon DEF Writes, Command
<1>2. /\ DOMAIN Writes[c] \subseteq {1}
      /\ (1 \in DOMAIN Writes[c] => Writes[c][1] \in {"ERASED", "IMAGE"})
  BY <1>1 DEF Command
<1> HIDE DEF Writes
<1> QED
  BY <1>2 DEF Content, Sector

LEMMA LoaderBeginsIs ==
    ASSUME core \in Core, sram \in Words, flash \in [Sector -> Content], LoaderBegins
    PROVE  /\ core.at = "LOADER" /\ core.stage = "BUSY" /\ core.halted = "NO"
           /\ UNCHANGED <<port, host, events, ordered, foreign>>
           /\ core' \in Core /\ core'.chip = core.chip /\ core'.at = "LOADER"
           /\ sram' \in Words /\ flash' \in [Sector -> Content] /\ flash'[2] = flash[2]
           /\ \/ /\ sram["command"] \in Command /\ sram' = sram
                 /\ core'.stage = "HALF" /\ core'.halted = "NO" /\ progress' = "BEGUN"
                 /\ flash' = [s \in Sector |-> IF s \in DOMAIN Writes[sram["command"]]
                                               THEN "GARBAGE" ELSE flash[s]]
              \/ /\ core'.stage = "REPORTED" /\ core'.halted = "BREAK" /\ progress' = progress
                 /\ sram'["status"] = "ERROR" /\ sram'["command"] = sram["command"]
                 /\ flash' = flash
<1>1. /\ core.at = "LOADER" /\ core.stage = "BUSY" /\ core.halted = "NO"
      /\ UNCHANGED <<port, host, events, ordered, foreign>>
  BY DEF LoaderBegins, Runs
<1>2. CASE Executable(sram["command"])
  <2>1. /\ core' = [core EXCEPT !.stage = "HALF"] /\ progress' = "BEGUN"
        /\ flash' = [s \in Sector |-> IF s \in DOMAIN Writes[sram["command"]]
                                      THEN "GARBAGE" ELSE flash[s]]
        /\ UNCHANGED sram
    BY <1>2, Zenon DEF LoaderBegins
  <2>2. /\ core' \in Core /\ core'.chip = core.chip /\ core'.at = "LOADER"
        /\ core'.stage = "HALF" /\ core'.halted = "NO"
    BY <1>1, <2>1 DEF Core
  <2>3. sram["command"] \in Command
    BY <1>2 DEF Executable
  <2>4. flash' \in [Sector -> Content] /\ flash'[2] = flash[2]
    <3>1. flash' \in [Sector -> Content] /\ 2 \notin DOMAIN Writes[sram["command"]]
      BY <2>1, <2>3, FlashIs
    <3> QED
      BY <2>1, <3>1 DEF Sector
  <2> QED
    BY <1>1, <2>1, <2>2, <2>3, <2>4
<1>3. CASE ~Executable(sram["command"])
  <2>1. LoaderReports("BAD") /\ UNCHANGED <<flash, progress>>
    BY <1>3, Zenon DEF LoaderBegins
  <2>2. "command" \in Word \ {"status", "result"}
    BY DEF Word, Mailbox
  <2> QED
    BY <1>1, <2>1, <2>2, ReportsIs
<1> QED
  BY <1>2, <1>3

LEMMA LoaderFinishesIs ==
    ASSUME core \in Core, sram \in Words, flash \in [Sector -> Content], LoaderFinishes,
           sram["command"] \in Command
    PROVE  /\ core.at = "LOADER" /\ core.stage = "HALF" /\ core.halted = "NO"
           /\ UNCHANGED <<port, sram, host, events, ordered, foreign>>
           /\ core' \in Core /\ core'.chip = core.chip /\ core'.at = "LOADER" /\ core'.halted = "NO"
           /\ flash' \in [Sector -> Content] /\ flash'[2] = flash[2]
           /\ \/ /\ core'.stage = "PASSED" /\ progress' = "DONE"
                 /\ \/ flash' = [s \in Sector |-> IF s \in DOMAIN Writes[sram["command"]]
                                                  THEN Writes[sram["command"]][s] ELSE flash[s]]
                    \/ flash' = flash
              \/ core'.stage = "FAILED" /\ progress' = progress /\ flash' = flash
<1>1. /\ core.at = "LOADER" /\ core.stage = "HALF" /\ core.halted = "NO"
      /\ UNCHANGED <<port, sram, host, events, ordered, foreign>>
  BY DEF LoaderFinishes, Runs
<1>2. CASE /\ core' = [core EXCEPT !.stage = "PASSED"] /\ progress' = "DONE"
           /\ \/ flash' = [s \in Sector |-> IF s \in DOMAIN Writes[sram["command"]]
                                            THEN Writes[sram["command"]][s] ELSE flash[s]]
              \/ UNCHANGED flash
  <2>1. /\ core' \in Core /\ core'.chip = core.chip /\ core'.at = "LOADER"
        /\ core'.stage = "PASSED" /\ core'.halted = "NO"
    BY <1>1, <1>2 DEF Core
  <2>2. flash' \in [Sector -> Content] /\ flash'[2] = flash[2]
    <3>1. CASE flash' = [s \in Sector |-> IF s \in DOMAIN Writes[sram["command"]]
                                          THEN Writes[sram["command"]][s] ELSE flash[s]]
      <4>1. flash' \in [Sector -> Content] /\ 2 \notin DOMAIN Writes[sram["command"]]
        BY <3>1, FlashIs
      <4> QED
        BY <3>1, <4>1 DEF Sector
    <3> QED
      BY <1>2, <3>1
  <2> QED
    BY <1>1, <1>2, <2>1, <2>2
<1>3. CASE core' = [core EXCEPT !.stage = "FAILED"] /\ UNCHANGED <<flash, progress>>
  <2>1. /\ core' \in Core /\ core'.chip = core.chip /\ core'.at = "LOADER"
        /\ core'.stage = "FAILED" /\ core'.halted = "NO"
    BY <1>1, <1>3 DEF Core
  <2> QED
    BY <1>1, <1>3, <2>1
<1> QED
  BY <1>2, <1>3, Zenon DEF LoaderFinishes

LEMMA LoaderEndsIs ==
    ASSUME core \in Core, sram \in Words, LoaderEnds
    PROVE  /\ core.at = "LOADER" /\ core.stage \in {"PASSED", "FAILED"} /\ core.halted = "NO"
           /\ UNCHANGED <<port, flash, host, events, history>>
           /\ core' \in Core /\ core'.chip = core.chip /\ core'.at = "LOADER"
           /\ core'.stage = "REPORTED" /\ core'.halted = "BREAK"
           /\ sram' \in Words /\ sram'["command"] = sram["command"]
           /\ sram'["status"] = (IF core.stage = "PASSED" THEN "DONE" ELSE "ERROR")
<1>1. /\ core.at = "LOADER" /\ core.stage \in {"PASSED", "FAILED"} /\ core.halted = "NO"
      /\ UNCHANGED <<port, flash, host, events, history>>
  BY DEF LoaderEnds, Runs
<1> DEFINE result == IF core.stage = "PASSED" THEN "OK" ELSE "BAD"
<1>2. LoaderReports(result) /\ result \in {"OK", "BAD"} /\ (result = "OK" <=> core.stage = "PASSED")
  BY DEF LoaderEnds
<1>3. "command" \in Word \ {"status", "result"}
  BY DEF Word, Mailbox
<1> HIDE DEF result
<1> QED
  BY <1>1, <1>2, <1>3, ReportsIs

LEMMA AppWritesIs ==
    ASSUME AppWrites
    PROVE  /\ core.at = "APP" /\ sram' \in Words /\ \A w \in Word : sram'[w] = "GARBAGE"
           /\ UNCHANGED <<port, core, flash, host, events, history>>
<1>1. core.at = "APP" /\ sram' = [w \in Word |-> "GARBAGE"]
      /\ UNCHANGED <<port, core, flash, host, events, history>>
  BY DEF AppWrites, Runs
<1>2. "GARBAGE" \in Value
  BY DEF Value
<1> HIDE DEF Word, Value
<1> QED
  BY <1>1, <1>2 DEF Words

LEMMA AppBreakIs ==
    ASSUME core \in Core, AppBreak
    PROVE  /\ core.at = "APP" /\ core' \in Core /\ core'.chip = core.chip /\ core'.at = "APP"
           /\ core'.halted = "BREAK"
           /\ UNCHANGED <<port, sram, flash, host, events, history>>
<1>1. core.at = "APP" /\ core' = [core EXCEPT !.halted = "BREAK"]
      /\ UNCHANGED <<port, sram, flash, host, events, history>>
  BY DEF AppBreak, Runs
<1> QED
  BY <1>1 DEF Core

-----------------------------------------------------------------------------
(***************************************************************************)
(* Types and control are kept by every step.                               *)
(***************************************************************************)
LEMMA PortKeeps ==
    ASSUME PortInv, Busy, Busy', Shifted(port, port')
    PROVE  PortInv' /\ port' \in Port
<1>1. /\ port' \in Port /\ (port.connected => Aimed(port')) /\ port'.connected = port.connected
      /\ port'.present = port.present /\ (port.line = "OFF" => port'.line = "OFF")
  BY DEF Shifted, But, Field, Moved, Off
<1>2. Aimed(port)' <=> Aimed(port')
  BY DEF Aimed
<1> QED
  BY <1>1, <1>2 DEF PortInv

\* A step that leaves the port, or the host, keeps what is known of it.
LEMMA SamePort ==
    ASSUME PortInv, port' = port, host' = host \/ Busy'
    PROVE  PortInv'
BY DEF PortInv, Aimed, Busy

LEMMA SameHost ==
    ASSUME HostInv, host' = host
    PROVE  HostInv' /\ (Busy' <=> Busy)
BY DEF HostInv, Busy

\* The user's words: a chip and a state that are of the types.
LEMMA PlugIs ==
    ASSUME port \in Port, PortInv, NEW chip \in Chip, Plug(chip)
    PROVE  /\ ~port.present /\ port.line = "OFF"
           /\ port' \in Port /\ But(port, port', {"present"}) /\ port'.present
           /\ core' \in Core /\ core'.chip = chip /\ core'.at = "APP" /\ core'.halted = "NO"
           /\ sram' \in Words /\ \A w \in Word : sram'[w] = "GARBAGE"
           /\ flash' \in [Sector -> Content] /\ flash'[2] = "OLD"
           /\ ordered' = "NONE" /\ progress' = "NONE" /\ foreign' = FALSE
           /\ UNCHANGED <<host, events>>
<1>1. /\ ~port.present /\ port.line = "OFF" /\ port' = [port EXCEPT !.present = TRUE]
      /\ core' = Powered(chip) /\ sram' = [w \in Word |-> "GARBAGE"]
      /\ flash' = [s \in Sector |-> "OLD"]
      /\ ordered' = "NONE" /\ progress' = "NONE" /\ foreign' = FALSE
      /\ UNCHANGED <<host, events>>
  BY DEF Plug, PortInv
<1>2. port' \in Port /\ But(port, port', {"present"}) /\ port'.present
  <2>1. port' = [port EXCEPT !.present = TRUE]
    BY <1>1
  <2> QED
    BY <2>1 DEF Port, But, Field
<1>3. core' \in Core /\ core'.chip = chip /\ core'.at = "APP" /\ core'.halted = "NO"
  <2>1. core' = Powered(chip)
    BY <1>1
  <2> QED
    BY <2>1 DEF Powered, Core
<1>4. "GARBAGE" \in Value /\ "OLD" \in Content /\ 2 \in Sector
  BY DEF Value, Content, Sector
<1> HIDE DEF Word, Value, Sector, Content
<1>5. /\ sram' \in Words /\ (\A w \in Word : sram'[w] = "GARBAGE")
      /\ flash' \in [Sector -> Content] /\ flash'[2] = "OLD"
  BY <1>1, <1>4 DEF Words
<1> QED
  BY <1>1, <1>2, <1>3, <1>5

\* The user's two actions.
LEMMA UnplugIs ==
    ASSUME port \in Port, events \in 0 .. MaxEvents, Unplug
    PROVE  /\ port' \in Port /\ ~port'.present /\ port'.line = "OFF"
           /\ But(port, port', {"present", "line", "sticky", "bank", "power", "word", "tar", "posted"})
           /\ port'.bank = "MEM" /\ events' \in 0 .. MaxEvents
           /\ UNCHANGED <<target, host, history>>
<1>1. /\ port' = PowerLost(port) /\ events < MaxEvents /\ events' = events + 1
      /\ UNCHANGED <<target, host, history>>
  BY DEF Unplug
<1>2. events' \in 0 .. MaxEvents
  BY <1>1, LoaderAssumption
<1>3. /\ port' \in Port /\ ~port'.present /\ port'.line = "OFF" /\ port'.bank = "MEM"
      /\ But(port, port', {"present", "line", "sticky", "bank", "power", "word", "tar", "posted"})
  <2>1. port' = PowerLost(port)
    BY <1>1
  <2>2. /\ ~port'.present /\ port'.line = "OFF" /\ port'.bank = "MEM"
        /\ port'.enabled = port.enabled /\ port'.nreset = port.nreset
        /\ port'.selected = port.selected /\ port'.connected = port.connected
        /\ port'.hit = port.hit /\ port'.noise = port.noise
    BY <2>1 DEF PowerLost, Port
  <2>3. port' \in Port
    <3> DEFINE o == [port EXCEPT !.present = FALSE, !.line = "OFF", !.sticky = FALSE, !.bank = "MEM"]
    <3>1. o \in Port
      BY DEF Port, Bank
    <3>2. port' = [o EXCEPT !.power = FALSE, !.word = FALSE, !.tar = NoAddress, !.posted = "NOTHING"]
      BY <2>1 DEF PowerLost
    <3>3. NoAddress \in Slot /\ "NOTHING" \in Got
      BY DEF Slot, Got, Token
    <3> HIDE DEF o
    <3> DEFINE u == [o EXCEPT !.power = FALSE, !.word = FALSE]
    <3>4. u \in Port
      BY ZenonT(60), <3>1 DEF Port
    <3>5. port' = [u EXCEPT !.tar = NoAddress, !.posted = "NOTHING"]
      BY <3>2
    <3> HIDE DEF u
    <3> QED
      BY <3>3, <3>4, <3>5 DEF Port, Slot, Got
  <2> QED
    BY <2>2, <2>3 DEF But, Field
<1> QED
  BY <1>1, <1>2, <1>3

LEMMA ResetButtonIs ==
    ASSUME core \in Core, events \in 0 .. MaxEvents, ResetButton
    PROVE  /\ Restart /\ events' \in 0 .. MaxEvents
           /\ UNCHANGED <<port, sram, flash, host, progress, foreign>>
BY LoaderAssumption DEF ResetButton

\* The user, the core and the host keep Control.
LEMMA UserControl ==
    ASSUME Control, User
    PROVE  Control'
<1>1. CASE ResetButton
  <2>1. /\ Restart /\ events' \in 0 .. MaxEvents
        /\ UNCHANGED <<port, sram, flash, host, progress, foreign>>
    BY <1>1, ResetButtonIs DEF Control, TypeOK
  <2>2. core' \in Core /\ ordered' \in Command \cup {"NONE"}
    BY <2>1, RestartIs DEF Control, TypeOK
  <2>3. HostInv' /\ PortInv'
    BY <2>1, SameHost, SamePort DEF Control
  <2> QED
    BY <2>1, <2>2, <2>3 DEF Control, TypeOK
<1>2. CASE Unplug
  <2>1. /\ port' \in Port /\ ~port'.present /\ port'.line = "OFF"
        /\ But(port, port', {"present", "line", "sticky", "bank", "power", "word", "tar", "posted"})
        /\ port'.bank = "MEM" /\ events' \in 0 .. MaxEvents
        /\ UNCHANGED <<target, host, history>>
    BY <1>2, UnplugIs DEF Control, TypeOK
  <2>2. HostInv' /\ (Busy' <=> Busy)
    BY <2>1, SameHost DEF Control
  <2>3. PortInv'
    <3>1. /\ port'.connected = port.connected /\ port'.selected = port.selected
          /\ port'.enabled = port.enabled /\ port'.nreset = port.nreset
      BY <2>1 DEF But, Field
    <3> QED
      BY <2>1, <2>2, <3>1 DEF Control, PortInv, Aimed
  <2> QED
    BY <2>1, <2>2, <2>3 DEF Control, TypeOK, target, history
<1>3. ASSUME NEW chip \in Chip, Plug(chip)
      PROVE  Control'
  <2>1. /\ port' \in Port /\ But(port, port', {"present"}) /\ port'.present
        /\ core' \in Core /\ sram' \in Words /\ flash' \in [Sector -> Content]
        /\ ordered' = "NONE" /\ progress' = "NONE" /\ foreign' = FALSE
        /\ UNCHANGED <<host, events>>
    BY <1>3, PlugIs DEF Control, TypeOK
  <2>2. HostInv' /\ (Busy' <=> Busy)
    BY <2>1, SameHost DEF Control
  <2>3. PortInv'
    <3>1. /\ port'.connected = port.connected /\ port'.selected = port.selected
          /\ port'.enabled = port.enabled /\ port'.nreset = port.nreset /\ port'.bank = port.bank
      BY <2>1 DEF But, Field
    <3> QED
      BY <2>1, <2>2, <3>1 DEF Control, PortInv, Aimed
  <2> QED
    BY <2>1, <2>2, <2>3 DEF Control, TypeOK, Words
<1> QED
  BY <1>1, <1>2, <1>3 DEF User

LEMMA CoreControl ==
    ASSUME Control, core.at = "LOADER" /\ core.stage = "HALF" => sram["command"] \in Command,
           CoreStep
    PROVE  Control'
<1>0. /\ core \in Core /\ sram \in Words /\ flash \in [Sector -> Content] /\ port \in Port
      /\ ordered \in Command \cup {"NONE"} /\ progress \in {"NONE", "BEGUN", "DONE"}
  BY DEF Control, TypeOK, Words
<1>1. /\ UNCHANGED <<port, host, events, ordered, foreign>>
      /\ core' \in Core /\ sram' \in Words /\ flash' \in [Sector -> Content]
      /\ progress' \in {"NONE", "BEGUN", "DONE"}
  <2>1. CASE AppWrites
    BY <1>0, <2>1, AppWritesIs DEF history
  <2>2. CASE AppBreak
    BY <1>0, <2>2, AppBreakIs DEF history
  <2>3. CASE LoaderStart
    BY <1>0, <2>3, LoaderStartIs DEF history
  <2>4. CASE LoaderBegins
    BY <1>0, <2>4, LoaderBeginsIs
  <2>5. CASE LoaderFinishes
    <3>1. core.at = "LOADER" /\ core.stage = "HALF"
      BY <2>5 DEF LoaderFinishes, Runs
    <3> QED
      BY <1>0, <2>5, <3>1, LoaderFinishesIs
  <2>6. CASE LoaderEnds
    BY <1>0, <2>6, LoaderEndsIs DEF history
  <2> QED
    BY <2>1, <2>2, <2>3, <2>4, <2>5, <2>6 DEF CoreStep
<1>2. HostInv' /\ PortInv'
  BY <1>1, SameHost, SamePort DEF Control
<1> QED
  BY <1>1, <1>2 DEF Control, TypeOK, Words

\* No function is empty.
LEMMA Nonempty ==
    ASSUME NEW r \in Names
    PROVE  1 <= Len(Routine[r])
<1> DEFINE len == Len(Routine[r])
<1>1. len \in 1 .. 20
  BY RoutineFacts
<1> HIDE DEF len
<1>2. 1 <= len
  BY <1>1
<1> QED
  BY <1>2 DEF len

\* The steps of the host that are not accesses.
LEMMA StartJobIs ==
    ASSUME host \in Host, HostInv, NEW j \in DOMAIN Job, StartJob(j)
    PROVE  /\ host' \in Host /\ HostInv' /\ Busy' /\ ~Busy
           /\ host'.job = j /\ host'.routine = "CONNECT" /\ host'.step = 1 /\ host'.status = "OK"
           /\ UNCHANGED <<port, target, events, history>>
<1>1. /\ ~Busy /\ UNCHANGED <<port, target, events, history>>
      /\ host' = [host EXCEPT !.job = j, !.routine = "CONNECT", !.step = 1, !.status = "OK"]
  BY DEF StartJob
<1>2. 1 \in 0 .. 20
  OBVIOUS
<1>3. /\ host' \in Host /\ host'.job = j /\ host'.routine = "CONNECT" /\ host'.step = 1
      /\ host'.status = "OK" /\ host'.command = host.command
  BY <1>1, <1>2 DEF Host
<1>4. host.command # "PENDING"
  BY <1>1 DEF HostInv
<1>5. j # "NONE" /\ "CONNECT" \notin Names /\ "CONNECT" \notin Command
  BY NamesAre DEF Command
<1>6. InJob(j, "CONNECT")
  BY InJobNext
<1>7. HostInv' /\ Busy'
  BY <1>3, <1>4, <1>5, <1>6 DEF HostInv, Busy, Attempts
<1> QED
  BY <1>1, <1>3, <1>7

LEMMA IterateIs ==
    ASSUME host \in Host, HostInv, Iterate
    PROVE  /\ Busy /\ host.step = 0 /\ host.routine \in Command \cup Stoppable /\ host.status = "OK"
           /\ host' \in Host /\ HostInv' /\ Busy' /\ host'.job = host.job
           /\ UNCHANGED <<port, target, events, foreign>>
           /\ \/ /\ host.routine \in Stoppable /\ host'.status = "ABORTED"
                 /\ host'.routine = IF host.routine = "DUMP" THEN "RESET" ELSE "DISCONNECT"
                 /\ host'.step = 1 /\ host'.command = host.command
                 /\ UNCHANGED <<ordered, progress>>
              \/ /\ host.routine \in Command /\ host'.routine = host.routine /\ host'.step = 1
                 /\ host'.status = host.status /\ host'.command = "PENDING"
                 /\ ordered' = host.routine /\ progress' = "NONE"
              \/ /\ host.routine \notin Command /\ host'.routine = host.routine /\ host'.step = 1
                 /\ host'.status = host.status /\ host'.command = host.command
                 /\ UNCHANGED <<ordered, progress>>
<1>1. /\ Busy /\ host.step = 0 /\ host.routine \in Command \cup Stoppable
      /\ UNCHANGED <<port, target, events, foreign>>
  BY DEF Iterate, HostInv
<1>2. /\ host.routine \in Names /\ host.status = "OK" /\ host.command # "PENDING"
      /\ InJob(host.job, host.routine) /\ host.job \in DOMAIN Job
      /\ host.routine \notin {"CONNECT", "DISCONNECT", "RESTORE", "RESET", "RECOVER"}
  <2>1. host.routine \notin {"CONNECT", "DISCONNECT", "RESTORE", "RESET", "RECOVER"}
    BY <1>1 DEF Command, Stoppable
  <2> QED
    BY <1>1, <2>1 DEF HostInv, Host, Busy, Names
<1>3. ASSUME NEW o, o = host', o.job = host.job, o \in Host, NEW r, o.routine = r, o.step = 1,
             r = "DISCONNECT" \/ (r = "RESET" /\ InJob(host.job, r)), o.command = host.command
      PROVE  HostInv' /\ Busy'
  <2>1. r \in Names => 1 <= Len(Routine[r])
    BY Nonempty
  <2>2. r \notin Command /\ r # "CONNECT"
    BY <1>3 DEF Command
  <2> QED
    BY <1>1, <1>2, <1>3, <2>1, <2>2 DEF HostInv, Busy
<1>4. ASSUME NEW o, o = host', o.job = host.job, o \in Host, o.routine = host.routine, o.step = 1,
             o.status = host.status,
             o.command = "PENDING" <=> host.routine \in Command
      PROVE  HostInv' /\ Busy'
  <2>1. 1 <= Len(Routine[host.routine])
    BY <1>2, Nonempty
  <2> QED
    BY <1>1, <1>2, <1>4, <2>1 DEF HostInv, Busy
<1>5. 1 \in 0 .. 20 /\ FirstStep("RESET") = 1 /\ FirstStep("DISCONNECT") = 1
      /\ {"RESET", "DISCONNECT"} \subseteq DOMAIN Routine \cup {"CONNECT", "DISCONNECT"}
  BY NamesAre DEF FirstStep, Command, Stoppable, Names
<1>6. CASE /\ host.routine \in Stoppable
           /\ host' = IF host.routine = "DUMP" THEN Goto("RESET", "ABORTED")
                      ELSE Goto("DISCONNECT", "ABORTED")
           /\ UNCHANGED <<ordered, progress>>
  <2> DEFINE r == IF host.routine = "DUMP" THEN "RESET" ELSE "DISCONNECT"
  <2>1. host' = [host EXCEPT !.routine = r, !.step = 1, !.status = "ABORTED"]
    BY <1>5, <1>6 DEF Goto
  <2>2. r \in DOMAIN Routine \cup {"CONNECT", "DISCONNECT"}
        /\ (r = "DISCONNECT" \/ (r = "RESET" /\ InJob(host.job, r)))
    BY <1>2, <1>5, InJobNext
  <2>3. r = IF host.routine = "DUMP" THEN "RESET" ELSE "DISCONNECT"
    OBVIOUS
  <2> HIDE DEF r
  <2>4. /\ host' \in Host /\ host'.job = host.job /\ host'.routine = r /\ host'.step = 1
        /\ host'.status = "ABORTED" /\ host'.command = host.command
    BY <1>5, <2>1, <2>2 DEF Host
  <2>5. HostInv' /\ Busy'
    BY <1>3, <2>2, <2>4
  <2> QED
    BY <1>1, <1>2, <1>6, <2>3, <2>4, <2>5
<1>7. CASE /\ host.routine \in Command
           /\ host' = [host EXCEPT !.step = 1, !.command = "PENDING"]
           /\ ordered' = host.routine /\ progress' = "NONE"
  <2>1. /\ host' \in Host /\ host'.job = host.job /\ host'.routine = host.routine /\ host'.step = 1
        /\ host'.status = host.status /\ host'.command = "PENDING"
    BY <1>5, <1>7 DEF Host
  <2>2. HostInv' /\ Busy'
    BY <1>4, <1>7, <2>1
  <2> QED
    BY <1>1, <1>2, <1>7, <2>1, <2>2
<1>8. CASE /\ host.routine \notin Command /\ host' = [host EXCEPT !.step = 1]
           /\ UNCHANGED <<ordered, progress>>
  <2>1. /\ host' \in Host /\ host'.job = host.job /\ host'.routine = host.routine /\ host'.step = 1
        /\ host'.status = host.status /\ host'.command = host.command
    BY <1>5, <1>8 DEF Host
  <2>2. HostInv' /\ Busy'
    BY <1>2, <1>4, <1>8, <2>1
  <2> QED
    BY <1>1, <1>2, <1>8, <2>1, <2>2
<1> QED
  BY <1>6, <1>7, <1>8, Zenon DEF Iterate

LEMMA DisconnectIs ==
    ASSUME host \in Host, HostInv, port \in Port, DisconnectStep
    PROVE  /\ Busy /\ host.routine = "DISCONNECT"
           /\ host' \in Host /\ HostInv' /\ ~Busy'
           /\ host'.job = "NONE" /\ host'.routine = "DISCONNECT" /\ host'.status = host.status
           /\ host'.command = host.command
           /\ port' \in Port /\ ~port'.enabled /\ ~port'.nreset /\ ~port'.connected
           /\ port'.present = port.present /\ port'.line = port.line
           /\ UNCHANGED <<target, events, history>>
<1>1. /\ Busy /\ host.routine = "DISCONNECT" /\ port' = Fresh(Disconnect(port))
      /\ host' = [host EXCEPT !.job = "NONE"] /\ UNCHANGED <<target, events, history>>
  BY DEF DisconnectStep
<1>2. /\ host' \in Host /\ host'.job = "NONE" /\ host'.routine = "DISCONNECT"
      /\ host'.status = host.status /\ host'.command = host.command /\ host'.step = host.step
  BY <1>1 DEF Host
<1>3. HostInv' /\ ~Busy'
  <2>1. "DISCONNECT" \notin Command /\ ~Busy'
    BY <1>2 DEF Command, Busy
  <2> QED
    BY <1>1, <1>2, <2>1 DEF HostInv
<1>4. /\ port' \in Port /\ ~port'.enabled /\ ~port'.nreset /\ ~port'.connected
      /\ port'.present = port.present /\ port'.line = port.line
  <2> DEFINE o == SafeState(port)
  <2>1. o \in Port /\ ~o.enabled /\ ~o.nreset /\ But(port, o, {"enabled", "nreset"})
    BY SafePort
  <2>2. port' = Fresh([o EXCEPT !.connected = FALSE])
    BY <1>1 DEF Disconnect
  <2> HIDE DEF o
  <2> DEFINE u == [o EXCEPT !.connected = FALSE]
  <2>3. u \in Port /\ ~u.connected /\ But(o, u, {"connected"})
    BY <2>1, SetConnected
  <2>4. port' = Fresh(u)
    BY <2>2
  <2> HIDE DEF u
  <2>5. port' \in Port /\ But(u, port', {"hit", "posted"})
    BY <2>3, <2>4, FreshPort
  <2> QED
    BY <2>1, <2>3, <2>5 DEF But, Field
<1> QED
  BY <1>1, <1>2, <1>3, <1>4

\* The attempts of a connect are finitely many, and each follows the one before.
LEMMA AttemptsAre ==
    ASSUME NEW n \in 1 .. Attempts, NEW status
    PROVE  NextAttempt(n, status) = 0 \/ (NextAttempt(n, status) \in 1 .. Attempts /\ NextAttempt(n, status) > n)
BY DEF NextAttempt, Attempts

LEMMA ConnectStepIs ==
    ASSUME host \in Host, HostInv, port \in Port, ConnectStep
    PROVE  /\ Busy /\ host.routine = "CONNECT" /\ host.status = "OK"
           /\ host.step \in 1 .. Attempts
           /\ host' \in Host /\ HostInv' /\ Busy' /\ host'.job = host.job
           /\ host'.command = host.command
           /\ port' \in Port /\ port'.present = port.present
           /\ (~port.present => port'.line = port.line)
           /\ (port'.connected => Aimed(port'))
           /\ \/ /\ host'.routine = "CONNECT" /\ host'.step > host.step /\ host'.status = host.status
              \/ /\ host'.routine = Following /\ <<"CONNECT", Following>> \in Pairs
                 /\ host'.step = FirstStep(Following) /\ host'.status = "OK"
                 /\ host.step # 1 /\ (host.job = "FLASH" => Following # "RESET")
              \/ /\ host'.routine = "DISCONNECT" /\ host'.step = 1 /\ host'.status = "ERROR"
           /\ IF host.step = 1 /\ port.present THEN Restart ELSE UNCHANGED <<core, ordered>>
           /\ (host.step = 1 /\ ~port.present => host'.routine = "DISCONNECT")
           /\ UNCHANGED <<sram, flash, events, progress, foreign>>
<1>1. /\ Busy /\ host.routine = "CONNECT"
      /\ IF UnderReset(host.step) /\ port.present THEN Restart ELSE UNCHANGED <<core, ordered>>
      /\ UNCHANGED <<sram, flash, events, progress, foreign>>
  BY DEF ConnectStep
<1>2. /\ host.step \in 1 .. Attempts /\ host.status = "OK" /\ host.job \in DOMAIN Job
      /\ InJob(host.job, host.routine) /\ host.command # "PENDING"
  BY <1>1 DEF HostInv, Host, Busy, Command
<1>3. PICK r \in ConnectAtSpeed(port, UnderReset(host.step)) :
        /\ port' = r.port
        /\ host' = IF NextAttempt(host.step, r.status) # 0
                   THEN [host EXCEPT !.step = NextAttempt(host.step, r.status)]
                   ELSE IF r.status = "OK" THEN Goto(Following, "OK")
                   ELSE Goto("DISCONNECT", "ERROR")
  BY Zenon DEF ConnectStep
<1>4. UnderReset(host.step) \in BOOLEAN /\ (UnderReset(host.step) <=> host.step = 1)
  BY DEF UnderReset
<1>5. /\ r \in Outcome /\ r.port.present = port.present
      /\ (~port.present => r.port.line = port.line)
      /\ (r.port.connected => Aimed(r.port))
      /\ (r.status = "OK" => r.port.connected /\ port.present)
  BY <1>3, <1>4, ConnectCases
<1>6. /\ port' \in Port /\ port'.present = port.present
      /\ (~port.present => port'.line = port.line)
      /\ (port'.connected => Aimed(port'))
      /\ (r.status = "OK" => port.present)
  BY <1>3, <1>5 DEF Outcome
<1> DEFINE next == NextAttempt(host.step, r.status)
<1>7. /\ next = 0 \/ (next \in 1 .. Attempts /\ next > host.step)
      /\ (host.step = 1 => (next = 0 <=> r.status # "OK"))
  BY <1>2, AttemptsAre DEF NextAttempt
<1>8. host' = IF next # 0 THEN [host EXCEPT !.step = next]
              ELSE IF r.status = "OK" THEN Goto(Following, "OK") ELSE Goto("DISCONNECT", "ERROR")
  BY <1>3
<1> HIDE DEF next
<1>9. "CONNECT" \notin Names /\ "CONNECT" \notin Command
  BY NamesAre DEF Command
<1>10. CASE next # 0
  <2>1. host' = [host EXCEPT !.step = next] /\ next \in 0 .. 20
    BY <1>7, <1>8, <1>10 DEF Attempts
  <2>2. /\ host' \in Host /\ host'.job = host.job /\ host'.routine = "CONNECT" /\ host'.step = next
        /\ host'.status = host.status /\ host'.command = host.command
    BY <1>1, <2>1 DEF Host
  <2>3. next # 0 /\ next \in 1 .. Attempts /\ next > host.step
    BY <1>7, <1>10
  <2>4. HostInv' /\ Busy'
    BY <1>1, <1>2, <1>9, <2>2, <2>3 DEF HostInv, Busy
  <2>5. ~(host.step = 1 /\ ~port.present)
    BY <1>6, <1>7, <1>10
  <2> QED
    BY <1>1, <1>2, <1>4, <1>6, <2>2, <2>3, <2>4, <2>5
<1>11. ASSUME NEW to \in Names \cup {"DISCONNECT"}, NEW st \in {"OK", "ERROR", "ABORTED"},
              host' = Goto(to, st), to = "DISCONNECT" \/ InJob(host.job, to),
              st = "OK" \/ to = "DISCONNECT"
       PROVE  /\ host' \in Host /\ HostInv' /\ Busy' /\ host'.job = host.job
              /\ host'.routine = to /\ host'.step = FirstStep(to) /\ host'.status = st
              /\ host'.command = host.command
  <2>1. host' = Concluded(Goto(to, st), st = "OK")
    BY <1>1, <1>9, <1>11, Zenon DEF Concluded
  <2>2. to # host.routine
    BY <1>1, <1>9
  <2>3. Over(to, st, End(st)) /\ End(st) # "PENDING"
    BY <2>1, <2>2, OverIs DEF End
  <2>4. HostInv' /\ Busy'
    BY <1>1, <1>11, <2>3, OverKeeps
  <2> QED
    BY <1>1, <1>9, <2>3, <2>4 DEF Over
<1>12. CASE next = 0 /\ r.status = "OK"
  <2>1. host' = Goto(Following, "OK")
    BY <1>8, <1>12
  <2>2. /\ <<"CONNECT", Following>> \in Pairs /\ InJob(host.job, Following)
        /\ (host.job = "FLASH" => Following # "RESET")
    BY <1>1, <1>2, FollowIs
  <2> HIDE DEF Following
  <2>3. Following \in Names
    BY <2>2, PairsAre
  <2>4. /\ host' \in Host /\ HostInv' /\ Busy' /\ host'.job = host.job
        /\ host'.routine = Following /\ host'.step = FirstStep(Following) /\ host'.status = "OK"
        /\ host'.command = host.command
    BY <1>11, <2>1, <2>2, <2>3
  <2>5. host.step # 1
    BY <1>7, <1>12
  <2> QED
    BY <1>1, <1>2, <1>4, <1>6, <2>2, <2>4, <2>5
<1>13. CASE next = 0 /\ r.status # "OK"
  <2>1. host' = Goto("DISCONNECT", "ERROR")
    BY <1>8, <1>13
  <2>2. FirstStep("DISCONNECT") = 1
    BY DEF FirstStep, Command, Stoppable
  <2>3. /\ host' \in Host /\ HostInv' /\ Busy' /\ host'.job = host.job
        /\ host'.routine = "DISCONNECT" /\ host'.step = 1 /\ host'.status = "ERROR"
        /\ host'.command = host.command
    BY <1>11, <2>1, <2>2
  <2> QED
    BY <1>1, <1>2, <1>4, <1>6, <2>3
<1> QED
  BY <1>10, <1>12, <1>13

\* A pulse on the reset pin restarts the target, or fails without touching it.
LEMMA PulseStepIs ==
    ASSUME PulseStep
    PROVE  /\ Doing("PULSE") /\ UNCHANGED <<port, sram, flash, events, progress, foreign>>
           /\ \/ Restart /\ Continue("OK")
              \/ UNCHANGED <<core, ordered>> /\ Continue("TARGET_POWER")
BY Zenon DEF PulseStep

\* Every step of the host keeps Control.
LEMMA HostControl ==
    ASSUME Control, HostStep
    PROVE  Control'
<1>0. /\ TypeOK /\ HostInv /\ PortInv /\ host \in Host /\ port \in Port /\ core \in Core
      /\ sram \in Words /\ ordered \in Command \cup {"NONE"}
  BY DEF Control, TypeOK, Words
<1>1. CASE ConnectStep
  <2>1. /\ host' \in Host /\ HostInv' /\ Busy' /\ Busy
        /\ port' \in Port /\ port'.present = port.present
        /\ (~port.present => port'.line = port.line)
        /\ (port'.connected => Aimed(port'))
        /\ IF host.step = 1 /\ port.present THEN Restart ELSE UNCHANGED <<core, ordered>>
        /\ UNCHANGED <<sram, flash, events, progress, foreign>>
    BY <1>0, <1>1, ConnectStepIs
  <2>2. PortInv'
    BY <1>0, <2>1 DEF PortInv, Aimed
  <2>3. core' \in Core /\ ordered' \in Command \cup {"NONE"}
    BY <1>0, <2>1, RestartIs
  <2> QED
    BY <1>0, <2>1, <2>2, <2>3 DEF Control, TypeOK
<1>2. CASE Iterate
  <2>1. /\ host' \in Host /\ HostInv' /\ Busy'
        /\ UNCHANGED <<port, target, events, foreign>>
        /\ ordered' \in Command \cup {"NONE"} /\ progress' \in {"NONE", "BEGUN", "DONE"}
    BY <1>0, <1>2, IterateIs DEF TypeOK
  <2>2. PortInv'
    BY <1>0, <2>1, SamePort
  <2> QED
    BY <1>0, <2>1, <2>2 DEF Control, TypeOK, target
<1>3. CASE WriteStep
  <2>1. Doing("WRITE") /\ UNCHANGED <<flash, events, progress>>
    BY <1>0, <1>3, WriteStepIs
  <2>2. PICK t : Wrote(t)
    BY <1>0, <1>3, WriteStepIs
  <2>3. /\ Busy /\ host.routine \in Names /\ host.step > 0 /\ Current \in Accesses
        /\ Current.op = "WRITE"
    BY <1>0, <2>1, DoingIs
  <2>4. host' \in Host /\ HostInv' /\ Busy'
    BY <1>0, <2>2, <2>3, ContinueKeeps DEF Wrote
  <2>5. Shifted(port, port')
    BY <2>2, ReachShifts DEF Wrote
  <2>6. PortInv' /\ port' \in Port
    BY <1>0, <2>3, <2>4, <2>5, PortKeeps
  <2>7. t.port.hit \in {Current.at, NoAddress} /\ BusWrite(t.port.hit, Current.value)
    BY <2>2 DEF Wrote
  <2>8. core' \in Core /\ sram' \in Words
    BY <1>0, <2>3, <2>7, BusCore, BusWords DEF Words
  <2>9. ordered' \in Command \cup {"NONE"} /\ foreign' \in BOOLEAN
    <3>1. /\ (t.port.hit = "AIRCR" => Restart) /\ (t.port.hit # "AIRCR" => ordered' = ordered)
          /\ foreign' = (foreign \/ (t.port.hit \in Word /\ core.chip # Expected))
      BY <2>7, BusCases
    <3> QED
      BY <1>0, <3>1, RestartIs
  <2> QED
    BY <1>0, <2>1, <2>4, <2>6, <2>8, <2>9 DEF Control, TypeOK, Words
<1>4. CASE ReadStep
  <2>1. Doing("READ") /\ UNCHANGED <<target, events, history>>
    BY <1>0, <1>4, ReadStepIs
  <2>2. PICK t, status : Took(t, status)
    BY <1>0, <1>4, ReadStepIs
  <2>3. Busy /\ host.routine \in Names /\ host.step > 0
    BY <1>0, <2>1, DoingIs
  <2>4. host' \in Host /\ HostInv' /\ Busy'
    BY <1>0, <2>2, <2>3, ContinueKeeps DEF Took
  <2>5. Shifted(port, port')
    BY <2>2, ReachShifts DEF Took
  <2>6. PortInv' /\ port' \in Port
    BY <1>0, <2>3, <2>4, <2>5, PortKeeps
  <2> QED
    BY <1>0, <2>1, <2>4, <2>6 DEF Control, TypeOK, target, history
<1>5. CASE PollStep
  <2>1. Doing("POLL") /\ UNCHANGED <<target, events, history>>
    BY <1>0, <1>5, PollStepIs
  <2>2. PICK t : /\ Reaches(port, "DHCSR", t) /\ port' = t.port
                 /\ \/ UNCHANGED host /\ Linked(port) /\ ~port.sticky
                    \/ \E status : Polled(t, status)
    BY <1>0, <1>5, PollStepIs
  <2>3. Busy /\ host.routine \in Names /\ host.step > 0
    BY <1>0, <2>1, DoingIs
  <2>4. host' \in Host /\ HostInv' /\ Busy'
    <3>1. CASE UNCHANGED host
      BY <1>0, <2>3, <3>1, SameHost
    <3>2. CASE \E status : Polled(t, status)
      BY <1>0, <2>3, <3>2, ContinueKeeps DEF Polled
    <3> QED
      BY <2>2, <3>1, <3>2
  <2>5. Shifted(port, port')
    BY <2>2, ReachShifts
  <2>6. PortInv' /\ port' \in Port
    BY <1>0, <2>3, <2>4, <2>5, PortKeeps
  <2> QED
    BY <1>0, <2>1, <2>4, <2>6 DEF Control, TypeOK, target, history
<1>6. CASE PulseStep
  <2>1. /\ Doing("PULSE") /\ UNCHANGED <<port, sram, flash, events, progress, foreign>>
        /\ \/ Restart /\ Continue("OK")
           \/ UNCHANGED <<core, ordered>> /\ Continue("TARGET_POWER")
    BY <1>6, PulseStepIs
  <2>2. Busy /\ host.routine \in Names /\ host.step > 0
    BY <1>0, <2>1, DoingIs
  <2>3. host' \in Host /\ HostInv' /\ Busy'
    BY <1>0, <2>1, <2>2, ContinueKeeps
  <2>4. PortInv'
    BY <1>0, <2>1, <2>3, SamePort
  <2>5. core' \in Core /\ ordered' \in Command \cup {"NONE"}
    BY <1>0, <2>1, RestartIs
  <2> QED
    BY <1>0, <2>1, <2>3, <2>4, <2>5 DEF Control, TypeOK
<1>7. CASE DisconnectStep
  <2>1. /\ host' \in Host /\ HostInv' /\ ~Busy'
        /\ port' \in Port /\ ~port'.enabled /\ ~port'.nreset /\ ~port'.connected
        /\ port'.present = port.present /\ port'.line = port.line
        /\ UNCHANGED <<target, events, history>>
    BY <1>0, <1>7, DisconnectIs
  <2>2. PortInv'
    BY <1>0, <2>1 DEF PortInv
  <2> QED
    BY <1>0, <2>1, <2>2 DEF Control, TypeOK, target, history
<1> QED
  BY <1>1, <1>2, <1>3, <1>4, <1>5, <1>6, <1>7 DEF HostStep

-----------------------------------------------------------------------------
(***************************************************************************)
(* Where a step of a routine leads.                                        *)
(***************************************************************************)
Leaves(to, st, status) ==
    /\ Over(to, st, End(status)) /\ to # host.routine
    /\ (to = "DISCONNECT" \/ <<host.routine, to>> \in Pairs
        \/ (host.routine = "RESET" /\ to = "RECOVER" /\ status # "OK"))
    /\ (status = "OK" => AtEnd)
    /\ (status # "OK" /\ host.routine \notin {"SELFTEST", "RESTORE", "DUMP", "RESET"}
            => to = "DISCONNECT")
    /\ (to = "DISCONNECT" /\ st = "OK" => status = "OK" /\ host.routine \in {"RESET", "RECOVER"})
    /\ (host.job = "FLASH" /\ to = "RESET" => host.routine = "VERIFY" /\ status = "OK")

\* An operation that programs has no DUMP, so that what follows it is known.
LEMMA FlashNeverDumps == ~InJob("FLASH", "DUMP")
<1> DEFINE s == Job["FLASH"]
           n == Len(s)
<1>0. "FLASH" \in DOMAIN Job
  BY NamesAre
<1>1. /\ n \in 2 .. 11 /\ DOMAIN s = 1 .. n /\ s[n] = "RESET"
      /\ \A k \in 1 .. n - 1 : <<s[k], s[k + 1]>> \in Pairs /\ (s[k + 1] = "RESET" => s[k] = "VERIFY")
  BY <1>0, JobTable
<1> HIDE DEF s
<1>2. ASSUME NEW k \in 1 .. n, s[k] = "DUMP" PROVE FALSE
  <2>1. k \in 1 .. n - 1
    BY <1>1, <1>2
  <2>2. <<s[k], s[k + 1]>> \in Pairs /\ (s[k + 1] = "RESET" => s[k] = "VERIFY")
    BY <1>1, <2>1
  <2>3. s[k + 1] = "RESET"
    BY <1>2, <2>2 DEF Pairs
  <2> QED
    BY <1>2, <2>2, <2>3
<1> QED
  BY <1>1, <1>2 DEF InJob, s

\* RESTORE is a single access: there is no state within it.
LEMMA RestoreIsOneStep == Len(Routine["RESTORE"]) = 1
<1>1. Routine["RESTORE"] = <<Write("test", "GARBAGE")>>
  BY RoutineIs DEF Restore
<1> QED
  BY <1>1

\* How function and access change when an access is over.
LEMMA RoutineSteps ==
    ASSUME host \in Host, HostInv, Busy, host.routine \in Names, host.step > 0,
           NEW status, Continue(status)
    PROVE  \/ status = "OK" /\ ~AtEnd /\ Stepped
           \/ \E to \in Names \cup {"DISCONNECT"}, st \in {"OK", "ERROR", "ABORTED"} :
                 Leaves(to, st, status)
<1>1. host.job \in DOMAIN Job /\ (host.routine = "RECOVER" \/ InJob(host.job, host.routine))
  BY NamesAre DEF HostInv, Busy, Host
<1>2. /\ Bad \in {"ERROR", "ABORTED"} /\ host.status \in {"OK", "ERROR", "ABORTED"}
      /\ {"RESTORE", "RECOVER", "RESET", "DISCONNECT"} \subseteq Names \cup {"DISCONNECT"}
      /\ "DISCONNECT" \notin Names
  BY NamesAre DEF Bad, Host
<1>3. host.routine = "RESTORE" => AtEnd
  <2> DEFINE n == host.step
  <2>1. n \in 0 .. 20 /\ n > 0
    BY DEF Host
  <2> HIDE DEF n
  <2>2. n >= 1
    BY <2>1
  <2> QED
    BY <2>2, RestoreIsOneStep DEF AtEnd, n
<1>4. status # "OK" => End(status) = "FAILED"
  BY DEF End
<1>5. CASE ~AtEnd /\ Stepped /\ (status = "OK" \/ host.routine = "RESTORE")
  BY <1>3, <1>5
<1>6. CASE AtEnd /\ Over(Following, host.status, End(status))
           /\ (status = "OK" \/ host.routine = "RESTORE")
  <2>1. /\ host.routine \in {"RECOVER", "RESET"} \/ host.status # "OK" => Following = "DISCONNECT"
        /\ (host.routine \notin {"RECOVER", "RESET"} /\ host.status = "OK" =>
              /\ <<host.routine, Following>> \in Pairs
              /\ host.job = "FLASH" /\ Following = "RESET" => host.routine = "VERIFY")
    BY <1>1, FollowIs
  <2>2. /\ Following = "DISCONNECT" \/ <<host.routine, Following>> \in Pairs
        /\ (Following = "DISCONNECT" /\ host.status = "OK" =>
               host.routine \in {"RESET", "RECOVER"} /\ status = "OK")
        /\ (host.job = "FLASH" /\ Following = "RESET" => host.routine = "VERIFY" /\ status = "OK")
    BY <1>2, <1>6, <2>1, PairsAre
  <2> HIDE DEF Following
  <2>3. Following \in Names \cup {"DISCONNECT"} /\ Following # host.routine
    BY <1>2, <2>2, PairsAre
  <2>4. Leaves(Following, host.status, status)
    BY <1>6, <2>2, <2>3 DEF Leaves
  <2> QED
    BY <1>2, <2>3, <2>4
<1>7. CASE status # "OK" /\ host.routine = "SELFTEST" /\ Over("RESTORE", Bad, "FAILED")
  <2>1. <<"SELFTEST", "RESTORE">> \in Pairs
    BY DEF Pairs
  <2>2. Leaves("RESTORE", Bad, status)
    BY <1>4, <1>7, <2>1 DEF Leaves
  <2> QED
    BY <1>2, <2>2
<1>8. CASE status # "OK" /\ host.routine = "RESET" /\ Over("RECOVER", host.status, "FAILED")
  <2>1. Leaves("RECOVER", host.status, status)
    BY <1>4, <1>8 DEF Leaves
  <2> QED
    BY <1>2, <2>1
<1>9. CASE status # "OK" /\ host.routine = "DUMP" /\ Over("RESET", Bad, "FAILED")
  <2>1. <<"DUMP", "RESET">> \in Pairs
    BY DEF Pairs
  <2>2. host.job # "FLASH"
    BY <1>1, <1>9, FlashNeverDumps
  <2>3. Leaves("RESET", Bad, status)
    BY <1>4, <1>9, <2>1, <2>2 DEF Leaves
  <2> QED
    BY <1>2, <2>3
<1>10. CASE status # "OK" /\ Over("DISCONNECT", Bad, "FAILED")
  <2>1. Leaves("DISCONNECT", Bad, status)
    BY <1>2, <1>4, <1>10 DEF Leaves
  <2> QED
    BY <1>2, <2>1
<1>11. \/ ~AtEnd /\ Stepped /\ (status = "OK" \/ host.routine = "RESTORE")
       \/ AtEnd /\ Over(Following, host.status, End(status))
          /\ (status = "OK" \/ host.routine = "RESTORE")
       \/ status # "OK" /\ host.routine = "SELFTEST" /\ Over("RESTORE", Bad, "FAILED")
       \/ status # "OK" /\ host.routine = "RESET" /\ Over("RECOVER", host.status, "FAILED")
       \/ status # "OK" /\ host.routine = "DUMP" /\ Over("RESET", Bad, "FAILED")
       \/ status # "OK" /\ Over("DISCONNECT", Bad, "FAILED")
  BY ContinueCases
<1> QED
  BY <1>5, <1>6, <1>7, <1>8, <1>9, <1>10, <1>11

\* An operation goes forward.
Advances ==
    \/ Rank(host'.routine) > Rank(host.routine)
    \/ host'.routine = host.routine /\ host'.step > host.step

LEMMA SteppedRoutine ==
    ASSUME host \in Host, Stepped
    PROVE  /\ host'.routine = host.routine /\ host'.step = host.step + 1 /\ host'.job = host.job
           /\ host'.status = host.status /\ host'.command = host.command
<1> DEFINE n == host.step
           m == n + 1
<1>1. host' = [host EXCEPT !.step = m]
  BY DEF Stepped
<1> HIDE DEF m
<1>2. /\ host'.routine = host.routine /\ host'.step = m /\ host'.job = host.job
      /\ host'.status = host.status /\ host'.command = host.command
  BY <1>1 DEF Host
<1> QED
  BY <1>2 DEF m

\* Whatever an access returns, function or access moves on.
LEMMA RoutineAdvances ==
    ASSUME host \in Host, HostInv, Busy, host.routine \in Names, host.step > 0,
           NEW status, Continue(status)
    PROVE  Advances
<1>1. CASE Stepped
  <2> DEFINE n == host.step
  <2>1. n \in 0 .. 20
    BY DEF Host
  <2>2. host'.routine = host.routine /\ host'.step = n + 1
    BY <1>1, SteppedRoutine
  <2>3. n + 1 > n
    BY <2>1
  <2> QED
    BY <2>2, <2>3 DEF Advances
<1>2. ASSUME NEW to \in Names \cup {"DISCONNECT"}, NEW st, Leaves(to, st, status)
      PROVE  Advances
  <2>1. host'.routine = to
    BY <1>2 DEF Leaves, Over
  <2>2. Rank(to) > Rank(host.routine)
    BY <1>2, RankGrows DEF Leaves
  <2> QED
    BY <2>1, <2>2 DEF Advances
<1> QED
  BY <1>1, <1>2, RoutineSteps

\* Only the host changes the host.
LEMMA HostChanges ==
    ASSUME Control, [Next]_vars, host' # host
    PROVE  (\E j \in DOMAIN Job : StartJob(j)) \/ HostStep
<1>1. CASE CoreStep
  <2>1. UNCHANGED host
    BY <1>1 DEF CoreStep, AppWrites, AppBreak, LoaderStart, LoaderBegins, LoaderFinishes, LoaderEnds
  <2> QED
    BY <2>1
<1>2. CASE User
  <2>1. UNCHANGED host
    BY <1>2 DEF User, ResetButton, Unplug, Plug
  <2> QED
    BY <2>1
<1>3. CASE UNCHANGED vars
  BY <1>3 DEF vars
<1> QED
  BY <1>1, <1>2, <1>3 DEF Next

\* OperationAdvances for one step.
LEMMA StepAdvances ==
    ASSUME Control, [Next]_vars, Busy, host'.job # "NONE", host' # host
    PROVE  Advances
<1>0. /\ TypeOK /\ HostInv /\ PortInv /\ host \in Host /\ port \in Port
  BY DEF Control, TypeOK
<1>1. HostStep
  BY HostChanges DEF StartJob
<1>2. ASSUME NEW op, Doing(op), NEW status, Continue(status)
      PROVE  Advances
  BY <1>0, <1>2, DoingIs, RoutineAdvances
<1>3. CASE ConnectStep
  <2>1. /\ host.routine = "CONNECT"
        /\ \/ host'.routine = "CONNECT" /\ host'.step > host.step
           \/ host'.routine = Following /\ <<"CONNECT", Following>> \in Pairs
           \/ host'.routine = "DISCONNECT"
    BY <1>0, <1>3, ConnectStepIs
  <2> HIDE DEF Following
  <2> QED
    BY <2>1, RankGrows DEF Advances
<1>4. CASE Iterate
  <2>1. /\ host.step = 0 /\ host.routine \in Command \cup Stoppable /\ host'.step = 1
        /\ \/ host'.routine = host.routine
           \/ host'.routine = IF host.routine = "DUMP" THEN "RESET" ELSE "DISCONNECT"
    BY <1>0, <1>4, IterateIs
  <2>2. CASE host'.routine = host.routine
    BY <2>1, <2>2 DEF Advances
  <2>3. CASE host'.routine = "RESET" /\ host.routine = "DUMP"
    <3>1. <<"DUMP", "RESET">> \in Pairs
      BY DEF Pairs
    <3> QED
      BY <2>3, <3>1, RankGrows DEF Advances
  <2>4. CASE host'.routine = "DISCONNECT"
    <3>1. host.routine \in Names
      BY <2>1, NamesAre DEF Command, Stoppable
    <3> QED
      BY <2>4, <3>1, RankGrows DEF Advances
  <2> QED
    BY <2>1, <2>2, <2>3, <2>4
<1>5. CASE WriteStep
  <2>1. Doing("WRITE") /\ \E t : Wrote(t)
    BY <1>0, <1>5, WriteStepIs
  <2> QED
    BY <1>2, <2>1 DEF Wrote
<1>6. CASE ReadStep
  <2>1. Doing("READ") /\ \E t, status : Took(t, status)
    BY <1>0, <1>6, ReadStepIs
  <2> QED
    BY <1>2, <2>1 DEF Took
<1>7. CASE PollStep
  <2>1. Doing("POLL") /\ \E t : \E status : Polled(t, status)
    BY <1>0, <1>7, PollStepIs
  <2> QED
    BY <1>2, <2>1 DEF Polled
<1>8. CASE PulseStep
  <2>1. Doing("PULSE") /\ \E status : Continue(status)
    BY <1>8, PulseStepIs
  <2> QED
    BY <1>2, <2>1
<1>9. CASE DisconnectStep
  BY <1>9 DEF DisconnectStep, Host
<1> QED
  BY <1>0, <1>1, <1>3, <1>4, <1>5, <1>6, <1>7, <1>8, <1>9 DEF HostStep

\* What AccessExact says of one access.
Exact(op) ==
    /\ port'.hit \in {Current.at, NoAddress}
    /\ host'.routine = host.routine =>
           port'.hit = Current.at \/ (op = "WRITE" /\ port'.sticky)

\* The host stays in a function only after an access that went well.
LEMMA SameRoutine ==
    ASSUME TypeOK, HostInv, NEW op, Doing(op), NEW status, Continue(status),
           host'.routine = host.routine
    PROVE  status = "OK"
<1>1. Busy /\ host.routine \in Names /\ host.step > 0 /\ host \in Host
  BY DoingIs DEF TypeOK
<1>2. ASSUME NEW to, NEW st, Leaves(to, st, status)
      PROVE  FALSE
  BY <1>2 DEF Leaves, Over
<1> QED
  BY <1>1, <1>2, RoutineSteps

\* AccessExact for one step.
LEMMA StepExact ==
    ASSUME Control, [Next]_vars, NEW op \in {"READ", "WRITE"}, Doing(op), host' # host
    PROVE  Exact(op)
<1>0. /\ TypeOK /\ HostInv /\ PortInv /\ host \in Host
  BY DEF Control, TypeOK
<1>1. Busy /\ host.routine \in Names /\ host.step > 0 /\ Current.op = op
  BY <1>0, DoingIs
<1>2. ~ConnectStep /\ ~Iterate /\ ~DisconnectStep /\ ~(\E j \in DOMAIN Job : StartJob(j))
      /\ ~PollStep /\ ~PulseStep
  BY <1>1, NamesAre DEF ConnectStep, Iterate, DisconnectStep, StartJob, PollStep, PulseStep, Doing
<1>3. CASE WriteStep
  <2>1. Doing("WRITE") /\ \E t : Wrote(t)
    BY <1>0, <1>3, WriteStepIs
  <2>2. PICK t : Wrote(t)
    BY <2>1
  <2>3. host'.routine = host.routine => t.status = "OK"
    BY <1>0, <2>1, <2>2, SameRoutine DEF Wrote
  <2>4. op = "WRITE"
    BY <1>1, <2>1 DEF Doing
  <2> QED
    BY <2>2, <2>3, <2>4 DEF Wrote, Exact
<1>4. CASE ReadStep
  <2>1. Doing("READ") /\ \E t, status : Took(t, status)
    BY <1>0, <1>4, ReadStepIs
  <2>2. PICK t, status : Took(t, status)
    BY <2>1
  <2>3. host'.routine = host.routine => status = "OK"
    BY <1>0, <2>1, <2>2, SameRoutine DEF Took
  <2> QED
    BY <2>2, <2>3 DEF Took, Exact, Reaches
<1> QED
  BY <1>2, <1>3, <1>4, HostChanges DEF HostStep
-----------------------------------------------------------------------------
(***************************************************************************)
(* Only the chip that was expected is written to.                          *)
(***************************************************************************)
Guarded == {"SELFTEST", "RESTORE", "UPLOAD", "VERIFY", "DUMP"} \cup Command

ChipInv ==
    /\ host.routine \in Guarded => port.line = "OFF" \/ core.chip = Expected
    /\ ~foreign

\* The functions that touch the memory come after IDENTIFY or after one another.
LEMMA GuardedFollow ==
    /\ \A a, b : <<a, b>> \in Pairs /\ b \in Guarded => a \in Guarded \/ a = "IDENTIFY"
    /\ {"CONNECT", "HALT", "IDENTIFY", "RESET", "RECOVER", "DISCONNECT"} \cap Guarded = {}
    /\ Names \ Guarded = {"HALT", "IDENTIFY", "RESET", "RECOVER"}
BY NamesAre DEF Pairs, Guarded, Command

\* From where a step of a routine may go on to one that writes to the target.
LEMMA GuardedSteps ==
    ASSUME TypeOK, HostInv, NEW op, Doing(op), NEW status, Continue(status),
           host'.routine \in Guarded
    PROVE  host.routine \in Guarded \/ (host.routine = "IDENTIFY" /\ status = "OK" /\ op = "READ"
                                        /\ Current.at = "ID" /\ Current.accept = {Expected})
<1>1. Busy /\ host.routine \in Names /\ host.step > 0 /\ host \in Host /\ Current.op = op
      /\ host.step \in 1 .. Len(Routine[host.routine])
  BY DoingIs DEF TypeOK
<1>2. ASSUME host.routine = "IDENTIFY"
      PROVE  op = "READ" /\ Current.at = "ID" /\ Current.accept = {Expected}
  <2>1. Routine["IDENTIFY"] = <<Read("ID", {Expected})>>
    BY RoutineIs DEF Identify
  <2>2. host.step = 1
    <3>1. Len(Routine["IDENTIFY"]) = 1
      BY <2>1
    <3> QED
      BY <1>1, <1>2, <3>1
  <2>3. Current = Read("ID", {Expected})
    BY <1>2, <2>1, <2>2 DEF Current
  <2> QED
    BY <1>1, <2>3 DEF Read
<1>3. CASE Stepped
  BY <1>1, <1>3, SteppedRoutine
<1>4. ASSUME NEW to, NEW st, Leaves(to, st, status)
      PROVE  host.routine \in Guarded \/ (host.routine = "IDENTIFY" /\ status = "OK")
  <2>1. host'.routine = to
    BY <1>4 DEF Leaves, Over
  <2> QED
    BY <1>4, <2>1, GuardedFollow DEF Leaves
<1> QED
  BY <1>1, <1>2, <1>3, <1>4, RoutineSteps

\* A line that is off stays off for the host.
LEMMA ShiftedOff ==
    ASSUME Shifted(port, port')
    PROVE  port.line = "OFF" => port'.line = "OFF"
BY DEF Shifted, Off

\* What the words of interest hold.
LEMMA HeldIs ==
    /\ Held("ID") = core.chip /\ Held("FLASH") = flash[1] /\ Held("status") = sram["status"]
<1>1. "ID" \notin Word /\ "FLASH" \notin Word /\ "status" \in Word
  BY DEF Word, Mailbox
<1>2. Held("ID") = core.chip
  BY <1>1, Zenon DEF Held
<1>3. Held("FLASH") = flash[1]
  BY <1>1, Zenon DEF Held
<1>4. Held("status") = sram["status"]
  BY <1>1, Zenon DEF Held
<1> QED
  BY <1>2, <1>3, <1>4

\* Every step keeps ChipInv: no memory is written on a chip that was not identified.
LEMMA StepChip ==
    ASSUME Control, ChipInv, [Next]_vars
    PROVE  ChipInv'
<1>0. /\ TypeOK /\ HostInv /\ PortInv /\ host \in Host /\ port \in Port /\ core \in Core
      /\ sram \in Words /\ flash \in [Sector -> Content]
  BY DEF Control, TypeOK, Words
<1>1. ASSUME NEW j \in DOMAIN Job, StartJob(j) PROVE ChipInv'
  <2>1. host'.routine = "CONNECT" /\ foreign' = foreign
    BY <1>0, <1>1, StartJobIs DEF history
  <2> QED
    BY <2>1, GuardedFollow DEF ChipInv
<1>2. CASE ConnectStep
  <2>1. /\ foreign' = foreign
        /\ host'.routine \in {"CONNECT", "DISCONNECT"}
           \/ (host'.routine = Following /\ <<"CONNECT", Following>> \in Pairs)
    BY <1>0, <1>2, ConnectStepIs
  <2> HIDE DEF Following
  <2>2. host'.routine \notin Guarded
    BY <2>1, GuardedFollow
  <2> QED
    BY <2>1, <2>2 DEF ChipInv
<1>3. CASE Iterate
  <2>1. /\ UNCHANGED <<port, core, foreign>>
        /\ host'.routine \in {host.routine, "RESET", "DISCONNECT"}
    BY <1>0, <1>3, IterateIs DEF target
  <2> QED
    BY <2>1, GuardedFollow DEF ChipInv
<1>4. CASE WriteStep
  <2>1. Doing("WRITE") /\ \E t : Wrote(t)
    BY <1>0, <1>4, WriteStepIs
  <2>2. PICK t : Wrote(t)
    BY <2>1
  <2>3. /\ host.routine \in Names /\ Current \in Accesses /\ Current.op = "WRITE"
        /\ (host.routine \in {"HALT", "IDENTIFY", "RESET", "RECOVER"} => Current \in Harmless)
    BY <1>0, <2>1, DoingIs
  <2>4. /\ t.port.hit \in {Current.at, NoAddress} /\ BusWrite(t.port.hit, Current.value)
        /\ (t.port.hit # NoAddress => Linked(port)) /\ Continue(t.status) /\ port' = t.port
    BY <2>2 DEF Wrote, Reaches
  <2>5. Shifted(port, port')
    BY <2>2, ReachShifts DEF Wrote
  <2>6. core'.chip = core.chip /\ foreign' = (foreign \/ (t.port.hit \in Word /\ core.chip # Expected))
    BY <1>0, <2>3, <2>4, BusCore, BusCases
  <2>7. host'.routine \in Guarded => host.routine \in Guarded
    BY <1>0, <2>1, <2>4, GuardedSteps
  <2>8. ASSUME t.port.hit \in Word PROVE core.chip = Expected
    <3>1. t.port.hit = Current.at /\ Linked(port)
      BY <2>4, <2>8, WordsAre
    <3>2. Current \notin Harmless
      BY <2>3, <2>8, <3>1 DEF Harmless, Word, Mailbox
    <3>3. host.routine \in Guarded /\ port.line # "OFF"
      BY <2>3, <3>1, <3>2, GuardedFollow DEF Linked
    <3> QED
      BY <3>3 DEF ChipInv
  <2> QED
    BY <2>5, <2>6, <2>7, <2>8, ShiftedOff DEF ChipInv
<1>5. CASE ReadStep
  <2>1. Doing("READ") /\ UNCHANGED <<target, events, history>> /\ \E t, status : Took(t, status)
    BY <1>0, <1>5, ReadStepIs
  <2>2. PICK t, status : Took(t, status)
    BY <2>1
  <2>3. Shifted(port, port')
    BY <2>2, ReachShifts DEF Took
  <2>4. ASSUME host'.routine \in Guarded PROVE port'.line = "OFF" \/ core.chip = Expected
    <3>1. host.routine \in Guarded \/ (status = "OK" /\ Current.at = "ID" /\ Current.accept = {Expected})
      BY <1>0, <2>1, <2>2, <2>4, GuardedSteps DEF Took
    <3>2. CASE host.routine \in Guarded
      BY <2>3, <3>2, ShiftedOff DEF ChipInv
    <3>3. CASE status = "OK" /\ Current.at = "ID" /\ Current.accept = {Expected}
      BY <2>2, <3>3, HeldIs DEF Took
    <3> QED
      BY <3>1, <3>2, <3>3
  <2> QED
    BY <2>1, <2>4 DEF ChipInv, target, history
<1>6. CASE PollStep
  <2>1. Doing("POLL") /\ UNCHANGED <<target, events, history>>
    BY <1>0, <1>6, PollStepIs
  <2>2. PICK t : /\ Reaches(port, "DHCSR", t) /\ port' = t.port
                 /\ UNCHANGED host \/ \E status : Polled(t, status)
    BY <1>0, <1>6, PollStepIs
  <2>3. Shifted(port, port')
    BY <2>2, ReachShifts
  <2>4. host'.routine \in Guarded => host.routine \in Guarded
    <3>1. CASE UNCHANGED host
      BY <3>1
    <3>2. CASE \E status : Polled(t, status)
      BY <1>0, <2>1, <3>2, GuardedSteps DEF Polled
    <3> QED
      BY <2>2, <3>1, <3>2
  <2> QED
    BY <2>1, <2>3, <2>4, ShiftedOff DEF ChipInv, target, history
<1>7. CASE PulseStep
  <2>1. /\ Doing("PULSE") /\ UNCHANGED <<port, foreign>>
        /\ \/ Restart /\ Continue("OK")
           \/ UNCHANGED <<core, ordered>> /\ Continue("TARGET_POWER")
    BY <1>7, PulseStepIs
  <2>2. host'.routine \in Guarded => host.routine \in Guarded
    BY <1>0, <2>1, GuardedSteps
  <2>3. core'.chip = core.chip
    BY <1>0, <2>1, RestartIs
  <2> QED
    BY <2>1, <2>2, <2>3 DEF ChipInv
<1>8. CASE DisconnectStep
  <2>1. host'.routine = "DISCONNECT" /\ foreign' = foreign
    BY <1>0, <1>8, DisconnectIs DEF history
  <2> QED
    BY <2>1, GuardedFollow DEF ChipInv
<1>9. CASE CoreStep
  <2>1. UNCHANGED <<port, host, foreign>> /\ core'.chip = core.chip
    <3>1. CASE AppWrites
      BY <3>1, AppWritesIs DEF history
    <3>2. CASE AppBreak
      BY <1>0, <3>2, AppBreakIs DEF history
    <3>3. CASE LoaderStart
      BY <1>0, <3>3, LoaderStartIs DEF history
    <3>4. CASE LoaderBegins
      BY <1>0, <3>4, LoaderBeginsIs
    <3>5. CASE LoaderFinishes
      <4>1. core' = [core EXCEPT !.stage = "PASSED"] \/ core' = [core EXCEPT !.stage = "FAILED"]
        BY <3>5, Zenon DEF LoaderFinishes
      <4>2. core'.chip = core.chip
        BY <1>0, <4>1 DEF Core
      <4> QED
        BY <3>5, <4>2 DEF LoaderFinishes
    <3>6. CASE LoaderEnds
      BY <1>0, <3>6, LoaderEndsIs DEF history
    <3> QED
      BY <1>9, <3>1, <3>2, <3>3, <3>4, <3>5, <3>6 DEF CoreStep
  <2> QED
    BY <2>1 DEF ChipInv
<1>10. CASE User
  <2>1. CASE ResetButton
    <3>1. Restart /\ UNCHANGED <<port, host, foreign>>
      BY <2>1 DEF ResetButton
    <3> QED
      BY <1>0, <3>1, RestartIs DEF ChipInv
  <2>2. CASE Unplug
    <3>1. port'.line = "OFF" /\ UNCHANGED <<host, foreign>>
      BY <1>0, <2>2, UnplugIs DEF TypeOK, history
    <3> QED
      BY <3>1 DEF ChipInv
  <2>3. ASSUME NEW chip \in Chip, Plug(chip) PROVE ChipInv'
    <3>1. port'.line = "OFF" /\ UNCHANGED host /\ foreign' = FALSE
      BY <1>0, <2>3, PlugIs DEF But, Field
    <3> QED
      BY <3>1 DEF ChipInv
  <2> QED
    BY <1>10, <2>1, <2>2, <2>3 DEF User
<1>11. CASE UNCHANGED vars
  BY <1>11 DEF vars, ChipInv, target, history
<1> QED
  BY <1>1, <1>2, <1>3, <1>4, <1>5, <1>6, <1>7, <1>8, <1>9, <1>10, <1>11 DEF Next, HostStep

-----------------------------------------------------------------------------
(***************************************************************************)
(* The commands of the loader: what the host writes, when.                 *)
(***************************************************************************)
Ordering == Busy /\ host.routine \in Command /\ host.step > 0

\* The host is past the k-th access that every command has.
Reached(k) == Ordering /\ host.step > Base(host.routine) + k

\* The accesses of a command that the proofs look at.
LEMMA CommandTable ==
    ASSUME NEW c \in Command, NEW s, s = Execute(c), NEW b, b = Base(c), NEW k \in 1 .. b + 19
    PROVE  /\ (s[k].op = "WRITE" /\ s[k].at = "command" => k = b + 2 /\ s[k].value = c)
           /\ (s[k].op = "WRITE" /\ s[k].at = "status" => k = b + 3 /\ s[k].value = "IDLE")
           /\ (s[k].op = "WRITE" /\ s[k].at = "DCRSR" /\ s[k].value = "PC" => k = b + 12)
           /\ (s[k].op = "WRITE" => s[k].at # "AIRCR" /\ k <= b + 14)
           /\ (k = b + 2 => s[k].op = "WRITE" /\ s[k].at = "command")
           /\ (k = b + 3 => s[k].op = "WRITE" /\ s[k].at = "status")
           /\ (k = b + 12 => s[k].op = "WRITE")
           /\ (k = b + 18 => s[k].op = "READ" /\ s[k].at = "status" /\ s[k].accept = {"DONE"})
           /\ s[k].op # "PULSE"
<1>1. /\ b \in 0 .. 1
      /\ (b = 1 => s[1] = Write("buffer", "IMAGE"))
      /\ s[b + 1] = Write("magic", "MAGIC") /\ s[b + 2] = Write("command", c)
      /\ s[b + 3] = Write("status", "IDLE") /\ s[b + 4] = Write("result", "OK")
      /\ s[b + 5] = Write("DCRDR", "MSP") /\ s[b + 6] = Write("DCRSR", "MSP")
      /\ s[b + 7] = ReadyPoll
      /\ s[b + 8] = Write("DCRDR", "R0") /\ s[b + 9] = Write("DCRSR", "R0")
      /\ s[b + 10] = ReadyPoll
      /\ s[b + 11] = Write("DCRDR", "PC") /\ s[b + 12] = Write("DCRSR", "PC")
      /\ s[b + 13] = ReadyPoll
      /\ s[b + 14] = Write("DHCSR", "RUN") /\ s[b + 15] = HaltedPoll
      /\ s[b + 16] = Read("magic", {"MAGIC"}) /\ s[b + 17] = Read("command", Value)
      /\ s[b + 18] = Read("status", {"DONE"}) /\ s[b + 19] = Read("result", {"OK"})
  BY ExecuteIs
<1>2. ReadyPoll.op = "POLL" /\ HaltedPoll.op = "POLL"
  BY DEF ReadyPoll, HaltedPoll, Wait
<1>3. \A a, v : Write(a, v).op = "WRITE" /\ Write(a, v).at = a /\ Write(a, v).value = v
  BY DEF Write
<1>4. \A a, v : Read(a, v).op = "READ" /\ Read(a, v).at = a /\ Read(a, v).accept = v
  BY DEF Read
<1> DEFINE Row(i) ==
           /\ (s[i].op = "WRITE" /\ s[i].at = "command" => i = b + 2 /\ s[i].value = c)
           /\ (s[i].op = "WRITE" /\ s[i].at = "status" => i = b + 3 /\ s[i].value = "IDLE")
           /\ (s[i].op = "WRITE" /\ s[i].at = "DCRSR" /\ s[i].value = "PC" => i = b + 12)
           /\ (s[i].op = "WRITE" => s[i].at # "AIRCR" /\ i <= b + 14)
           /\ (i = b + 2 => s[i].op = "WRITE" /\ s[i].at = "command")
           /\ (i = b + 3 => s[i].op = "WRITE" /\ s[i].at = "status")
           /\ (i = b + 12 => s[i].op = "WRITE")
           /\ (i = b + 18 => s[i].op = "READ" /\ s[i].at = "status" /\ s[i].accept = {"DONE"})
           /\ s[i].op # "PULSE"
<1>5. b = 1 => Row(1)
  BY <1>1, <1>3
<1>6. Row(b + 1) /\ Row(b + 2) /\ Row(b + 3) /\ Row(b + 4)
  BY <1>1, <1>3
<1>7. Row(b + 5) /\ Row(b + 6) /\ Row(b + 8) /\ Row(b + 9) /\ Row(b + 11) /\ Row(b + 12)
      /\ Row(b + 14)
  BY <1>1, <1>3
<1>8. Row(b + 7) /\ Row(b + 10) /\ Row(b + 13) /\ Row(b + 15)
  BY <1>1, <1>2
<1>9. Row(b + 16) /\ Row(b + 17) /\ Row(b + 18) /\ Row(b + 19)
  BY <1>1, <1>4
<1>10. \/ b = 1 /\ k = 1
       \/ k = b + 1 \/ k = b + 2 \/ k = b + 3 \/ k = b + 4 \/ k = b + 5 \/ k = b + 6 \/ k = b + 7
       \/ k = b + 8 \/ k = b + 9 \/ k = b + 10 \/ k = b + 11 \/ k = b + 12 \/ k = b + 13
       \/ k = b + 14 \/ k = b + 15 \/ k = b + 16 \/ k = b + 17 \/ k = b + 18 \/ k = b + 19
  BY <1>1
<1>11. Row(k)
  <2> HIDE DEF Row
  <2> QED
    BY <1>5, <1>6, <1>7, <1>8, <1>9, <1>10
<1> QED
  BY <1>11

\* The accesses of execute that have no say in the mailbox, and those that do.
LEMMA OrderingAccess ==
    ASSUME TypeOK, HostInv, NEW op, Doing(op), host.routine \in Command,
           NEW b, b = Base(host.routine)
    PROVE  /\ Ordering /\ b \in 0 .. 1 /\ host.step \in 1 .. b + 19
           /\ (op = "WRITE" /\ Current.at = "command"
                 => host.step = b + 2 /\ Current.value = host.routine)
           /\ (op = "WRITE" /\ Current.at = "status" => host.step = b + 3 /\ Current.value = "IDLE")
           /\ (op = "WRITE" /\ Current.at = "DCRSR" /\ Current.value = "PC" => host.step = b + 12)
           /\ (op = "WRITE" => Current.at # "AIRCR" /\ host.step <= b + 14)
           /\ (host.step = b + 2 => op = "WRITE" /\ Current.at = "command")
           /\ (host.step = b + 3 => op = "WRITE" /\ Current.at = "status")
           /\ (host.step = b + 12 => op = "WRITE")
           /\ (host.step = b + 18 => op = "READ" /\ Current.at = "status" /\ Current.accept = {"DONE"})
           /\ op # "PULSE"
           /\ (AtEnd => host.step = b + 19)
<1> DEFINE s == Execute(host.routine)
           k == host.step
<1>1. /\ Busy /\ k > 0 /\ Current.op = op /\ k \in 1 .. Len(Routine[host.routine])
  BY DoingIs
<1>2. Routine[host.routine] = s
  BY RoutineIs
<1>3. Len(s) = b + 19 /\ b \in 0 .. 1
  BY ExecuteIs
<1>4. k \in 1 .. b + 19 /\ Current = s[k]
  BY <1>1, <1>2, <1>3 DEF Current
<1>5. AtEnd => k >= b + 19
  BY <1>2, <1>3 DEF AtEnd
<1> HIDE DEF s, k
<1>6. /\ (s[k].op = "WRITE" /\ s[k].at = "command" => k = b + 2 /\ s[k].value = host.routine)
      /\ (s[k].op = "WRITE" /\ s[k].at = "status" => k = b + 3 /\ s[k].value = "IDLE")
      /\ (s[k].op = "WRITE" /\ s[k].at = "DCRSR" /\ s[k].value = "PC" => k = b + 12)
      /\ (s[k].op = "WRITE" => s[k].at # "AIRCR" /\ k <= b + 14)
      /\ (k = b + 2 => s[k].op = "WRITE" /\ s[k].at = "command")
      /\ (k = b + 3 => s[k].op = "WRITE" /\ s[k].at = "status")
      /\ (k = b + 12 => s[k].op = "WRITE")
      /\ (k = b + 18 => s[k].op = "READ" /\ s[k].at = "status" /\ s[k].accept = {"DONE"})
      /\ s[k].op # "PULSE"
  BY <1>4, CommandTable DEF s
<1>7. Ordering
  BY <1>1 DEF Ordering, k
<1>8. AtEnd => k = b + 19
  BY <1>3, <1>4, <1>5
<1> QED
  BY <1>1, <1>3, <1>4, <1>6, <1>7, <1>8 DEF k

\* The other routines write neither a mailbox nor a core register.
LEMMA OtherAccess ==
    ASSUME TypeOK, HostInv, NEW op, Doing(op), host.routine \notin Command
    PROVE  /\ (op = "WRITE" => Current.at \in {"DHCSR", "AIRCR", "test", "code"})
           /\ ~Ordering
<1>0. /\ host.routine \in Names /\ host.step \in 1 .. Len(Routine[host.routine])
      /\ Current.op = op /\ Current \in Accesses
      /\ (host.routine \in {"HALT", "IDENTIFY", "RESET", "RECOVER"} => Current \in Harmless)
  BY DoingIs
<1>1. ~Ordering
  BY DEF Ordering
<1>2. CASE host.routine \in {"HALT", "IDENTIFY", "RESET", "RECOVER"}
  BY <1>0, <1>1, <1>2 DEF Harmless
<1>3. \A a, v : Write(a, v).at = a /\ Read(a, v).op = "READ"
  BY DEF Write, Read
<1>4. CASE host.routine = "SELFTEST"
  <2>1. Routine["SELFTEST"] = <<Read("test", Value), Write("test", "PATTERN"), Read("test", {"PATTERN"})>>
    BY RoutineIs DEF SelfTest
  <2>2. Len(Routine["SELFTEST"]) = 3 /\ Routine["SELFTEST"][1].op = "READ"
        /\ Routine["SELFTEST"][2].at = "test" /\ Routine["SELFTEST"][3].op = "READ"
    BY <1>3, <2>1
  <2>3. host.step = 1 \/ host.step = 2 \/ host.step = 3
    BY <1>0, <1>4, <2>2
  <2> QED
    BY <1>0, <1>1, <1>4, <2>2, <2>3 DEF Current
<1>5. CASE host.routine = "RESTORE"
  <2>1. Routine["RESTORE"] = <<Write("test", "GARBAGE")>>
    BY RoutineIs DEF Restore
  <2>2. Len(Routine["RESTORE"]) = 1 /\ Routine["RESTORE"][1].at = "test"
    BY <1>3, <2>1
  <2>3. host.step = 1
    BY <1>0, <1>5, <2>2
  <2> QED
    BY <1>0, <1>1, <1>5, <2>2, <2>3 DEF Current
<1>6. CASE host.routine = "UPLOAD"
  <2>1. Routine["UPLOAD"] = <<Write("code", "BLOB"), Read("code", {"BLOB"})>>
    BY RoutineIs DEF Upload
  <2>2. Len(Routine["UPLOAD"]) = 2 /\ Routine["UPLOAD"][1].at = "code"
        /\ Routine["UPLOAD"][2].op = "READ"
    BY <1>3, <2>1
  <2>3. host.step = 1 \/ host.step = 2
    BY <1>0, <1>6, <2>2
  <2> QED
    BY <1>0, <1>1, <1>6, <2>2, <2>3 DEF Current
<1>7. CASE host.routine = "VERIFY"
  <2>1. Routine["VERIFY"] = <<Read("FLASH", {"IMAGE"})>>
    BY RoutineIs DEF Verify
  <2>2. Len(Routine["VERIFY"]) = 1 /\ Routine["VERIFY"][1].op = "READ"
    BY <1>3, <2>1
  <2>3. host.step = 1
    BY <1>0, <1>7, <2>2
  <2> QED
    BY <1>0, <1>1, <1>7, <2>2, <2>3 DEF Current
<1>8. CASE host.routine = "DUMP"
  <2>1. Routine["DUMP"] = <<Read("FLASH", Value)>>
    BY RoutineIs DEF Dump
  <2>2. Len(Routine["DUMP"]) = 1 /\ Routine["DUMP"][1].op = "READ"
    BY <1>3, <2>1
  <2>3. host.step = 1
    BY <1>0, <1>8, <2>2
  <2> QED
    BY <1>0, <1>1, <1>8, <2>2, <2>3 DEF Current
<1> QED
  BY <1>0, <1>2, <1>4, <1>5, <1>6, <1>7, <1>8, NamesAre DEF Command

-----------------------------------------------------------------------------
(***************************************************************************)
(* The loader and its commands: who may be running what, when.             *)
(***************************************************************************)

\* No command is running, and none will start by itself.
Quiet == core.at = "APP" \/ core.stage = "REPORTED"
\* Nothing was lost on the way to the target.
Sure == port.line # "OFF" /\ ~port.sticky

\* The loader carries out what was ordered, once.
CoreInv ==
    core.at = "LOADER" =>
        /\ (core.stage \in {"ENTRY", "BUSY"} =>
              /\ ordered \in Command /\ progress = "NONE"
              /\ (sram["command"] \in Command => sram["command"] = ordered))
        /\ (core.stage = "HALF" =>
              ordered \in Command /\ progress = "BEGUN" /\ sram["command"] = ordered)
        /\ (core.stage = "PASSED" => progress = "DONE")

\* The command being set up, the mailbox, and what its DONE means.
SetUpInv == Ordering /\ ~Reached(12) => port.line = "OFF" \/ (ordered = host.routine /\ progress = "NONE")
MailboxInv == Reached(2) /\ ~Reached(12) /\ Sure =>
                 (sram["command"] \in Command => sram["command"] = host.routine)
DoneInv == Reached(3) /\ Sure /\ sram["status"] = "DONE" => progress = "DONE" /\ Quiet /\ Reached(12)
CheckedInv == Reached(18) => port.line = "OFF" \/ (progress = "DONE" /\ Quiet)

\* The loader runs only from its start to the end of the command.
QuietInv ==
    Busy /\ ~(host.routine = "CONNECT" /\ host.step = 1) /\ ~Reached(12)
         /\ ~(host.routine = "DISCONNECT" /\ host.status # "OK") => Quiet

CommandInv == CoreInv /\ SetUpInv /\ MailboxInv /\ DoneInv /\ CheckedInv /\ QuietInv

\* How far execute has got: after an access, when it is left, and in a step that leaves the host alone.
LEMMA ReachedStep ==
    ASSUME TypeOK, HostInv, NEW op, Doing(op), Stepped
    PROVE  /\ (Ordering' <=> Ordering) /\ Busy' /\ host'.routine = host.routine
           /\ host'.status = host.status
           /\ \A k \in 0 .. 18 : Reached(k)' <=> (Ordering /\ host.step >= Base(host.routine) + k)
<1>1. Busy /\ host.step > 0 /\ host \in Host /\ host.step \in 0 .. 20
  BY DoingIs DEF TypeOK, Host
<1>2. /\ host'.routine = host.routine /\ host'.step = host.step + 1 /\ host'.job = host.job
      /\ host'.status = host.status
  BY <1>1, SteppedRoutine
<1>3. Busy' /\ (Ordering' <=> Ordering)
  BY <1>1, <1>2 DEF Busy, Ordering
<1>4. ASSUME NEW k \in 0 .. 18
      PROVE  Reached(k)' <=> (Ordering /\ host.step >= Base(host.routine) + k)
  <2> DEFINE n == host.step
             b == Base(host.routine)
  <2>1. n \in 0 .. 20 /\ b \in 0 .. 1
    BY <1>1 DEF Base
  <2>2. Reached(k)' <=> (Ordering /\ n + 1 > b + k)
    BY <1>2, <1>3 DEF Reached
  <2> HIDE DEF n, b
  <2>3. n + 1 > b + k <=> n >= b + k
    BY <2>1
  <2> QED
    BY <2>2, <2>3 DEF n, b
<1> QED
  BY <1>2, <1>3, <1>4

LEMMA LeavesOrder ==
    ASSUME Busy, NEW to, NEW st, NEW status, Leaves(to, st, status)
    PROVE  /\ ~Ordering' /\ (\A k \in 0 .. 18 : ~Reached(k)') /\ Busy'
           /\ host'.routine = to /\ host'.status = st
           /\ to # "CONNECT"
<1>1. host'.routine = to /\ host'.step = FirstStep(to) /\ host'.job = host.job /\ host'.status = st
  BY DEF Leaves, Over
<1>2. ~Ordering'
  BY <1>1 DEF Ordering, FirstStep
<1>3. to # "CONNECT"
  BY PairsAre, NamesAre DEF Leaves
<1> QED
  BY <1>1, <1>2, <1>3 DEF Reached, Busy

LEMMA ReachedSame ==
    ASSUME host' = host
    PROVE  (Ordering' <=> Ordering) /\ \A k \in 0 .. 18 : Reached(k)' <=> Reached(k)
BY DEF Ordering, Reached, Busy

\* How far execute has got, as a comparison of numbers.
LEMMA ReachedIs ==
    ASSUME TypeOK
    PROVE  /\ \A k \in 0 .. 18 : Reached(k) <=> (Ordering /\ host.step > Base(host.routine) + k)
           /\ Base(host.routine) \in 0 .. 1 /\ host.step \in 0 .. 20
BY DEF Reached, Base, TypeOK, Host

\* Nothing is ordered any more once the host has left the command.
LEMMA IdleCommand ==
    ASSUME CoreInv', QuietInv', ~Ordering'
    PROVE  CommandInv'
<1>1. \A k \in 0 .. 18 : ~Reached(k)'
  BY DEF Reached
<1> QED
  BY <1>1 DEF CommandInv, SetUpInv, MailboxInv, DoneInv, CheckedInv

\* A step of the host that only looks at the target.
LEMMA CommandLook ==
    ASSUME Control, CommandInv, NEW op \in {"READ", "POLL"}, Doing(op),
           UNCHANGED <<core, sram, ordered, progress>>, Shifted(port, port'),
           NEW status, host' = host \/ Continue(status),
           host' = host \/ status = "OK" => Linked(port) /\ ~port.sticky,
           op = "READ" /\ status = "OK" /\ host' # host /\ Current.at = "status" =>
                sram["status"] \in Current.accept
    PROVE  CommandInv'
<1>0. /\ TypeOK /\ HostInv /\ host \in Host /\ Busy /\ host.routine \in Names /\ host.step > 0
  BY DoingIs DEF Control, TypeOK
<1>1. CoreInv'
  BY DEF CommandInv, CoreInv
<1>2. /\ port.line = "OFF" => port'.line = "OFF"
      /\ (Linked(port) => port.line # "OFF")
      /\ (Linked(port) /\ ~port.sticky => Sure)
  BY ShiftedOff DEF Linked, Sure
<1>3. Quiet' <=> Quiet
  BY DEF Quiet
<1>4. host.routine \notin {"CONNECT", "DISCONNECT"}
  BY <1>0, NamesAre
<1>5. CASE host' = host
  <2>1. Sure
    BY <1>2, <1>5
  <2>2. (Ordering' <=> Ordering) /\ \A k \in {2, 3, 12, 18} : Reached(k)' <=> Reached(k)
    BY <1>5, ReachedSame
  <2>3. SetUpInv'
    BY <1>2, <1>5, <2>2 DEF CommandInv, SetUpInv
  <2>4. MailboxInv' /\ DoneInv' /\ CheckedInv'
    BY <1>2, <1>3, <1>5, <2>1, <2>2 DEF CommandInv, MailboxInv, DoneInv, CheckedInv
  <2>5. QuietInv'
    BY <1>3, <1>5, <2>2 DEF CommandInv, QuietInv, Busy
  <2> QED
    BY <1>1, <2>3, <2>4, <2>5 DEF CommandInv
<1>6. CASE Stepped /\ status = "OK" /\ host' # host
  <2>0. Sure /\ port.line # "OFF"
    BY <1>2, <1>6
  <2> DEFINE b == Base(host.routine)
             n == host.step
  <2>1. /\ (Ordering' <=> Ordering) /\ host'.routine = host.routine
        /\ \A k \in 0 .. 18 : Reached(k)' <=> (Ordering /\ n >= b + k)
    BY <1>0, <1>6, ReachedStep
  <2>2. /\ \A k \in 0 .. 18 : Reached(k) <=> (Ordering /\ n > b + k)
        /\ b \in 0 .. 1 /\ n \in 0 .. 20
    BY <1>0, ReachedIs
  <2>3. Ordering => /\ n # b + 2 /\ n # b + 3 /\ n # b + 12
                    /\ (n = b + 18 => sram["status"] = "DONE")
    <3>1. ASSUME Ordering
          PROVE  /\ (n = b + 2 => op = "WRITE") /\ (n = b + 3 => op = "WRITE")
                 /\ (n = b + 12 => op = "WRITE")
                 /\ (n = b + 18 => op = "READ" /\ Current.at = "status" /\ Current.accept = {"DONE"})
      <4>1. host.routine \in Command
        BY <3>1 DEF Ordering
      <4> QED
        BY <1>0, <4>1, OrderingAccess
    <3> QED
      BY <1>6, <3>1
  <2> HIDE DEF b, n
  <2>4. /\ (Reached(12) => Reached(12)') /\ (Reached(2)' => Reached(2)) /\ (Reached(3)' => Reached(3))
        /\ (Reached(18)' => Reached(18) \/ (Reached(3) /\ sram["status"] = "DONE"))
    BY <2>1, <2>2, <2>3
  <2>5. SetUpInv'
    BY <2>0, <2>1, <2>4 DEF CommandInv, SetUpInv
  <2>6. MailboxInv'
    BY <2>0, <2>1, <2>4 DEF CommandInv, MailboxInv
  <2>7. DoneInv'
    BY <1>3, <2>0, <2>1, <2>4 DEF CommandInv, DoneInv
  <2>8. CheckedInv'
    BY <1>3, <2>0, <2>4 DEF CommandInv, DoneInv, CheckedInv
  <2>9. QuietInv'
    BY <1>0, <1>3, <1>4, <2>4 DEF CommandInv, QuietInv
  <2> QED
    BY <1>1, <2>5, <2>6, <2>7, <2>8, <2>9 DEF CommandInv
<1>7. ASSUME NEW to, NEW st, Leaves(to, st, status), host' # host
      PROVE  CommandInv'
  <2>1. ~Ordering' /\ host'.routine = to /\ host'.status = st
    BY <1>0, <1>7, LeavesOrder
  <2>2. CASE host.routine \notin Command
    <3>1. Quiet
      <4>1. ~Reached(12)
        BY <2>2 DEF Reached, Ordering
      <4> QED
        BY <1>0, <1>4, <4>1 DEF CommandInv, QuietInv
    <3> QED
      BY <1>1, <1>3, <2>1, <3>1, IdleCommand DEF QuietInv
  <2>3. CASE host.routine \in Command /\ status = "OK"
    <3> DEFINE b == Base(host.routine)
               n == host.step
    <3>1. Ordering /\ n = b + 19
      BY <1>0, <1>7, <2>3, OrderingAccess DEF Leaves
    <3>2. Reached(18) <=> (Ordering /\ n > b + 18)
      BY <1>0, ReachedIs
    <3>3. b \in 0 .. 1 /\ n \in 0 .. 20
      BY <1>0, ReachedIs
    <3> HIDE DEF b, n
    <3>4. Reached(18)
      BY <3>1, <3>2, <3>3
    <3>5. Quiet
      BY <1>2, <2>3, <3>4 DEF CommandInv, CheckedInv
    <3> QED
      BY <1>1, <1>3, <2>1, <3>5, IdleCommand DEF QuietInv
  <2>4. CASE host.routine \in Command /\ status # "OK"
    <3>1. to = "DISCONNECT" /\ st # "OK"
      BY <1>7, <2>4 DEF Leaves, Command
    <3> QED
      BY <1>1, <2>1, <3>1, IdleCommand DEF QuietInv
  <2> QED
    BY <2>2, <2>3, <2>4
<1>8. host' = host \/ (Stepped /\ status = "OK") \/ \E to, st : Leaves(to, st, status)
  BY <1>0, RoutineSteps
<1> QED
  BY <1>5, <1>6, <1>7, <1>8

\* Outside of execute nothing is asked of the core.
LEMMA QuietCore ==
    Quiet => CoreInv
BY DEF Quiet, CoreInv

\* What a write of the host means for the command.
LEMMA CommandWrite ==
    ASSUME Control, CommandInv, WriteStep
    PROVE  CommandInv'
<1>0. /\ TypeOK /\ HostInv /\ PortInv /\ host \in Host /\ core \in Core
      /\ sram \in [Word -> Value]
  BY DEF Control, TypeOK
<1>1. Doing("WRITE") /\ progress' = progress /\ \E t : Wrote(t)
  BY <1>0, WriteStepIs
<1>2. PICK t : Wrote(t)
  BY <1>1
<1> DEFINE a == t.port.hit
           at == Current.at
           value == Current.value
           status == t.status
<1>3. /\ Busy /\ host.routine \in Names /\ host.step > 0 /\ Current \in Accesses
      /\ Current.op = "WRITE"
  BY <1>0, <1>1, DoingIs
<1>4. /\ a \in {at, NoAddress} /\ BusWrite(a, value) /\ Continue(status)
      /\ port' = t.port /\ Shifted(port, port')
      /\ (a # NoAddress => port.line # "OFF" /\ ~port.sticky)
      /\ (status = "OK" => port.line # "OFF" /\ ~port.sticky /\ (a = at \/ port'.sticky))
  BY <1>2, ReachShifts DEF Wrote, Reaches, Linked
<1>5. /\ (a \notin {"AIRCR", "DCRSR"} => core'.at = core.at /\ core'.stage = core.stage)
      /\ (a = "DCRSR" /\ (core.halted = "NO" \/ value # "PC") =>
             core'.at = core.at /\ core'.stage = core.stage)
      /\ (a = "DCRSR" /\ core.halted # "NO" /\ value = "PC" =>
             core'.at = "LOADER" /\ core'.stage = "ENTRY")
      /\ (a = "AIRCR" => core'.at = "APP")
      /\ (a # "AIRCR" => ordered' = ordered)
  BY <1>0, <1>3, <1>4, BusCore, BusCases, RestartIs
<1>6. \A w \in Word : sram'[w] = IF w = a THEN value ELSE sram[w]
  BY <1>0, <1>3, <1>4, BusWords
<1>7. /\ {"command", "status"} \subseteq Word /\ "DCRSR" \notin Word
      /\ NoAddress \notin Word /\ NoAddress \notin {"AIRCR", "DCRSR"}
  BY WordsAre DEF Word, Mailbox, Register
<1>8. port.line = "OFF" => port'.line = "OFF"
  BY <1>4, ShiftedOff
<1>9. (Stepped /\ status = "OK") \/ \E to, st : Leaves(to, st, status)
  BY <1>0, <1>3, <1>4, RoutineSteps
<1> HIDE DEF a, at, value, status
<1>10. host.routine \notin {"CONNECT", "DISCONNECT"}
  BY <1>3, NamesAre
<1>11. CASE host.routine \notin Command
  <2>1. Quiet
    <3>1. ~Reached(12)
      BY <1>11 DEF Reached, Ordering
    <3> QED
      BY <1>3, <1>10, <3>1 DEF CommandInv, QuietInv
  <2>2. a # "DCRSR"
    BY <1>0, <1>1, <1>4, <1>7, <1>11, OtherAccess DEF at
  <2>3. Quiet'
    BY <1>5, <2>1, <2>2 DEF Quiet
  <2>4. ~Ordering'
    <3>1. ~Ordering
      BY <1>11 DEF Ordering
    <3>2. CASE Stepped
      BY <1>0, <1>1, <3>1, <3>2, ReachedStep
    <3>3. ASSUME NEW to, NEW st, Leaves(to, st, status) PROVE ~Ordering'
      BY <1>3, <3>3, LeavesOrder
    <3> QED
      BY <1>9, <3>2, <3>3
  <2>5. CoreInv' /\ QuietInv'
    BY <2>3, QuietCore DEF QuietInv, Quiet, CoreInv
  <2> QED
    BY <2>4, <2>5, IdleCommand
<1>12. CASE host.routine \in Command
  <2> DEFINE b == Base(host.routine)
             n == host.step
  <2>1. /\ Ordering /\ b \in 0 .. 1 /\ n \in 0 .. 20
        /\ (at = "command" => n = b + 2 /\ value = host.routine)
        /\ (at = "status" => n = b + 3 /\ value = "IDLE")
        /\ (at = "DCRSR" /\ value = "PC" => n = b + 12)
        /\ (n = b + 2 => at = "command")
        /\ (n = b + 3 => at = "status")
        /\ at # "AIRCR" /\ n <= b + 14
        /\ (AtEnd => n = b + 19)
    BY <1>0, <1>1, <1>12, OrderingAccess, ReachedIs DEF at, value
  <2>2. \A k \in 0 .. 18 : Reached(k) <=> n > b + k
    BY <1>0, <2>1, ReachedIs
  <2> HIDE DEF b, n
  <2>3. a # "AIRCR" /\ ordered' = ordered
    BY <1>4, <1>5, <1>7, <2>1
  <2> DEFINE go == a = "DCRSR" /\ value = "PC"
  <2>4. /\ (~go => core'.at = core.at /\ core'.stage = core.stage /\ (Quiet' <=> Quiet))
        /\ (go => n = b + 12)
    <3>1. ~go => core'.at = core.at /\ core'.stage = core.stage
      BY <1>5, <2>3
    <3>2. go => at = "DCRSR"
      BY <1>4, <1>7
    <3> QED
      BY <2>1, <3>1, <3>2 DEF Quiet
  <2>5. /\ (sram'["command"] = sram["command"] \/ (a = "command" /\ at = "command"))
        /\ (sram'["status"] = sram["status"] \/ (a = "status" /\ at = "status"))
    BY <1>4, <1>6, <1>7
  <2>6. ~Reached(12) => Quiet
    BY <1>3, <1>10 DEF CommandInv, QuietInv
  <2>7. CoreInv'
    <3>1. CASE go /\ core.halted # "NO"
      <4>1. core'.at = "LOADER" /\ core'.stage = "ENTRY" /\ Sure /\ n = b + 12
        BY <1>4, <1>5, <1>7, <2>4, <3>1 DEF Sure
      <4>2. ~Reached(12) /\ Reached(2)
        BY <2>1, <2>2, <4>1
      <4>3. /\ ordered = host.routine /\ progress = "NONE"
            /\ (sram["command"] \in Command => sram["command"] = host.routine)
        BY <2>1, <4>1, <4>2 DEF CommandInv, SetUpInv, MailboxInv, Sure
      <4>4. sram'["command"] = sram["command"]
        BY <2>5, <3>1
      <4> QED
        BY <1>1, <1>12, <2>3, <4>1, <4>3, <4>4 DEF CoreInv
    <3>2. CASE ~(go /\ core.halted # "NO") /\ a # "command"
      <4>1. core'.at = core.at /\ core'.stage = core.stage
        BY <1>5, <2>3, <3>2
      <4>2. sram'["command"] = sram["command"]
        BY <2>5, <3>2
      <4> QED
        BY <1>1, <2>3, <4>1, <4>2 DEF CommandInv, CoreInv
    <3>3. CASE a = "command"
      <4>1. n = b + 2
        BY <1>4, <1>7, <2>1, <3>3
      <4>2. ~Reached(12)
        BY <2>1, <2>2, <4>1
      <4>3. Quiet'
        BY <2>4, <2>6, <3>3, <4>2
      <4> QED
        BY <4>3 DEF Quiet, CoreInv
    <3> QED
      BY <3>1, <3>2, <3>3
  <2>8. CASE Stepped /\ status = "OK"
    <3>1. /\ Ordering' /\ host'.routine = host.routine /\ Sure
          /\ (a = at \/ port'.sticky)
      BY <1>0, <1>1, <1>4, <2>1, <2>8, ReachedStep DEF Sure
    <3>2. \A k \in 0 .. 18 : Reached(k)' <=> n >= b + k
      BY <1>0, <1>1, <2>1, <2>8, ReachedStep DEF n, b
    <3>3. /\ (~Reached(12)' => ~Reached(12) /\ n # b + 12) /\ (Reached(12) => Reached(12)' /\ n # b + 12)
          /\ (Reached(2)' => n = b + 2 \/ Reached(2))
          /\ (Reached(3)' => n = b + 3 \/ Reached(3))
          /\ ~Reached(18)'
      BY <2>1, <2>2, <3>2
    <3>4. SetUpInv'
      BY <1>1, <1>8, <2>1, <2>3, <3>1, <3>3 DEF CommandInv, SetUpInv
    <3>5. MailboxInv'
      <4>1. SUFFICES ASSUME Reached(2)', ~Reached(12)', Sure'
                     PROVE  sram'["command"] \in Command => sram'["command"] = host'.routine
        BY DEF MailboxInv
      <4>2. a = at
        BY <3>1, <4>1 DEF Sure
      <4>3. CASE n = b + 2
        <5>1. a = "command" /\ value = host.routine
          BY <2>1, <4>2, <4>3
        <5> QED
          BY <1>6, <1>7, <3>1, <5>1
      <4>4. CASE n # b + 2
        <5>1. at # "command" /\ Reached(2)
          BY <2>1, <3>3, <4>1, <4>4
        <5>2. sram'["command"] = sram["command"]
          BY <2>5, <5>1
        <5> QED
          BY <3>1, <3>3, <4>1, <5>1, <5>2 DEF CommandInv, MailboxInv
      <4> QED
        BY <4>3, <4>4
    <3>6. DoneInv'
      <4>1. SUFFICES ASSUME Reached(3)', Sure', sram'["status"] = "DONE"
                     PROVE  progress' = "DONE" /\ Quiet' /\ Reached(12)'
        BY DEF DoneInv
      <4>2. a = at
        BY <3>1, <4>1 DEF Sure
      <4>3. n # b + 3
        BY <1>6, <1>7, <2>1, <4>1, <4>2
      <4>4. at # "status" /\ Reached(3)
        BY <2>1, <3>3, <4>1, <4>3
      <4>5. progress = "DONE" /\ Quiet /\ Reached(12)
        BY <2>5, <3>1, <4>1, <4>4 DEF CommandInv, DoneInv
      <4> QED
        BY <1>1, <2>4, <3>3, <4>5
    <3>7. CheckedInv'
      BY <3>3 DEF CheckedInv
    <3>8. QuietInv'
      BY <2>4, <2>6, <3>3 DEF QuietInv
    <3> QED
      BY <2>7, <3>4, <3>5, <3>6, <3>7, <3>8 DEF CommandInv
  <2>9. ASSUME NEW to, NEW st, Leaves(to, st, status)
        PROVE  CommandInv'
    <3>1. ~Ordering' /\ host'.routine = to /\ host'.status = st
      BY <1>3, <2>9, LeavesOrder
    <3>2. status # "OK"
      BY <2>1, <2>9 DEF Leaves
    <3>3. to = "DISCONNECT" /\ st # "OK"
      BY <1>12, <2>9, <3>2 DEF Leaves, Command
    <3>4. QuietInv'
      BY <3>1, <3>3 DEF QuietInv
    <3> QED
      BY <2>7, <3>1, <3>4, IdleCommand
  <2> QED
    BY <1>9, <2>8, <2>9
<1> QED
  BY <1>11, <1>12

\* CommandInv, one kind of step after the other.
LEMMA CommandRead ==
    ASSUME Control, CommandInv, ReadStep
    PROVE  CommandInv'
<1>0. TypeOK /\ HostInv /\ PortInv
  BY DEF Control
<1>1. Doing("READ") /\ UNCHANGED <<target, events, history>> /\ \E t, status : Took(t, status)
  BY <1>0, ReadStepIs
<1>2. PICK t, status : Took(t, status)
  BY <1>1
<1>3. UNCHANGED <<core, sram, ordered, progress>>
  BY <1>1 DEF target, history
<1>4. Shifted(port, port')
  BY <1>2, ReachShifts DEF Took
<1>5. /\ Continue(status) /\ (status = "OK" => Linked(port) /\ ~port.sticky)
      /\ (status = "OK" /\ Current.at = "status" => sram["status"] \in Current.accept)
  BY <1>2, HeldIs DEF Took
<1>6. host' = host => status = "OK"
  BY <1>0, <1>1, <1>5, SameRoutine
<1> QED
  BY <1>1, <1>3, <1>4, <1>5, <1>6, CommandLook

LEMMA CommandPoll ==
    ASSUME Control, CommandInv, PollStep
    PROVE  CommandInv'
<1>0. TypeOK /\ HostInv /\ PortInv
  BY DEF Control
<1>1. Doing("POLL") /\ UNCHANGED <<target, events, history>>
  BY <1>0, PollStepIs
<1>2. PICK t : /\ Reaches(port, "DHCSR", t) /\ port' = t.port
               /\ \/ UNCHANGED host /\ Linked(port) /\ ~port.sticky
                  \/ \E status : Polled(t, status)
  BY <1>0, PollStepIs
<1>3. UNCHANGED <<core, sram, ordered, progress>>
  BY <1>1 DEF target, history
<1>4. Shifted(port, port')
  BY <1>2, ReachShifts
<1>5. CASE UNCHANGED host /\ Linked(port) /\ ~port.sticky
  BY <1>1, <1>3, <1>4, <1>5, CommandLook
<1>6. ASSUME NEW status, Polled(t, status)
      PROVE  CommandInv'
  <2>1. Continue(status) /\ (status = "OK" => Linked(port) /\ ~port.sticky)
    BY <1>6 DEF Polled
  <2>2. host' = host => status = "OK"
    BY <1>0, <1>1, <2>1, SameRoutine
  <2> QED
    BY <1>1, <1>3, <1>4, <2>1, <2>2, CommandLook
<1> QED
  BY <1>2, <1>5, <1>6

LEMMA CommandPulse ==
    ASSUME Control, CommandInv, PulseStep
    PROVE  CommandInv'
<1>0. TypeOK /\ HostInv /\ PortInv /\ host \in Host /\ core \in Core
  BY DEF Control, TypeOK
<1>1. /\ Doing("PULSE") /\ UNCHANGED <<port, sram, flash, events, progress, foreign>>
      /\ \E status : Continue(status)
      /\ (Restart \/ UNCHANGED <<core, ordered>>)
  BY PulseStepIs
<1>2. PICK status : Continue(status)
  BY <1>1
<1>3. Busy /\ host.routine \in Names /\ host.step > 0
  BY <1>0, <1>1, DoingIs
<1>4. host.routine \notin Command
  BY <1>0, <1>1, OrderingAccess
<1>5. ~Ordering /\ ~Reached(12)
  BY <1>4 DEF Ordering, Reached
<1>6. Quiet
  BY <1>3, <1>5, NamesAre DEF CommandInv, QuietInv
<1>7. Quiet'
  BY <1>0, <1>1, <1>6, RestartIs DEF Quiet
<1>8. ~Ordering'
  <2>1. CASE Stepped
    BY <1>0, <1>1, <1>5, <2>1, ReachedStep
  <2>2. ASSUME NEW to, NEW st, Leaves(to, st, status) PROVE ~Ordering'
    BY <1>3, <2>2, LeavesOrder
  <2> QED
    BY <1>0, <1>2, <1>3, <2>1, <2>2, RoutineSteps
<1>9. CoreInv' /\ QuietInv'
  BY <1>7 DEF QuietInv, Quiet, CoreInv
<1> QED
  BY <1>8, <1>9, IdleCommand

LEMMA CommandHost ==
    ASSUME Control, CommandInv,
           ConnectStep \/ Iterate \/ DisconnectStep \/ \E j \in DOMAIN Job : StartJob(j)
    PROVE  CommandInv'
<1>0. /\ TypeOK /\ HostInv /\ PortInv /\ host \in Host /\ core \in Core /\ port \in Port
  BY DEF Control, TypeOK
<1>1. CASE ConnectStep
  <2>1. /\ Busy /\ host.routine = "CONNECT" /\ Busy'
        /\ IF host.step = 1 /\ port.present THEN Restart ELSE UNCHANGED <<core, ordered>>
        /\ (host.step = 1 /\ ~port.present => host'.routine = "DISCONNECT")
        /\ UNCHANGED <<sram, flash, events, progress, foreign>>
        /\ \/ host'.routine = "CONNECT"
           \/ host'.routine = Following /\ host'.step = FirstStep(Following)
           \/ host'.routine = "DISCONNECT" /\ host'.status = "ERROR"
        /\ (host'.routine = "DISCONNECT" => host'.status = "ERROR")
    <3>1. <<"CONNECT", Following>> \in Pairs => Following # "DISCONNECT"
      BY PairsAre, NamesAre
    <3> HIDE DEF Following
    <3> QED
      BY <1>0, <1>1, <3>1, ConnectStepIs
  <2> HIDE DEF Following
  <2>2. ~Ordering'
    BY <2>1 DEF Ordering, FirstStep, Command
  <2>3. CASE host.step = 1 /\ ~port.present
    <3>1. UNCHANGED <<core, ordered>> /\ host'.routine = "DISCONNECT" /\ host'.status # "OK"
      BY <2>1, <2>3
    <3>2. CoreInv' /\ QuietInv'
      BY <2>1, <3>1 DEF CommandInv, CoreInv, QuietInv
    <3> QED
      BY <2>2, <3>2, IdleCommand
  <2>4. CASE host.step = 1 /\ port.present
    <3>1. core'.at = "APP"
      BY <1>0, <2>1, <2>4, RestartIs
    <3>2. CoreInv' /\ QuietInv'
      BY <3>1 DEF QuietInv, Quiet, CoreInv
    <3> QED
      BY <2>2, <3>2, IdleCommand
  <2>5. CASE host.step # 1
    <3>1. ~Reached(12)
      BY <2>1 DEF Reached, Ordering, Command
    <3>2. Quiet /\ UNCHANGED <<core, ordered>>
      BY <2>1, <2>5, <3>1 DEF CommandInv, QuietInv
    <3>3. CoreInv' /\ QuietInv'
      BY <3>2 DEF QuietInv, Quiet, CoreInv
    <3> QED
      BY <2>2, <3>3, IdleCommand
  <2> QED
    BY <2>3, <2>4, <2>5
<1>2. CASE Iterate
  <2>1. /\ Busy /\ host.step = 0 /\ UNCHANGED <<port, target, events, foreign>>
        /\ host.routine \in Command \cup Stoppable
        /\ host'.step = 1
        /\ \/ host'.routine \notin Command
           \/ /\ host'.routine = host.routine /\ ordered' = host.routine /\ progress' = "NONE"
    BY <1>0, <1>2, IterateIs DEF Command, Stoppable
  <2>2. Quiet
    <3>1. ~Reached(12) /\ host.routine \notin {"CONNECT", "DISCONNECT"}
      BY <2>1 DEF Reached, Ordering, Command, Stoppable
    <3> QED
      BY <2>1, <3>1 DEF CommandInv, QuietInv
  <2>3. CoreInv' /\ QuietInv'
    BY <2>1, <2>2 DEF QuietInv, Quiet, CoreInv, target
  <2>4. SetUpInv'
    BY <2>1 DEF SetUpInv, Ordering
  <2>5. ~Reached(2)' /\ ~Reached(3)' /\ ~Reached(18)'
    BY <2>1 DEF Reached, Base
  <2> QED
    BY <2>3, <2>4, <2>5 DEF CommandInv, MailboxInv, DoneInv, CheckedInv
<1>3. CASE DisconnectStep
  <2>1. ~Busy' /\ UNCHANGED <<target, events, history>>
    BY <1>0, <1>3, DisconnectIs
  <2>2. ~Ordering' /\ CoreInv' /\ QuietInv'
    BY <2>1 DEF Ordering, CommandInv, CoreInv, QuietInv, target, history
  <2> QED
    BY <2>2, IdleCommand
<1>4. ASSUME NEW j \in DOMAIN Job, StartJob(j)
      PROVE  CommandInv'
  <2>1. /\ host'.routine = "CONNECT" /\ host'.step = 1
        /\ UNCHANGED <<port, target, events, history>>
    BY <1>0, <1>4, StartJobIs
  <2>2. ~Ordering' /\ CoreInv' /\ QuietInv'
    BY <2>1 DEF Ordering, Command, CommandInv, CoreInv, QuietInv, target, history
  <2> QED
    BY <2>2, IdleCommand
<1> QED
  BY <1>1, <1>2, <1>3, <1>4

\* A step of the target or of its user: the host is where it was.
LEMMA CommandStill ==
    ASSUME CommandInv, UNCHANGED host
    PROVE  /\ (Ordering' <=> Ordering) /\ (Busy' <=> Busy)
           /\ \A k \in {2, 3, 12, 18} : Reached(k)' <=> Reached(k)
           /\ (~Quiet /\ Ordering => Reached(12))
           /\ (Quiet' => CoreInv' /\ QuietInv') /\ (~Quiet => QuietInv')
<1>1. (Ordering' <=> Ordering) /\ \A k \in 0 .. 18 : Reached(k)' <=> Reached(k)
  BY ReachedSame
<1>2. Ordering => Busy /\ host.routine \notin {"CONNECT", "DISCONNECT"}
  BY DEF Ordering, Command
<1>3. (Busy' <=> Busy)
  BY DEF Busy
<1>4. Quiet' => CoreInv' /\ QuietInv'
  BY DEF CoreInv, QuietInv, Quiet
<1>5. ~Quiet => QuietInv'
  BY <1>1, <1>3 DEF CommandInv, QuietInv
<1>6. ~Quiet /\ Ordering => Reached(12)
  BY <1>2 DEF CommandInv, QuietInv
<1> QED
  BY <1>1, <1>3, <1>4, <1>5, <1>6

LEMMA CommandCore ==
    ASSUME Control, CommandInv, CoreStep
    PROVE  CommandInv'
<1>0. /\ TypeOK /\ core \in Core /\ sram \in Words /\ flash \in [Sector -> Content]
  BY DEF Control, TypeOK, Words
<1> DEFINE Still == UNCHANGED <<port, host, ordered>>
<1>1. ASSUME UNCHANGED <<port, host, ordered, progress>>, Quiet, Quiet',
             sram' = sram \/ (sram'["command"] \notin Command /\ sram'["status"] # "DONE")
      PROVE  CommandInv'
  <2>1. /\ (Ordering' <=> Ordering)
        /\ \A k \in {2, 3, 12, 18} : Reached(k)' <=> Reached(k)
        /\ CoreInv' /\ QuietInv'
    BY <1>1, CommandStill
  <2>2. Sure' <=> Sure
    BY <1>1 DEF Sure
  <2>3. SetUpInv' /\ CheckedInv'
    BY <1>1, <2>1 DEF CommandInv, SetUpInv, CheckedInv
  <2>4. MailboxInv' /\ DoneInv'
    BY <1>1, <2>1, <2>2 DEF CommandInv, MailboxInv, DoneInv
  <2> QED
    BY <2>1, <2>3, <2>4 DEF CommandInv
<1>2. ASSUME Still, ~Quiet, CoreInv',
             \/ sram'["status"] = sram["status"]
             \/ sram'["status"] # "DONE"
             \/ Quiet' /\ progress' = "DONE"
      PROVE  CommandInv'
  <2>1. /\ (Ordering' <=> Ordering) /\ (Ordering => Reached(12)) /\ QuietInv'
        /\ \A k \in {2, 3, 12, 18} : Reached(k)' <=> Reached(k)
    BY <1>2, CommandStill
  <2>2. Sure' <=> Sure
    BY <1>2 DEF Sure
  <2>3. SetUpInv' /\ MailboxInv'
    BY <2>1 DEF SetUpInv, MailboxInv, Reached
  <2>4. CheckedInv'
    BY <1>2, <2>1 DEF CommandInv, CheckedInv
  <2>5. DoneInv'
    <3>1. Reached(3) => Ordering
      BY DEF Reached
    <3> QED
      BY <1>2, <2>1, <2>2, <3>1 DEF CommandInv, DoneInv
  <2> QED
    BY <1>2, <2>1, <2>3, <2>4, <2>5 DEF CommandInv
<1>3. CASE AppWrites
  <2>1. /\ core.at = "APP" /\ UNCHANGED <<port, core, flash, host, events, history>>
        /\ \A w \in Word : sram'[w] = "GARBAGE"
    BY <1>3, AppWritesIs
  <2>2. "command" \in Word /\ "status" \in Word /\ "GARBAGE" \notin Command
    BY DEF Word, Mailbox, Command
  <2> QED
    BY <1>1, <2>1, <2>2 DEF Quiet, history
<1>4. CASE AppBreak
  <2>1. core.at = "APP" /\ core'.at = "APP" /\ UNCHANGED <<port, sram, flash, host, events, history>>
    BY <1>0, <1>4, AppBreakIs
  <2> QED
    BY <1>1, <2>1 DEF Quiet, history
<1>5. CASE LoaderStart
  <2>1. /\ core.at = "LOADER" /\ core.stage = "ENTRY"
        /\ UNCHANGED <<port, flash, host, events, history>>
        /\ \/ core'.at = "APP" /\ sram' = sram
           \/ core'.stage = "REPORTED" /\ sram'["status"] = "ERROR"
           \/ /\ core'.at = "LOADER" /\ core'.stage = "BUSY"
              /\ sram'["status"] = "BUSY" /\ sram'["command"] = sram["command"]
    BY <1>0, <1>5, LoaderStartIs
  <2>2. CoreInv'
    BY <2>1 DEF CommandInv, CoreInv, history
  <2>3. Still /\ ~Quiet /\ (sram'["status"] = sram["status"] \/ sram'["status"] # "DONE")
    BY <2>1 DEF Quiet, history
  <2> HIDE DEF Still
  <2> QED
    BY <1>2, <2>2, <2>3
<1>6. CASE LoaderBegins
  <2>1. /\ core.at = "LOADER" /\ core.stage = "BUSY"
        /\ UNCHANGED <<port, host, events, ordered, foreign>>
        /\ \/ /\ sram["command"] \in Command /\ sram' = sram /\ core'.stage = "HALF"
              /\ progress' = "BEGUN"
           \/ core'.stage = "REPORTED" /\ sram'["status"] = "ERROR"
    BY <1>0, <1>6, LoaderBeginsIs
  <2>2. CoreInv'
    BY <2>1 DEF CommandInv, CoreInv
  <2>3. Still /\ ~Quiet /\ (sram'["status"] = sram["status"] \/ sram'["status"] # "DONE")
    BY <2>1 DEF Quiet
  <2> HIDE DEF Still
  <2> QED
    BY <1>2, <2>2, <2>3
<1>7. CASE LoaderFinishes
  <2>0. core.at = "LOADER" /\ core.stage = "HALF"
    BY <1>7 DEF LoaderFinishes, Runs
  <2>1. sram["command"] \in Command
    BY <2>0 DEF CommandInv, CoreInv
  <2>2. /\ UNCHANGED <<port, sram, host, events, ordered, foreign>>
        /\ \/ core'.stage = "PASSED" /\ progress' = "DONE"
           \/ core'.stage = "FAILED"
    BY <1>0, <1>7, <2>1, LoaderFinishesIs
  <2>3. CoreInv'
    BY <2>2 DEF CoreInv
  <2>4. Still /\ ~Quiet /\ sram'["status"] = sram["status"]
    BY <2>0, <2>2 DEF Quiet
  <2> HIDE DEF Still
  <2> QED
    BY <1>2, <2>3, <2>4
<1>8. CASE LoaderEnds
  <2>1. /\ core.at = "LOADER" /\ core.stage \in {"PASSED", "FAILED"} /\ core'.stage = "REPORTED"
        /\ UNCHANGED <<port, flash, host, events, history>>
        /\ sram'["status"] = (IF core.stage = "PASSED" THEN "DONE" ELSE "ERROR")
    BY <1>0, <1>8, LoaderEndsIs
  <2>2. CoreInv' /\ Quiet'
    BY <2>1 DEF CoreInv, Quiet
  <2>3. Still /\ ~Quiet /\ (sram'["status"] # "DONE" \/ progress' = "DONE")
    BY <2>1 DEF CommandInv, CoreInv, Quiet, history
  <2> HIDE DEF Still
  <2> QED
    BY <1>2, <2>2, <2>3
<1> QED
  BY <1>3, <1>4, <1>5, <1>6, <1>7, <1>8 DEF CoreStep

LEMMA CommandUser ==
    ASSUME Control, CommandInv, User
    PROVE  CommandInv'
<1>0. /\ TypeOK /\ HostInv /\ PortInv /\ core \in Core /\ port \in Port /\ events \in 0 .. MaxEvents
  BY DEF Control, TypeOK
<1>1. CASE ResetButton
  <2>1. Restart /\ UNCHANGED <<port, sram, flash, host, progress, foreign>>
    BY <1>0, <1>1, ResetButtonIs
  <2>2. core'.at = "APP" /\ (Ordering => ordered' = ordered)
    BY <1>0, <2>1, RestartIs DEF HostInv, Ordering
  <2>3. Quiet'
    BY <2>2 DEF Quiet
  <2>4. /\ (Ordering' <=> Ordering) /\ \A k \in {2, 3, 12, 18} : Reached(k)' <=> Reached(k)
        /\ CoreInv' /\ QuietInv'
    BY <2>1, <2>3, CommandStill
  <2>5. Sure' <=> Sure
    BY <2>1 DEF Sure
  <2>6. SetUpInv' /\ CheckedInv'
    BY <2>1, <2>2, <2>3, <2>4 DEF CommandInv, SetUpInv, CheckedInv
  <2>7. MailboxInv' /\ DoneInv'
    BY <2>1, <2>3, <2>4, <2>5 DEF CommandInv, MailboxInv, DoneInv
  <2> QED
    BY <2>4, <2>6, <2>7 DEF CommandInv
<1>2. ASSUME port'.line = "OFF", CoreInv', QuietInv'
      PROVE  CommandInv'
  BY <1>2 DEF CommandInv, SetUpInv, MailboxInv, DoneInv, CheckedInv, Sure
<1>3. CASE Unplug
  <2>1. port'.line = "OFF" /\ UNCHANGED <<target, host, history>>
    BY <1>0, <1>3, UnplugIs
  <2>2. CoreInv'
    BY <2>1 DEF CommandInv, CoreInv, target, history
  <2>3. QuietInv'
    <3>1. (Quiet => Quiet') /\ UNCHANGED host
      BY <2>1 DEF Quiet, target
    <3> QED
      BY <3>1, CommandStill
  <2> QED
    BY <1>2, <2>1, <2>2, <2>3
<1>4. ASSUME NEW chip \in Chip, Plug(chip)
      PROVE  CommandInv'
  <2>1. port'.line = "OFF" /\ core'.at = "APP" /\ UNCHANGED host
    BY <1>0, <1>4, PlugIs DEF But, Field
  <2>2. CoreInv' /\ QuietInv'
    BY <2>1 DEF CoreInv, QuietInv, Quiet
  <2> QED
    BY <1>2, <2>1, <2>2
<1> QED
  BY <1>1, <1>3, <1>4 DEF User

\* Every step keeps CommandInv.
LEMMA StepCommand ==
    ASSUME Control, CommandInv, [Next]_vars
    PROVE  CommandInv'
<1>1. CASE UNCHANGED vars
  <2>1. UNCHANGED <<port, core, sram, host, ordered, progress>>
    BY <1>1 DEF vars, target, history
  <2>2. /\ (Ordering' <=> Ordering) /\ (Busy' <=> Busy)
        /\ \A k \in {2, 3, 12, 18} : Reached(k)' <=> Reached(k)
    BY <2>1, CommandStill
  <2>3. (Quiet' <=> Quiet) /\ (Sure' <=> Sure)
    BY <2>1 DEF Quiet, Sure
  <2>4. CoreInv' /\ QuietInv'
    BY <2>1, <2>2, <2>3 DEF CommandInv, CoreInv, QuietInv
  <2>5. SetUpInv' /\ MailboxInv'
    BY <2>1, <2>2, <2>3 DEF CommandInv, SetUpInv, MailboxInv
  <2>6. DoneInv' /\ CheckedInv'
    BY <2>1, <2>2, <2>3 DEF CommandInv, DoneInv, CheckedInv
  <2> QED
    BY <2>4, <2>5, <2>6 DEF CommandInv
<1> QED
  BY <1>1, CommandWrite, CommandRead, CommandPoll, CommandPulse, CommandHost, CommandCore,
     CommandUser DEF Next, HostStep

-----------------------------------------------------------------------------
(***************************************************************************)
(* The reset an operation ends with: the application runs after it, and no *)
(* command of the loader is left behind.                                   *)
(***************************************************************************)
Settled == core.at = "APP" /\ ordered = "NONE"

ResetInv ==
    /\ (host.routine = "RESET" /\ host.step = 2 => port.line = "OFF" \/ port.sticky \/ Settled)
    /\ (host.routine \in {"RESET", "RECOVER"} /\ host.step = 3 => Settled)
    /\ (host.routine = "RECOVER" /\ host.step = 2 => Settled)
    /\ (host.routine = "DISCONNECT" /\ host.status = "OK" => Settled /\ core.halted # "HOST")

\* The accesses of cortexm_system_reset and of its fallback.
LEMMA ResetAccess ==
    ASSUME TypeOK, HostInv, NEW op, Doing(op), host.routine \in {"RESET", "RECOVER"}
    PROVE  /\ host.step = 1 \/ host.step = 2 \/ host.step = 3
           /\ (host.step = 1 /\ host.routine = "RESET" => op = "WRITE" /\ Current.at = "AIRCR")
           /\ (host.step = 1 /\ host.routine = "RECOVER" => op = "PULSE")
           /\ (host.step = 2 => op = "WRITE" /\ Current.at = "DHCSR" /\ Current.value = "RUN")
           /\ (host.step = 3 => op = "POLL" /\ Current = RunningPoll)
           /\ (AtEnd <=> host.step = 3)
<1> DEFINE s == Routine[host.routine]
<1>1. Current.op = op /\ host.step \in 1 .. Len(s)
  BY DoingIs
<1>2. /\ Len(s) = 3 /\ s[2] = Write("DHCSR", "RUN") /\ s[3] = RunningPoll
      /\ (host.routine = "RESET" => s[1] = Write("AIRCR", "SYSRESETREQ"))
      /\ (host.routine = "RECOVER" => s[1] = Pulse)
  <2>1. CASE host.routine = "RESET"
    <3>1. /\ Len(SystemReset) = 3 /\ SystemReset[1] = Write("AIRCR", "SYSRESETREQ")
          /\ SystemReset[2] = Write("DHCSR", "RUN") /\ SystemReset[3] = RunningPoll
      BY TailsAre
    <3> QED
      BY <2>1, <3>1, RoutineIs
  <2>2. CASE host.routine = "RECOVER"
    <3>1. /\ Len(Recover) = 3 /\ Recover[1] = Pulse
          /\ Recover[2] = Write("DHCSR", "RUN") /\ Recover[3] = RunningPoll
      BY TailsAre
    <3> QED
      BY <2>2, <3>1, RoutineIs
  <2> QED
    BY <2>1, <2>2
<1>3. host.step = 1 \/ host.step = 2 \/ host.step = 3
  BY <1>1, <1>2
<1>4. Current = s[host.step]
  BY DEF Current
<1>5. AtEnd <=> host.step = 3
  BY <1>2, <1>3 DEF AtEnd
<1>6. /\ Write("DHCSR", "RUN").op = "WRITE" /\ Write("DHCSR", "RUN").at = "DHCSR"
      /\ Write("DHCSR", "RUN").value = "RUN" /\ Write("AIRCR", "SYSRESETREQ").op = "WRITE"
      /\ Write("AIRCR", "SYSRESETREQ").at = "AIRCR" /\ Pulse.op = "PULSE"
  BY DEF Write, Pulse
<1>7. RunningPoll.op = "POLL"
  BY DEF RunningPoll, Wait
<1> HIDE DEF s
<1> QED
  BY <1>1, <1>2, <1>3, <1>4, <1>5, <1>6, <1>7

\* A core polled as running is not halted.
LEMMA RunningIs ==
    ASSUME NEW bit \in DhcsrBit(RunningPoll.value), bit \in RunningPoll.accept
    PROVE  core.halted = "NO"
<1>1. RunningPoll.value = "S_HALT"
  BY DEF RunningPoll, Wait
<1>2. RunningPoll.accept = {FALSE}
  BY DEF RunningPoll, Wait
<1>3. DhcsrBit("S_HALT") = {core.halted # "NO"}
  BY Zenon DEF DhcsrBit
<1>4. bit = (core.halted # "NO")
  BY <1>1, <1>3
<1>5. bit = FALSE
  BY <1>2
<1> QED
  BY <1>4, <1>5

\* A step of the host that leads nowhere near the end of a reset.
LEMMA ResetEnters ==
    ASSUME host'.routine \in {"RESET", "RECOVER"} => host'.step = 1,
           host'.routine = "DISCONNECT" => host'.status # "OK"
    PROVE  ResetInv'
BY DEF ResetInv

\* A step of a routine, given what it does to the target.
LEMMA ResetStep ==
    ASSUME Control, ResetInv, NEW op, Doing(op), NEW status, Continue(status),
           op = "WRITE" /\ status = "OK" /\ Current.at = "AIRCR" => port'.sticky \/ Settled',
           op = "WRITE" /\ status = "OK" => port.line # "OFF" /\ ~port.sticky,
           op = "WRITE" /\ Current.at = "DHCSR" /\ Settled => Settled',
           op = "PULSE" /\ status = "OK" => Settled',
           op = "POLL" /\ status = "OK" /\ Settled => Settled',
           op = "POLL" /\ status = "OK" /\ Current = RunningPoll => core'.halted = "NO"
    PROVE  ResetInv'
<1>0. /\ TypeOK /\ HostInv /\ host \in Host /\ Busy /\ host.routine \in Names /\ host.step > 0
  BY DoingIs DEF Control, TypeOK
<1>1. host.routine \in {"RESET", "RECOVER"} =>
         /\ host.step = 1 \/ host.step = 2 \/ host.step = 3
         /\ (host.step = 1 /\ host.routine = "RESET" => op = "WRITE" /\ Current.at = "AIRCR")
         /\ (host.step = 1 /\ host.routine = "RECOVER" => op = "PULSE")
         /\ (host.step = 2 => op = "WRITE" /\ Current.at = "DHCSR")
         /\ (host.step = 3 => op = "POLL" /\ Current = RunningPoll)
         /\ (AtEnd <=> host.step = 3)
  BY <1>0, ResetAccess
<1>2. CASE status = "OK" /\ ~AtEnd /\ Stepped
  <2>1. host'.routine = host.routine /\ host'.step = host.step + 1
    BY <1>0, <1>2, SteppedRoutine
  <2>2. CASE host.routine \notin {"RESET", "RECOVER"}
    BY <1>0, <2>1, <2>2, NamesAre, ResetEnters
  <2>3. CASE host.routine \in {"RESET", "RECOVER"} /\ host.step = 1
    <3>1. host'.step = 2 /\ host'.routine # "DISCONNECT"
      BY <2>1, <2>3
    <3>2. CASE host.routine = "RESET"
      BY <1>1, <1>2, <2>1, <2>3, <3>1, <3>2 DEF ResetInv
    <3>3. CASE host.routine = "RECOVER"
      BY <1>1, <1>2, <2>1, <2>3, <3>1, <3>3 DEF ResetInv
    <3> QED
      BY <2>3, <3>2, <3>3
  <2>4. CASE host.routine \in {"RESET", "RECOVER"} /\ host.step = 2
    <3>1. host'.step = 3 /\ host'.routine # "DISCONNECT"
      BY <2>1, <2>4
    <3>2. Settled
      BY <1>1, <1>2, <2>4 DEF ResetInv
    <3> QED
      BY <1>1, <2>4, <3>1, <3>2 DEF ResetInv
  <2> QED
    BY <1>1, <1>2, <2>2, <2>3, <2>4
<1>3. ASSUME NEW to, NEW st, Leaves(to, st, status)
      PROVE  ResetInv'
  <2>1. /\ host'.routine = to /\ host'.status = st /\ host'.step = FirstStep(to)
        /\ (status = "OK" => AtEnd)
        /\ (to = "DISCONNECT" /\ st = "OK" => status = "OK" /\ host.routine \in {"RESET", "RECOVER"})
    BY <1>3 DEF Leaves, Over
  <2>2. to \in {"RESET", "RECOVER"} => host'.step = 1
    BY <2>1 DEF FirstStep, Command, Stoppable
  <2>3. CASE to = "DISCONNECT" /\ st = "OK"
    <3>1. op = "POLL" /\ Current = RunningPoll /\ status = "OK" /\ Settled
      BY <1>1, <2>1, <2>3 DEF ResetInv
    <3>2. Settled' /\ core'.halted = "NO"
      BY <3>1
    <3> QED
      BY <2>1, <2>3, <3>2 DEF ResetInv
  <2>4. CASE ~(to = "DISCONNECT" /\ st = "OK")
    BY <2>1, <2>2, <2>4, ResetEnters
  <2> QED
    BY <2>3, <2>4
<1> QED
  BY <1>0, <1>2, <1>3, RoutineSteps

\* A step of the target or of its user.
LEMMA ResetStill ==
    ASSUME ResetInv, UNCHANGED host,
           port.line = "OFF" \/ port.sticky => port'.line = "OFF" \/ port'.sticky \/ Settled',
           Settled => Settled' /\ (core.halted # "HOST" => core'.halted # "HOST")
    PROVE  ResetInv'
BY DEF ResetInv

\* An access keeps ResetInv, and so does every step.
LEMMA ResetRoutines ==
    ASSUME Control, ResetInv, WriteStep \/ ReadStep \/ PollStep \/ PulseStep
    PROVE  ResetInv'
<1>0. /\ TypeOK /\ HostInv /\ PortInv /\ host \in Host /\ core \in Core
  BY DEF Control, TypeOK
<1>1. ASSUME Restart, host.command # "PENDING"
      PROVE  Settled'
  BY <1>0, <1>1, RestartIs DEF Settled
<1>2. CASE WriteStep
  <2>1. Doing("WRITE") /\ \E t : Wrote(t)
    BY <1>0, <1>2, WriteStepIs
  <2>2. PICK t : Wrote(t)
    BY <2>1
  <2>3. Current \in Accesses /\ Current.op = "WRITE"
    BY <1>0, <2>1, DoingIs
  <2> DEFINE a == t.port.hit
             status == t.status
  <2>4. /\ a \in {Current.at, NoAddress} /\ BusWrite(a, Current.value) /\ Continue(status)
        /\ port' = t.port
        /\ (status = "OK" => port.line # "OFF" /\ ~port.sticky /\ (a = Current.at \/ port'.sticky))
    BY <2>2 DEF Wrote, Linked
  <2>5. /\ (a \notin {"AIRCR", "DCRSR"} => core'.at = core.at)
        /\ (a = "AIRCR" => Restart) /\ (a # "AIRCR" => ordered' = ordered)
    BY <1>0, <2>3, <2>4, BusCore, BusCases
  <2>6. NoAddress \notin {"AIRCR", "DCRSR"}
    BY WordsAre DEF Register
  <2> HIDE DEF a, status
  <2>7. Current.at = "DHCSR" /\ Settled => Settled'
    BY <2>4, <2>5, <2>6 DEF Settled
  <2>8. ASSUME status = "OK", Current.at = "AIRCR"
        PROVE  port'.sticky \/ Settled'
    <3>1. host.routine \notin Command
      BY <1>0, <2>1, <2>8, OrderingAccess
    <3>2. host.command # "PENDING"
      BY <1>0, <3>1 DEF HostInv
    <3> QED
      BY <1>1, <2>4, <2>5, <2>8, <3>2
  <2> QED
    BY <2>1, <2>4, <2>7, <2>8, ResetStep
<1>3. CASE ReadStep
  <2>1. Doing("READ") /\ \E t, status : Took(t, status)
    BY <1>0, <1>3, ReadStepIs
  <2>2. PICK status : Continue(status)
    BY <2>1 DEF Took
  <2> QED
    BY <2>1, <2>2, ResetStep
<1>4. CASE PollStep
  <2>1. Doing("POLL") /\ UNCHANGED <<target, events, history>>
    BY <1>0, <1>4, PollStepIs
  <2>2. PICK t : /\ Reaches(port, "DHCSR", t) /\ port' = t.port
                 /\ \/ UNCHANGED host /\ Linked(port) /\ ~port.sticky
                    \/ \E status : Polled(t, status)
    BY <1>0, <1>4, PollStepIs
  <2>3. core' = core /\ (Settled' <=> Settled)
    BY <2>1 DEF Settled, target, history
  <2>4. CASE UNCHANGED host /\ Linked(port) /\ ~port.sticky
    BY <2>3, <2>4, ResetStill DEF Linked
  <2>5. ASSUME NEW status, Polled(t, status)
        PROVE  ResetInv'
    <3>1. /\ Continue(status)
          /\ (status = "OK" /\ Current = RunningPoll => core.halted = "NO")
      BY <2>5, RunningIs DEF Polled
    <3> QED
      BY <2>1, <2>3, <3>1, ResetStep
  <2> QED
    BY <2>2, <2>4, <2>5
<1>5. CASE PulseStep
  <2>1. /\ Doing("PULSE")
        /\ (Restart /\ Continue("OK")) \/ Continue("TARGET_POWER")
    BY <1>5, PulseStepIs
  <2>2. host.routine \notin Command
    BY <1>0, <2>1, OrderingAccess
  <2>3. host.command # "PENDING"
    BY <1>0, <2>2 DEF HostInv
  <2>4. CASE Restart /\ Continue("OK")
    BY <1>1, <2>1, <2>3, <2>4, ResetStep
  <2>5. CASE Continue("TARGET_POWER")
    BY <2>1, <2>5, ResetStep
  <2> QED
    BY <2>1, <2>4, <2>5
<1> QED
  BY <1>2, <1>3, <1>4, <1>5

LEMMA StepReset ==
    ASSUME Control, ResetInv, [Next]_vars
    PROVE  ResetInv'
<1>0. /\ TypeOK /\ HostInv /\ PortInv /\ host \in Host /\ core \in Core /\ port \in Port
      /\ sram \in Words /\ flash \in [Sector -> Content] /\ events \in 0 .. MaxEvents
  BY DEF Control, TypeOK, Words
<1>1. CASE ConnectStep
  <2>1. /\ <<"CONNECT", Following>> \in Pairs => Following # "DISCONNECT"
        /\ Following \in {"RESET", "RECOVER"} => FirstStep(Following) = 1
    BY PairsAre, NamesAre DEF FirstStep, Command, Stoppable
  <2> HIDE DEF Following
  <2>2. \/ host'.routine = "CONNECT"
        \/ /\ host'.routine = Following /\ <<"CONNECT", Following>> \in Pairs
           /\ host'.step = FirstStep(Following)
        \/ host'.routine = "DISCONNECT" /\ host'.status = "ERROR"
    BY <1>0, <1>1, ConnectStepIs DEF Following
  <2> QED
    BY <2>1, <2>2, ResetEnters
<1>2. CASE Iterate
  <2>1. /\ host'.step = 1
        /\ \/ host'.routine = host.routine /\ host.routine \in Command \cup Stoppable
           \/ host'.status = "ABORTED"
    BY <1>0, <1>2, IterateIs
  <2> QED
    BY <2>1, ResetEnters DEF Command, Stoppable
<1>3. CASE DisconnectStep
  <2>1. /\ host.routine = "DISCONNECT" /\ host'.routine = "DISCONNECT"
        /\ host'.status = host.status /\ UNCHANGED <<target, events, history>>
    BY <1>0, <1>3, DisconnectIs
  <2> QED
    BY <2>1 DEF ResetInv, Settled, target, history
<1>4. ASSUME NEW j \in DOMAIN Job, StartJob(j)
      PROVE  ResetInv'
  BY <1>0, <1>4, StartJobIs, ResetEnters
<1>5. CASE CoreStep
  <2>1. UNCHANGED <<port, host, ordered>>
    BY <1>5 DEF CoreStep, AppWrites, AppBreak, LoaderStart, LoaderBegins, LoaderFinishes,
                LoaderEnds, history
  <2>2. core.at = "APP" => core'.at = "APP" /\ (core.halted # "HOST" => core'.halted # "HOST")
    <3>1. CASE AppWrites
      BY <3>1, AppWritesIs
    <3>2. CASE AppBreak
      BY <1>0, <3>2, AppBreakIs
    <3>3. CASE LoaderStart \/ LoaderBegins \/ LoaderFinishes \/ LoaderEnds
      <4>1. core.at = "LOADER"
        BY <3>3 DEF LoaderStart, LoaderBegins, LoaderFinishes, LoaderEnds, Runs
      <4> QED
        BY <4>1
    <3> QED
      BY <1>5, <3>1, <3>2, <3>3 DEF CoreStep
  <2> QED
    BY <2>1, <2>2, ResetStill DEF Settled
<1>6. CASE ResetButton
  <2>1. Restart /\ UNCHANGED <<port, sram, flash, host, progress, foreign>>
    BY <1>0, <1>6, ResetButtonIs
  <2>2. /\ core'.at = "APP" /\ core'.halted \in {"NO", core.halted}
        /\ ordered' \in {ordered, "NONE"}
    BY <1>0, <2>1, RestartIs
  <2> QED
    BY <2>1, <2>2, ResetStill DEF Settled
<1>7. CASE Unplug
  <2>1. port'.line = "OFF" /\ UNCHANGED <<target, host, history>>
    BY <1>0, <1>7, UnplugIs
  <2> QED
    BY <2>1, ResetStill DEF Settled, target, history
<1>8. ASSUME NEW chip \in Chip, Plug(chip)
      PROVE  ResetInv'
  <2>1. core'.at = "APP" /\ core'.halted = "NO" /\ ordered' = "NONE" /\ UNCHANGED host
    BY <1>0, <1>8, PlugIs
  <2> QED
    BY <2>1, ResetStill DEF Settled
<1>9. CASE UNCHANGED vars
  <2>1. UNCHANGED <<port, core, host, ordered>>
    BY <1>9 DEF vars, target, history
  <2> QED
    BY <2>1, ResetStill DEF Settled
<1> QED
  BY <1>1, <1>2, <1>3, <1>4, <1>5, <1>6, <1>7, <1>8, <1>9, ResetRoutines DEF Next, HostStep, User

-----------------------------------------------------------------------------
(***************************************************************************)
(* The flash: what VERIFY read is there until the operation is over.       *)
(***************************************************************************)
Flashed == host.job = "FLASH" /\ (\/ host.routine \in {"RESET", "RECOVER"}
                                  \/ host.routine = "DISCONNECT" /\ host.status = "OK")

FlashInv ==
    /\ flash[2] = "OLD"
    /\ (Flashed => port.line = "OFF" \/ flash[1] = "IMAGE")

\* Verification only reads, and goes on only while it finds the image.
LEMMA VerifyAccess ==
    ASSUME TypeOK, HostInv, NEW op, Doing(op), host.routine = "VERIFY"
    PROVE  op = "READ" /\ Current.at = "FLASH" /\ Current.accept = {"IMAGE"}
<1>1. /\ host.step \in 1 .. Len(Routine[host.routine]) /\ Current.op = op
  BY DoingIs
<1>2. Routine["VERIFY"] = <<Read("FLASH", {"IMAGE"})>>
  BY RoutineIs DEF Verify
<1>3. Len(Routine["VERIFY"]) = 1
  BY <1>2
<1>4. host.step = 1
  BY <1>1, <1>3
<1>5. Current = Read("FLASH", {"IMAGE"})
  BY <1>2, <1>4 DEF Current
<1> QED
  BY <1>1, <1>5 DEF Read

\* A step of a routine, which leaves the flash alone.
LEMMA FlashStep ==
    ASSUME Control, FlashInv, NEW op, Doing(op), NEW status, Continue(status), flash' = flash,
           port.line = "OFF" => port'.line = "OFF",
           op = "READ" /\ status = "OK" => Held(Current.at) \in Current.accept
    PROVE  FlashInv'
<1>0. /\ TypeOK /\ HostInv /\ host \in Host /\ Busy /\ host.routine \in Names /\ host.step > 0
  BY DoingIs DEF Control, TypeOK
<1>1. SUFFICES ASSUME Flashed' PROVE port'.line = "OFF" \/ flash[1] = "IMAGE"
  BY DEF FlashInv
<1>2. CASE Stepped
  <2>1. Flashed
    BY <1>0, <1>1, <1>2, SteppedRoutine DEF Flashed
  <2> QED
    BY <2>1 DEF FlashInv
<1>3. ASSUME NEW to, NEW st, Leaves(to, st, status)
      PROVE  port'.line = "OFF" \/ flash[1] = "IMAGE"
  <2>1. host.job = "FLASH" /\ host'.routine = to /\ host'.status = st
    BY <1>1, <1>3 DEF Leaves, Over, Flashed
  <2>2. CASE to = "RESET"
    <3>1. host.routine = "VERIFY" /\ status = "OK"
      BY <1>3, <2>1, <2>2 DEF Leaves
    <3>2. op = "READ" /\ Current.at = "FLASH" /\ Current.accept = {"IMAGE"}
      BY <1>0, <3>1, VerifyAccess
    <3> QED
      BY <3>1, <3>2, HeldIs
  <2>3. CASE to = "RECOVER"
    <3>1. host.routine = "RESET"
      BY <1>3, <2>3, NamesAre DEF Leaves, Pairs
    <3> QED
      BY <2>1, <3>1 DEF Flashed, FlashInv
  <2>4. CASE to = "DISCONNECT" /\ st = "OK"
    <3>1. host.routine \in {"RESET", "RECOVER"}
      BY <1>3, <2>4 DEF Leaves
    <3> QED
      BY <2>1, <3>1 DEF Flashed, FlashInv
  <2> QED
    BY <1>1, <2>1, <2>2, <2>3, <2>4 DEF Flashed
<1> QED
  BY <1>0, <1>2, <1>3, RoutineSteps

\* A step that leaves the operation where it is.
LEMMA FlashStill ==
    ASSUME FlashInv, flash' = flash, Flashed' => Flashed, port.line = "OFF" => port'.line = "OFF"
    PROVE  FlashInv'
BY DEF FlashInv

\* Every step keeps FlashInv.
LEMMA StepFlash ==
    ASSUME Control, CommandInv, FlashInv, [Next]_vars
    PROVE  FlashInv'
<1>0. /\ TypeOK /\ HostInv /\ PortInv /\ host \in Host /\ core \in Core /\ port \in Port
      /\ sram \in Words /\ flash \in [Sector -> Content] /\ events \in 0 .. MaxEvents
  BY DEF Control, TypeOK, Words
<1>1. CASE WriteStep
  <2>1. Doing("WRITE") /\ flash' = flash /\ \E t : Wrote(t)
    BY <1>0, <1>1, WriteStepIs
  <2>2. PICK t : Wrote(t)
    BY <2>1
  <2>3. Continue(t.status) /\ Shifted(port, port')
    BY <2>2, ReachShifts DEF Wrote
  <2> QED
    BY <2>1, <2>3, ShiftedOff, FlashStep
<1>2. CASE ReadStep
  <2>1. Doing("READ") /\ UNCHANGED <<target, events, history>> /\ \E t, status : Took(t, status)
    BY <1>0, <1>2, ReadStepIs
  <2>2. PICK t, status : Took(t, status)
    BY <2>1
  <2>3. /\ Continue(status) /\ Shifted(port, port')
        /\ (status = "OK" => Held(Current.at) \in Current.accept)
    BY <2>2, ReachShifts DEF Took
  <2>4. flash' = flash
    BY <2>1 DEF target
  <2> QED
    BY <2>1, <2>3, <2>4, ShiftedOff, FlashStep
<1>3. CASE PollStep
  <2>1. Doing("POLL") /\ UNCHANGED <<target, events, history>>
    BY <1>0, <1>3, PollStepIs
  <2>2. PICK t : /\ Reaches(port, "DHCSR", t) /\ port' = t.port
                 /\ UNCHANGED host \/ \E status : Polled(t, status)
    BY <1>0, <1>3, PollStepIs
  <2>3. flash' = flash /\ (port.line = "OFF" => port'.line = "OFF")
    BY <2>1, <2>2, ReachShifts, ShiftedOff DEF target
  <2>4. CASE UNCHANGED host
    BY <2>3, <2>4, FlashStill DEF Flashed
  <2>5. CASE \E status : Polled(t, status)
    BY <2>1, <2>3, <2>5, FlashStep DEF Polled
  <2> QED
    BY <2>2, <2>4, <2>5
<1>4. CASE PulseStep
  <2>1. Doing("PULSE") /\ flash' = flash /\ port' = port /\ \E status : Continue(status)
    BY <1>4, PulseStepIs
  <2> QED
    BY <2>1, FlashStep
<1>5. CASE ConnectStep
  <2>1. /\ host'.job = host.job /\ flash' = flash
        /\ \/ host'.routine = "CONNECT"
           \/ /\ host'.routine = Following /\ <<"CONNECT", Following>> \in Pairs
              /\ (host.job = "FLASH" => Following # "RESET")
           \/ host'.routine = "DISCONNECT" /\ host'.status = "ERROR"
    BY <1>0, <1>5, ConnectStepIs
  <2>2. <<"CONNECT", Following>> \in Pairs => Following \notin {"DISCONNECT", "RECOVER"}
    BY DEF Pairs
  <2> HIDE DEF Following
  <2>3. ~Flashed'
    BY <2>1, <2>2 DEF Flashed
  <2> QED
    BY <2>1, <2>3 DEF FlashInv
<1>6. CASE Iterate
  <2>1. /\ host'.job = host.job /\ UNCHANGED <<port, target, events, foreign>>
        /\ host.routine \in Command \cup Stoppable /\ Busy
        /\ \/ host'.routine = host.routine
           \/ /\ host'.routine = IF host.routine = "DUMP" THEN "RESET" ELSE "DISCONNECT"
              /\ host'.status = "ABORTED"
    BY <1>0, <1>6, IterateIs
  <2>2. host.job = "FLASH" => host.routine # "DUMP"
    BY <1>0, <2>1, FlashNeverDumps DEF HostInv
  <2>3. ~Flashed'
    BY <2>1, <2>2 DEF Flashed, Command, Stoppable
  <2> QED
    BY <2>1, <2>3 DEF FlashInv, target
<1>7. CASE DisconnectStep
  <2>1. host'.job = "NONE" /\ UNCHANGED <<target, events, history>>
    BY <1>0, <1>7, DisconnectIs
  <2> QED
    BY <2>1 DEF FlashInv, Flashed, target
<1>8. ASSUME NEW j \in DOMAIN Job, StartJob(j)
      PROVE  FlashInv'
  <2>1. host'.routine = "CONNECT" /\ UNCHANGED <<port, target, events, history>>
    BY <1>0, <1>8, StartJobIs
  <2> QED
    BY <2>1 DEF FlashInv, Flashed, target
<1>9. CASE LoaderBegins \/ LoaderFinishes
  <2>0. core.at = "LOADER" /\ core.stage \in {"BUSY", "HALF"}
    BY <1>9 DEF LoaderBegins, LoaderFinishes, Runs
  <2>1. UNCHANGED <<port, host>> /\ flash'[2] = flash[2]
    <3>1. CASE LoaderBegins
      BY <1>0, <3>1, LoaderBeginsIs
    <3>2. CASE LoaderFinishes
      <4>1. core.stage = "HALF"
        BY <3>2 DEF LoaderFinishes
      <4>2. sram["command"] \in Command
        BY <2>0, <4>1 DEF CommandInv, CoreInv
      <4> QED
        BY <1>0, <3>2, <4>2, LoaderFinishesIs
    <3> QED
      BY <1>9, <3>1, <3>2
  <2>2. Flashed => Quiet
    <3>1. Flashed => Busy /\ ~Reached(12) /\ host.routine # "CONNECT"
                     /\ ~(host.routine = "DISCONNECT" /\ host.status # "OK")
      BY DEF Flashed, Busy, Reached, Ordering, Command
    <3> QED
      BY <3>1 DEF CommandInv, QuietInv
  <2>3. ~Quiet
    BY <2>0 DEF Quiet
  <2> QED
    BY <2>1, <2>2, <2>3 DEF FlashInv, Flashed
<1>10. CASE AppWrites \/ AppBreak \/ LoaderStart \/ LoaderEnds
  <2>1. UNCHANGED <<port, host, flash>>
    BY <1>10 DEF AppWrites, AppBreak, LoaderStart, LoaderEnds
  <2> QED
    BY <2>1, FlashStill DEF Flashed
<1>11. CASE ResetButton
  <2>1. UNCHANGED <<port, host, flash>>
    BY <1>11 DEF ResetButton
  <2> QED
    BY <2>1, FlashStill DEF Flashed
<1>12. CASE Unplug
  <2>1. port'.line = "OFF" /\ UNCHANGED <<target, host, history>>
    BY <1>0, <1>12, UnplugIs
  <2> QED
    BY <2>1, FlashStill DEF Flashed, target
<1>13. ASSUME NEW chip \in Chip, Plug(chip)
       PROVE  FlashInv'
  <2>1. port'.line = "OFF" /\ flash'[2] = "OLD"
    BY <1>0, <1>13, PlugIs DEF But, Field
  <2> QED
    BY <2>1 DEF FlashInv
<1>14. CASE UNCHANGED vars
  <2>1. UNCHANGED <<port, host, flash>>
    BY <1>14 DEF vars, target
  <2> QED
    BY <2>1, FlashStill DEF Flashed
<1> QED
  BY <1>1, <1>2, <1>3, <1>4, <1>5, <1>6, <1>7, <1>8, <1>9, <1>10, <1>11, <1>12, <1>13, <1>14
     DEF Next, HostStep, CoreStep, User

-----------------------------------------------------------------------------
(***************************************************************************)
(* The orders and the outcomes of the loader's commands are those of its   *)
(* service, LoaderService.                                                 *)
(***************************************************************************)
ServiceSame == UNCHANGED <<flash, ordered, progress>> /\ host'.command = host.command

\* The refinement of LoaderService: what it does not see.
LEMMA ServiceStutters ==
    ASSUME ServiceSame
    PROVE  UNCHANGED Service!vars
BY DEF ServiceSame, Service!vars

\* A restart of the target takes back what was ordered.
LEMMA ServiceRevokes ==
    ASSUME core \in Core, Restart, UNCHANGED <<flash, progress>>, host'.command = host.command
    PROVE  Service!Next \/ UNCHANGED Service!vars
<1>1. CASE host.command = "PENDING"
  BY <1>1, RestartIs, ServiceStutters DEF ServiceSame
<1>2. CASE host.command # "PENDING"
  BY <1>2, RestartIs DEF Service!Next, Service!Revoke
<1> QED
  BY <1>1, <1>2

\* How a step of a routine changes what the programmer knows of its command.
LEMMA ServiceAnswer ==
    ASSUME Control, CommandInv, NEW op, Doing(op), NEW status, Continue(status),
           status = "OK" => port.line # "OFF"
    PROVE  \/ host'.command = host.command
           \/ /\ host.command = "PENDING" /\ host'.command = "FAILED" /\ host.routine \in Command
           \/ /\ host.command = "PENDING" /\ host'.command = "OK" /\ progress = "DONE"
              /\ host.routine \in Command /\ op # "WRITE"
<1>0. /\ TypeOK /\ HostInv /\ host \in Host /\ Busy /\ host.routine \in Names /\ host.step > 0
  BY DoingIs DEF Control, TypeOK
<1>1. CASE Stepped
  BY <1>0, <1>1, SteppedRoutine
<1>2. ASSUME NEW to, NEW st, Leaves(to, st, status), host.routine \in Command
      PROVE  /\ host.command = "PENDING"
             /\ \/ host'.command = "FAILED"
                \/ host'.command = "OK" /\ progress = "DONE" /\ op # "WRITE"
  <2>1. host.command = "PENDING"
    BY <1>0, <1>2 DEF HostInv
  <2>2. host'.command = (IF status = "OK" THEN "OK" ELSE "FAILED") /\ (status = "OK" => AtEnd)
    BY <1>2 DEF Leaves, Over, End
  <2>3. ASSUME status = "OK" PROVE progress = "DONE" /\ op # "WRITE"
    <3> DEFINE b == Base(host.routine)
               n == host.step
    <3>1. Ordering /\ n = b + 19 /\ (op = "WRITE" => n <= b + 14)
      BY <1>0, <1>2, <2>2, <2>3, OrderingAccess
    <3>2. (Reached(18) <=> (Ordering /\ n > b + 18)) /\ b \in 0 .. 1 /\ n \in 0 .. 20
      BY <1>0, ReachedIs
    <3> HIDE DEF b, n
    <3>3. Reached(18) /\ op # "WRITE"
      BY <3>1, <3>2
    <3> QED
      BY <2>3, <3>3 DEF CommandInv, CheckedInv
  <2> QED
    BY <2>1, <2>2, <2>3
<1>3. ASSUME NEW to, NEW st, Leaves(to, st, status), host.routine \notin Command
      PROVE  host'.command = host.command
  BY <1>3 DEF Leaves, Over
<1> QED
  BY <1>0, <1>1, <1>2, <1>3, RoutineSteps

\* A step that changes nothing but that.
LEMMA ServiceLook ==
    ASSUME Control, CommandInv, NEW op, Doing(op), NEW status, Continue(status),
           status = "OK" => port.line # "OFF", UNCHANGED <<flash, ordered, progress>>
    PROVE  Service!Next \/ UNCHANGED Service!vars
<1>1. CASE host'.command = host.command
  BY <1>1, ServiceStutters DEF ServiceSame
<1>2. CASE host.command = "PENDING" /\ host'.command = "FAILED"
  BY <1>2 DEF Service!Next, Service!Fail
<1>3. CASE host.command = "PENDING" /\ host'.command = "OK" /\ progress = "DONE"
  BY <1>3 DEF Service!Next, Service!Succeed
<1> QED
  BY <1>1, <1>2, <1>3, ServiceAnswer

\* A step of the host orders a command, reports one, or is not seen.
LEMMA ServiceHost ==
    ASSUME Control, CommandInv, HostStep \/ \E j \in DOMAIN Job : StartJob(j)
    PROVE  Service!Next \/ UNCHANGED Service!vars
<1>0. /\ TypeOK /\ HostInv /\ PortInv /\ host \in Host /\ core \in Core /\ port \in Port
  BY DEF Control, TypeOK
<1>1. CASE WriteStep
  <2>1. Doing("WRITE") /\ UNCHANGED <<flash, events, progress>> /\ \E t : Wrote(t)
    BY <1>0, <1>1, WriteStepIs
  <2>2. PICK t : Wrote(t)
    BY <2>1
  <2>3. /\ Continue(t.status) /\ (t.status = "OK" => port.line # "OFF")
        /\ t.port.hit \in {Current.at, NoAddress} /\ BusWrite(t.port.hit, Current.value)
    BY <2>2 DEF Wrote, Linked
  <2>4. (t.port.hit = "AIRCR" => Restart) /\ (t.port.hit # "AIRCR" => ordered' = ordered)
    BY <2>3, BusCases
  <2>5. CASE t.port.hit # "AIRCR"
    BY <2>1, <2>3, <2>4, <2>5, ServiceLook
  <2>6. CASE t.port.hit = "AIRCR"
    <3>1. NoAddress # "AIRCR"
      BY WordsAre DEF Register
    <3>2. host.routine \notin Command
      BY <1>0, <2>1, <2>3, <2>6, <3>1, OrderingAccess
    <3>3. host'.command = host.command
      BY <2>1, <2>3, <3>2, ServiceAnswer
    <3> QED
      BY <1>0, <2>1, <2>4, <2>6, <3>3, ServiceRevokes
  <2> QED
    BY <2>5, <2>6
<1>2. CASE ReadStep
  <2>1. Doing("READ") /\ UNCHANGED <<target, events, history>> /\ \E t, status : Took(t, status)
    BY <1>0, <1>2, ReadStepIs
  <2>2. PICK t, status : Took(t, status)
    BY <2>1
  <2>3. /\ Continue(status) /\ (status = "OK" => port.line # "OFF")
        /\ UNCHANGED <<flash, ordered, progress>>
    BY <2>1, <2>2 DEF Took, Linked, target, history
  <2> QED
    BY <2>1, <2>3, ServiceLook
<1>3. CASE PollStep
  <2>1. /\ Doing("POLL") /\ UNCHANGED <<target, events, history>>
        /\ UNCHANGED host \/ \E t, status : Polled(t, status)
    BY <1>0, <1>3, PollStepIs
  <2>2. UNCHANGED <<flash, ordered, progress>>
    BY <2>1 DEF target, history
  <2>3. CASE UNCHANGED host
    BY <2>2, <2>3, ServiceStutters DEF ServiceSame
  <2>4. ASSUME NEW t, NEW status, Polled(t, status)
        PROVE  Service!Next \/ UNCHANGED Service!vars
    <3>1. Continue(status) /\ (status = "OK" => port.line # "OFF")
      BY <2>4 DEF Polled, Linked
    <3> QED
      BY <2>1, <2>2, <3>1, ServiceLook
  <2> QED
    BY <2>1, <2>3, <2>4
<1>4. CASE PulseStep
  <2>1. /\ Doing("PULSE") /\ UNCHANGED <<port, sram, flash, events, progress, foreign>>
        /\ \E status : Continue(status)
        /\ Restart \/ UNCHANGED <<core, ordered>>
    BY <1>4, PulseStepIs
  <2>2. PICK status : Continue(status)
    BY <2>1
  <2>3. host.routine \notin Command
    BY <1>0, <2>1, OrderingAccess
  <2>4. host'.command = host.command
    <3>1. Busy /\ host.routine \in Names /\ host.step > 0
      BY <1>0, <2>1, DoingIs
    <3>2. CASE Stepped
      BY <1>0, <3>2, SteppedRoutine
    <3>3. ASSUME NEW to, NEW st, Leaves(to, st, status) PROVE host'.command = host.command
      BY <2>3, <3>3 DEF Leaves, Over
    <3> QED
      BY <1>0, <2>2, <3>1, <3>2, <3>3, RoutineSteps
  <2> QED
    BY <1>0, <2>1, <2>4, ServiceRevokes, ServiceStutters DEF ServiceSame
<1>5. CASE ConnectStep
  <2>1. /\ host'.command = host.command /\ UNCHANGED <<sram, flash, events, progress, foreign>>
        /\ IF host.step = 1 /\ port.present THEN Restart ELSE UNCHANGED <<core, ordered>>
    BY <1>0, <1>5, ConnectStepIs
  <2> QED
    BY <1>0, <2>1, ServiceRevokes, ServiceStutters DEF ServiceSame
<1>6. CASE Iterate
  <2>1. /\ Busy /\ host.step = 0 /\ UNCHANGED <<port, target, events, foreign>>
        /\ \/ host'.command = host.command /\ UNCHANGED <<ordered, progress>>
           \/ /\ host.routine \in Command /\ host'.command = "PENDING"
              /\ ordered' = host.routine /\ progress' = "NONE"
    BY <1>0, <1>6, IterateIs
  <2>2. flash' = flash /\ host.command # "PENDING"
    BY <1>0, <2>1 DEF target, HostInv
  <2>3. CASE host'.command = host.command /\ UNCHANGED <<ordered, progress>>
    BY <2>2, <2>3, ServiceStutters DEF ServiceSame
  <2>4. CASE /\ host.routine \in Command /\ host'.command = "PENDING"
             /\ ordered' = host.routine /\ progress' = "NONE"
    <3>1. Service!Order(host.routine)
      BY <2>2, <2>4 DEF Service!Order
    <3> QED
      BY <2>4, <3>1 DEF Service!Next
  <2> QED
    BY <2>1, <2>3, <2>4
<1>7. CASE DisconnectStep
  <2>1. host'.command = host.command /\ UNCHANGED <<target, events, history>>
    BY <1>0, <1>7, DisconnectIs
  <2> QED
    BY <2>1, ServiceStutters DEF ServiceSame, target, history
<1>8. ASSUME NEW j \in DOMAIN Job, StartJob(j)
      PROVE  Service!Next \/ UNCHANGED Service!vars
  <2>1. UNCHANGED <<target, events, history>>
    BY <1>8 DEF StartJob
  <2>2. host'.command = host.command
    BY <1>0, <1>8 DEF StartJob, Host
  <2> QED
    BY <2>1, <2>2, ServiceStutters DEF ServiceSame, target, history
<1> QED
  BY <1>1, <1>2, <1>3, <1>4, <1>5, <1>6, <1>7, <1>8 DEF HostStep

\* A step of the target or the user carries a command out, revokes it, or is not seen.
LEMMA ServiceTarget ==
    ASSUME Control, CommandInv, CoreStep \/ User
    PROVE  Service!Next \/ UNCHANGED Service!vars
<1>0. /\ TypeOK /\ core \in Core /\ port \in Port /\ PortInv
      /\ sram \in Words /\ flash \in [Sector -> Content] /\ events \in 0 .. MaxEvents
  BY DEF Control, TypeOK, Words
<1>1. "NONE" \notin Command
  BY DEF Command
<1>2. CASE AppWrites \/ AppBreak \/ LoaderStart \/ LoaderEnds
  <2>1. UNCHANGED <<flash, host, history>>
    BY <1>2 DEF AppWrites, AppBreak, LoaderStart, LoaderEnds
  <2> QED
    BY <2>1, ServiceStutters DEF ServiceSame, history
<1>3. CASE LoaderBegins
  <2>1. /\ core.at = "LOADER" /\ core.stage = "BUSY"
        /\ UNCHANGED <<port, host, events, ordered, foreign>>
        /\ \/ /\ sram["command"] \in Command /\ progress' = "BEGUN"
              /\ flash' = [s \in Sector |-> IF s \in DOMAIN Writes[sram["command"]]
                                            THEN "GARBAGE" ELSE flash[s]]
           \/ progress' = progress /\ flash' = flash
    BY <1>0, <1>3, LoaderBeginsIs
  <2>2. /\ ordered \in Command /\ progress = "NONE"
        /\ (sram["command"] \in Command => sram["command"] = ordered)
    BY <2>1 DEF CommandInv, CoreInv
  <2>3. CASE /\ sram["command"] \in Command /\ progress' = "BEGUN"
             /\ flash' = [s \in Sector |-> IF s \in DOMAIN Writes[sram["command"]]
                                           THEN "GARBAGE" ELSE flash[s]]
    <3>1. sram["command"] = ordered
      BY <2>2, <2>3
    <3>2. flash' = [s \in Sector |-> IF s \in DOMAIN Writes[ordered] THEN "GARBAGE" ELSE flash[s]]
      BY <2>3, <3>1
    <3> QED
      BY <1>1, <2>1, <2>2, <2>3, <3>2 DEF Service!Next, Service!Begin
  <2>4. CASE progress' = progress /\ flash' = flash
    BY <2>1, <2>4, ServiceStutters DEF ServiceSame
  <2> QED
    BY <2>1, <2>3, <2>4
<1>4. CASE LoaderFinishes
  <2>0. core.at = "LOADER" /\ core.stage = "HALF"
    BY <1>4 DEF LoaderFinishes, Runs
  <2>1. ordered \in Command /\ progress = "BEGUN" /\ sram["command"] = ordered
    BY <2>0 DEF CommandInv, CoreInv
  <2>2. /\ UNCHANGED <<port, sram, host, events, ordered, foreign>>
        /\ \/ /\ progress' = "DONE"
              /\ \/ flash' = [s \in Sector |-> IF s \in DOMAIN Writes[sram["command"]]
                                               THEN Writes[sram["command"]][s] ELSE flash[s]]
                 \/ flash' = flash
           \/ progress' = progress /\ flash' = flash
    BY <1>0, <1>4, <2>1, LoaderFinishesIs
  <2>3. CASE /\ progress' = "DONE"
             /\ \/ flash' = [s \in Sector |-> IF s \in DOMAIN Writes[sram["command"]]
                                              THEN Writes[sram["command"]][s] ELSE flash[s]]
                \/ flash' = flash
    <3>1. \/ flash' = [s \in Sector |-> IF s \in DOMAIN Writes[ordered]
                                        THEN Writes[ordered][s] ELSE flash[s]]
          \/ flash' = flash
      BY <2>1, <2>3
    <3> QED
      BY <1>1, <2>1, <2>2, <2>3, <3>1 DEF Service!Next, Service!Finish
  <2>4. CASE progress' = progress /\ flash' = flash
    BY <2>2, <2>4, ServiceStutters DEF ServiceSame
  <2> QED
    BY <2>2, <2>3, <2>4
<1>5. CASE ResetButton
  <2>1. Restart /\ UNCHANGED <<port, sram, flash, host, progress, foreign>>
    BY <1>0, <1>5, ResetButtonIs
  <2> QED
    BY <1>0, <2>1, ServiceRevokes
<1>6. CASE Unplug
  <2>1. UNCHANGED <<target, host, history>>
    BY <1>6 DEF Unplug
  <2> QED
    BY <2>1, ServiceStutters DEF ServiceSame, target, history
<1>7. ASSUME NEW chip \in Chip, Plug(chip)
      PROVE  Service!Next \/ UNCHANGED Service!vars
  <2>1. /\ flash' \in [Sector -> Content] /\ ordered' = "NONE" /\ progress' = "NONE"
        /\ UNCHANGED host
    BY <1>0, <1>7, PlugIs
  <2> QED
    BY <2>1 DEF Service!Next, Service!Replace
<1> QED
  BY <1>2, <1>3, <1>4, <1>5, <1>6, <1>7 DEF CoreStep, User

\* Every step is one of LoaderService or a stutter.
LEMMA ServiceStep ==
    ASSUME Control, CommandInv, [Next]_vars
    PROVE  [Service!Next]_(Service!vars)
<1>1. CASE UNCHANGED vars
  BY <1>1, ServiceStutters DEF vars, target, history, ServiceSame
<1> QED
  BY <1>1, ServiceHost, ServiceTarget DEF Next

-----------------------------------------------------------------------------
(***************************************************************************)
(* The invariant, and what it says of every run.                           *)
(***************************************************************************)
Inv == Control /\ ChipInv /\ CommandInv /\ ResetInv /\ FlashInv

\* The whole invariant.
LEMMA InitInv == Init => Inv
<1> SUFFICES ASSUME Init PROVE Inv
  OBVIOUS
<1>1. /\ port = PortInit /\ sram = [w \in Word |-> "GARBAGE"] /\ flash = [s \in Sector |-> "OLD"]
      /\ host = [job |-> "NONE", routine |-> "DISCONNECT", step |-> 1, status |-> "ERROR",
                 command |-> "NONE"]
      /\ events = 0 /\ ordered = "NONE" /\ progress = "NONE" /\ foreign = FALSE
  BY DEF Init
<1>2. core \in Core /\ core.at = "APP"
  <2>1. PICK chip \in Chip : core = Powered(chip)
    BY DEF Init
  <2> QED
    BY <2>1 DEF Powered, Core
<1>3. port \in Port /\ ~port.enabled /\ ~port.nreset /\ ~port.connected /\ port.present
  <2> DEFINE noises == 0 .. MaxNoise
             banks == Bank
             slots == Address \cup {NoAddress}
             gots == slots \cup Token
  <2>1. /\ NoAddress \in slots /\ "NOTHING" \in gots /\ MaxNoise \in noises
        /\ "MEM" \in banks /\ "UNKNOWN" \in banks \cup {"UNKNOWN"}
        /\ NoAddress \in slots
    BY PortAssumption DEF Token, Bank
  <2>2. Port = [enabled : BOOLEAN, nreset : BOOLEAN, selected : banks \cup {"UNKNOWN"},
                connected : BOOLEAN, present : BOOLEAN, line : {"SYNC", "LOST", "OFF"},
                sticky : BOOLEAN, bank : banks, power : BOOLEAN, word : BOOLEAN,
                tar : slots, posted : gots, hit : slots, noise : noises]
    BY Zenon DEF Port
  <2> HIDE DEF noises, banks, slots, gots
  <2>3. PortInit \in Port
    BY <2>1, <2>2 DEF PortInit
  <2>4. ~PortInit.enabled /\ ~PortInit.nreset /\ ~PortInit.connected /\ PortInit.present
    BY DEF PortInit
  <2> QED
    BY <1>1, <2>3, <2>4
<1>4. host \in Host
  BY <1>1 DEF Host
<1>5. /\ host.job = "NONE" /\ host.routine = "DISCONNECT" /\ host.step = 1
      /\ host.status = "ERROR" /\ host.command = "NONE"
  BY <1>1
<1>6. sram \in Words /\ flash \in [Sector -> Content] /\ flash[2] = "OLD"
  <2>1. "GARBAGE" \in Value /\ "OLD" \in Content /\ 2 \in Sector
    BY DEF Value, Content, Sector
  <2> HIDE DEF Word, Value, Sector, Content
  <2> QED
    BY <1>1, <2>1 DEF Words
<1>7. events \in 0 .. MaxEvents
  BY <1>1, LoaderAssumption
<1>8. ~Busy /\ ~Ordering /\ \A k \in 0 .. 18 : ~Reached(k)
  BY <1>5 DEF Busy, Ordering, Reached
<1>9. TypeOK
  BY <1>1, <1>2, <1>3, <1>4, <1>6, <1>7 DEF TypeOK, Words
<1>10. HostInv
  BY <1>5, <1>8 DEF HostInv
<1>11. PortInv
  BY <1>3 DEF PortInv
<1>12. ChipInv
  BY <1>1, <1>5, GuardedFollow DEF ChipInv
<1>13. CommandInv
  BY <1>2, <1>8 DEF CommandInv, CoreInv, SetUpInv, MailboxInv, DoneInv, CheckedInv, QuietInv
<1>14. ResetInv
  BY <1>5 DEF ResetInv
<1>15. FlashInv
  BY <1>5, <1>6 DEF FlashInv, Flashed
<1> QED
  BY <1>9, <1>10, <1>11, <1>12, <1>13, <1>14, <1>15 DEF Inv, Control

\* Every step keeps Control, given that a loader at work has a command.
LEMMA StepControl ==
    ASSUME Control, CommandInv, [Next]_vars
    PROVE  Control'
<1>0. /\ TypeOK /\ HostInv /\ PortInv /\ host \in Host
  BY DEF Control, TypeOK
<1>1. ASSUME NEW j \in DOMAIN Job, StartJob(j)
      PROVE  Control'
  <2>1. /\ host' \in Host /\ HostInv' /\ Busy'
        /\ UNCHANGED <<port, target, events, history>>
    BY <1>0, <1>1, StartJobIs
  <2>2. PortInv'
    BY <1>0, <2>1, SamePort
  <2> QED
    BY <1>0, <2>1, <2>2 DEF Control, TypeOK, target, history
<1>2. CASE CoreStep
  BY <1>2, CoreControl DEF CommandInv, CoreInv
<1>3. CASE UNCHANGED vars
  <2>1. UNCHANGED <<port, target, host, events, history>>
    BY <1>3 DEF vars
  <2>2. HostInv' /\ PortInv'
    BY <1>0, <2>1, SameHost, SamePort
  <2> QED
    BY <1>0, <2>1, <2>2 DEF Control, TypeOK, target, history
<1> QED
  BY <1>1, <1>2, <1>3, HostControl, UserControl DEF Next

LEMMA StepInv == Inv /\ [Next]_vars => Inv'
BY StepControl, StepChip, StepCommand, StepReset, StepFlash DEF Inv

LEMMA SpecInv == Spec => []Inv
BY InitInv, StepInv, PTL DEF Spec

\* TypeOK: ports, cores and operations stay in their types, for any set of chips and
\* any number of resets and unpluggings.
THEOREM TypeCorrect == Spec => []TypeOK
<1>1. Inv => TypeOK
  BY DEF Inv, Control
<1> QED
  BY <1>1, SpecInv, PTL

\* PinsReleased: every operation ends with the pins of the probe released and the
\* target out of reset (disconnect_target, programmer.c; arm_adi_disconnect).
THEOREM PinsAreReleased == Spec => []PinsReleased
<1>1. Inv => PinsReleased
  BY DEF Inv, Control, PortInv, PinsReleased
<1> QED
  BY <1>1, SpecInv, PTL

\* ForeignUntouched: no write reaches the memory of a chip that mspm0g3507_identify
\* has not accepted, whatever is plugged in at whatever moment.
THEOREM ForeignIsUntouched == Spec => []ForeignUntouched
<1>1. Inv => ForeignUntouched
  BY DEF Inv, ChipInv, ForeignUntouched
<1> QED
  BY <1>1, SpecInv, PTL

\* SuccessRuns: an operation that ended well has left the application running, no
\* command of the loader outstanding (cortexm_system_reset and its fallback).
THEOREM SuccessLeavesItRunning == Spec => []SuccessRuns
<1>1. Inv => SuccessRuns
  BY DEF Inv, Control, HostInv, ResetInv, Settled, SuccessRuns
<1> QED
  BY <1>1, SpecInv, PTL

\* AccessExact: a transfer repeated, lost or refused never makes an access of the
\* memory bus touch another word (arm_adi_mem_read32, arm_adi_mem_write32).
THEOREM AccessesAreExact == Spec => AccessExact
<1>1. Inv /\ [Next]_vars =>
        [\A op \in {"READ", "WRITE"} : Doing(op) /\ host' # host =>
            /\ port'.hit \in {Current.at, NoAddress}
            /\ host'.routine = host.routine =>
                   port'.hit = Current.at \/ (op = "WRITE" /\ port'.sticky)]_vars
  BY StepExact DEF Inv, Exact
<1> QED
  BY <1>1, SpecInv, PTL DEF Spec, AccessExact

\* SuccessIsProgrammed: a flash operation that reports success has left the image in
\* the flash of the chip, and the other sector as it was, or the chip is gone.
THEOREM SuccessMeansProgrammed == Spec => SuccessIsProgrammed
<1>1. Inv /\ [Next]_vars =>
        [Busy /\ host.job = "FLASH" /\ host.status = "OK" /\ host'.job = "NONE" =>
            \/ flash = [flash EXCEPT ![1] = "IMAGE", ![2] = "OLD"]
            \/ port.line = "OFF"]_vars
  <2> SUFFICES ASSUME Inv, [Next]_vars, Busy, host.job = "FLASH", host.status = "OK",
                      host'.job = "NONE", port.line # "OFF"
               PROVE  flash = [flash EXCEPT ![1] = "IMAGE", ![2] = "OLD"]
    OBVIOUS
  <2>0. /\ Control /\ TypeOK /\ HostInv /\ PortInv /\ FlashInv /\ host \in Host /\ port \in Port
        /\ flash \in [Sector -> Content]
    BY DEF Inv, Control, TypeOK
  <2>1. host.routine = "DISCONNECT"
    <3>1. host' # host /\ "NONE" \notin DOMAIN Job
      BY NamesAre
    <3>2. HostStep
      BY <2>0, <3>1, HostChanges DEF StartJob
    <3>3. CASE ConnectStep
      BY <2>0, <3>3, ConnectStepIs DEF Busy
    <3>4. CASE Iterate
      BY <2>0, <3>4, IterateIs DEF Busy
    <3>5. ASSUME NEW op, Doing(op), NEW status, Continue(status) PROVE FALSE
      BY <2>0, <3>5, DoingIs, ContinueKeeps DEF Busy
    <3>6. CASE WriteStep
      BY <2>0, <3>5, <3>6, WriteStepIs DEF Wrote
    <3>7. CASE ReadStep
      BY <2>0, <3>5, <3>7, ReadStepIs DEF Took
    <3>8. CASE PollStep
      BY <2>0, <3>1, <3>5, <3>8, PollStepIs DEF Polled
    <3>9. CASE PulseStep
      BY <3>5, <3>9, PulseStepIs
    <3>10. CASE DisconnectStep
      BY <3>10 DEF DisconnectStep
    <3> QED
      BY <3>2, <3>3, <3>4, <3>6, <3>7, <3>8, <3>9, <3>10 DEF HostStep
  <2>2. flash[1] = "IMAGE" /\ flash[2] = "OLD"
    BY <2>0, <2>1 DEF FlashInv, Flashed
  <2> QED
    BY <2>0, <2>2 DEF Sector
<1> QED
  BY <1>1, SpecInv, PTL DEF Spec, SuccessIsProgrammed

\* OperationAdvances: whatever the target and its user do, an operation goes forward
\* through its routines and their accesses, so it ends.
THEOREM OperationsAdvance == Spec => OperationAdvances
<1>1. Inv /\ [Next]_vars =>
        [Busy /\ host'.job # "NONE" /\ host' # host =>
            \/ Rank(host'.routine) > Rank(host.routine)
            \/ host'.routine = host.routine /\ host'.step > host.step]_vars
  BY StepAdvances DEF Inv, Advances
<1> QED
  BY <1>1, SpecInv, PTL DEF Spec, OperationAdvances

\* ServiceSpec: what the programmer orders of the loader is carried out at most once,
\* and reported OK only when it was carried out (mspm0_loader_execute implements
\* LoaderService).
THEOREM LoaderServes == Spec => ServiceSpec
<1>1. Init => Service!Init
  <2>1. ASSUME Init
        PROVE  /\ flash \in [Sector -> Content] /\ ordered = "NONE" /\ progress = "NONE"
               /\ host.command = "NONE"
    BY <2>1, InitInv DEF Init, Inv, Control, TypeOK
  <2> QED
    BY <2>1 DEF Service!Init
<1>2. Inv /\ [Next]_vars => [Service!Next]_(Service!vars)
  BY ServiceStep DEF Inv
<1> QED
  BY <1>1, <1>2, SpecInv, PTL DEF Spec, ServiceSpec, Service!Spec
=============================================================================
