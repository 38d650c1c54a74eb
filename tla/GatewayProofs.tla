----------------------------- MODULE GatewayProofs -----------------------------
(* Proofs about Gateway, for any images, operations, queues and bounds. *)
EXTENDS Gateway, SequenceTheorems, FiniteSetTheorems, TLAPS

-----------------------------------------------------------------------------
(***************************************************************************)
(* The COMMAND_ERROR that waits for the host                               *)
(***************************************************************************)

UsbType ==
    usb \in [at : {"IDLE", "SHOW", "CLEAR", "COMMAND", "ERASE"},
             image : Image \cup {NoImage}, copy : Nat]

\* Errors come in the order of their numbers, and those under way are newer
\* than the one that waits and the one being shown.
Ordered ==
    /\ troubles \in Nat /\ pending \in Nat
    /\ errors \in Seq(Nat)
    /\ \A i \in 1 .. Len(errors) : errors[i] <= troubles /\ pending < errors[i]
                                   /\ usb.copy < errors[i]
    /\ \A i, j \in 1 .. Len(errors) : i < j => errors[i] < errors[j]
    /\ pending <= troubles /\ usb.copy <= troubles

\* What is about to be cleared has been shown.
ClearedIsShown == usb.at = "CLEAR" => usb.copy \notin unseen

ErrorInv == UsbType /\ Ordered /\ ClearedIsShown /\ ErrorIsShown

LEMMA InitErrors == Init => ErrorInv
BY DEF Init, ErrorInv, UsbType, Ordered, ClearedIsShown, ErrorIsShown, Waiting

\* A step that changes none of the variables of the cache.
LEMMA ErrorsQuiet ==
    ErrorInv /\ UNCHANGED <<usb, pending, unseen, errors, troubles>> => ErrorInv'
BY DEF ErrorInv, UsbType, Ordered, ClearedIsShown, ErrorIsShown

\* A request ends.
LEMMA RequestEnds ==
    ASSUME ErrorInv, Answers, UNCHANGED <<pending, unseen, errors>>,
           troubles' \in {troubles, troubles + 1}
    PROVE  ErrorInv'
<1>1. troubles' \in Nat /\ troubles <= troubles'
  BY DEF ErrorInv, Ordered
<1>2. usb'.copy = 0 /\ usb'.at = "IDLE" /\ UsbType'
  BY DEF Answers, Waiting, UsbType
<1>3. Ordered'
  <2>1. \A i \in 1 .. Len(errors) : errors[i] \in Nat /\ 0 < errors[i]
    BY DEF ErrorInv, Ordered
  <2> QED
    BY <1>1, <1>2, <2>1 DEF ErrorInv, Ordered
<1> QED
  BY <1>2, <1>3 DEF ErrorInv, ClearedIsShown, ErrorIsShown

LEMMA UsbHandlerErrors == ErrorInv /\ UsbHandler => ErrorInv'
<1> SUFFICES ASSUME ErrorInv, UsbHandler PROVE ErrorInv'
  OBVIOUS
<1> USE DEF UsbQuiet, peerVars, errorVars, bounds
<1>1. CASE Request
  <2>1. /\ usb'.at = "SHOW" /\ usb'.copy = pending /\ UsbType'
        /\ UNCHANGED <<pending, unseen, errors, troubles>>
    BY <1>1 DEF Request, ErrorInv, UsbType, Ordered
  <2> QED
    BY <2>1 DEF ErrorInv, Ordered, ClearedIsShown, ErrorIsShown
<1>2. CASE ShowPending
  <2>1. /\ usb'.copy = usb.copy /\ UsbType' /\ unseen' \subseteq unseen
        /\ usb'.at = "CLEAR" => usb.copy \notin unseen'
        /\ UNCHANGED <<pending, errors, troubles>>
    BY <1>2 DEF ShowPending, Goes, ErrorInv, UsbType
  <2> QED
    BY <2>1 DEF ErrorInv, Ordered, ClearedIsShown, ErrorIsShown
<1>3. CASE ClearPending
  <2>1. /\ usb.at = "CLEAR" /\ usb'.at = "COMMAND" /\ usb'.copy = usb.copy /\ UsbType'
        /\ pending' = IF pending = usb.copy THEN 0 ELSE pending
        /\ UNCHANGED <<unseen, errors, troubles>>
    BY <1>3 DEF ClearPending, Serves, Goes, ErrorInv, UsbType
  <2>2. ErrorIsShown'
    BY <2>1 DEF ErrorInv, ClearedIsShown, ErrorIsShown
  <2>3. Ordered'
    <3>1. pending' \in Nat /\ pending' <= pending
      BY <2>1 DEF ErrorInv, Ordered
    <3> QED
      BY <2>1, <3>1 DEF ErrorInv, Ordered
  <2> QED
    BY <2>1, <2>2, <2>3 DEF ErrorInv, ClearedIsShown
<1>4. CASE Answer
  BY <1>4, RequestEnds DEF Answer
<1>5. ASSUME NEW i \in Image, UsbImageBegin(i) PROVE ErrorInv'
  <2>1. /\ usb'.at = "ERASE" /\ usb'.copy = usb.copy /\ UsbType'
        /\ UNCHANGED <<pending, unseen, errors, troubles>>
    BY <1>5 DEF UsbImageBegin, ErrorInv, UsbType
  <2> QED
    BY <2>1 DEF ErrorInv, Ordered, ClearedIsShown, ErrorIsShown
<1>6. ASSUME NEW k \in 1 .. Capacity, UsbImageData(k) PROVE ErrorInv'
  BY <1>6, RequestEnds DEF UsbImageData
<1>7. CASE UsbImageErase \/ UsbImageEnd
  BY <1>7, RequestEnds DEF UsbImageErase, UsbImageEnd
<1>8. ASSUME NEW op \in Operation, UsbProgramStart(op) PROVE ErrorInv'
  BY <1>8, RequestEnds DEF UsbProgramStart
<1>9. CASE UsbForward
  BY <1>9, RequestEnds DEF UsbForward
<1> QED
  BY <1>1, <1>2, <1>3, <1>4, <1>5, <1>6, <1>7, <1>8, <1>9 DEF UsbHandler

\* The error taken is newer than the one it replaces and than the one shown.
LEMMA TakeErrorErrors == ErrorInv /\ TakeError => ErrorInv'
<1> SUFFICES ASSUME ErrorInv, TakeError PROVE ErrorInv'
  OBVIOUS
<1> DEFINE e == Head(errors)
<1>1. /\ errors \in Seq(Nat) /\ errors # <<>> /\ errors' = Tail(errors)
      /\ UNCHANGED <<usb, troubles>>
  BY DEF TakeError, bounds, ErrorInv, Ordered
<1>2. e = errors[1] /\ 1 \in 1 .. Len(errors)
  BY <1>1
<1>3. e \in Nat /\ e <= troubles /\ usb.copy < e
  BY <1>1, <1>2 DEF ErrorInv, Ordered
<1>4. /\ errors' \in Seq(Nat) /\ Len(errors') = Len(errors) - 1
      /\ \A i \in 1 .. Len(errors') : errors'[i] = errors[i + 1] /\ i + 1 \in 1 .. Len(errors)
  <2>1. Len(errors) \in Nat \ {0} /\ Tail(errors) \in Seq(Nat) /\ Len(Tail(errors)) = Len(errors) - 1
    BY <1>1
  <2>2. \A i \in 1 .. Len(Tail(errors)) : Tail(errors)[i] = errors[i + 1]
    BY <1>1
  <2>3. \A i \in 1 .. Len(Tail(errors)) : i + 1 \in 1 .. Len(errors)
    BY <2>1
  <2> QED
    BY <1>1, <2>1, <2>2, <2>3
<1>5. ASSUME NEW i \in 1 .. Len(errors')
      PROVE  errors'[i] <= troubles /\ pending < errors'[i] /\ usb.copy < errors'[i]
             /\ e < errors'[i]
  <2>1. i + 1 \in 1 .. Len(errors) /\ 1 < i + 1 /\ errors'[i] = errors[i + 1]
    BY <1>4
  <2> QED
    BY <1>2, <2>1 DEF ErrorInv, Ordered
<1>6. ASSUME NEW i \in 1 .. Len(errors'), NEW j \in 1 .. Len(errors'), i < j
      PROVE  errors'[i] < errors'[j]
  <2>1. /\ i + 1 \in 1 .. Len(errors) /\ errors'[i] = errors[i + 1]
        /\ j + 1 \in 1 .. Len(errors) /\ errors'[j] = errors[j + 1]
    BY <1>4
  <2>2. i + 1 < j + 1
    BY <1>6
  <2>3. \A k, l \in 1 .. Len(errors) : k < l => errors[k] < errors[l]
    BY DEF ErrorInv, Ordered
  <2> QED
    BY <2>1, <2>2, <2>3
<1>7. pending' \in {pending, e}
  BY DEF TakeError, errorVars
<1>8. Ordered'
  BY <1>1, <1>3, <1>4, <1>5, <1>6, <1>7 DEF ErrorInv, Ordered
<1>9. CASE UNCHANGED errorVars
  BY <1>1, <1>8, <1>9 DEF errorVars, ErrorInv, UsbType, ClearedIsShown, ErrorIsShown
<1>10. CASE pending' = e /\ unseen' = (unseen \ {pending}) \cup {e}
  <2>1. usb.copy # e
    BY <1>3 DEF ErrorInv, UsbType
  <2>2. ClearedIsShown'
    BY <1>1, <1>10, <2>1 DEF ErrorInv, ClearedIsShown
  <2>3. ErrorIsShown'
    BY <1>10 DEF ErrorInv, ErrorIsShown
  <2> QED
    BY <1>1, <1>8, <2>2, <2>3 DEF ErrorInv, UsbType
<1> QED
  BY <1>9, <1>10 DEF TakeError

\* A refused command adds the newest error.
LEMMA PeerRefusesErrors == ErrorInv /\ PeerRefuses => ErrorInv'
<1> SUFFICES ASSUME ErrorInv, PeerRefuses PROVE ErrorInv'
  OBVIOUS
<1>1. UNCHANGED <<usb, pending, unseen>>
  BY DEF PeerRefuses, GatewayQuiet, errorVars
<1>2. CASE UNCHANGED <<troubles, errors>>
  BY <1>1, <1>2, ErrorsQuiet
<1>3. CASE troubles' = troubles + 1 /\ errors' = Append(errors, troubles + 1)
  <2>1. errors \in Seq(Nat) /\ troubles + 1 \in Nat /\ troubles \in Nat
    BY DEF ErrorInv, Ordered
  <2>2. /\ errors' \in Seq(Nat) /\ Len(errors') = Len(errors) + 1
        /\ \A i \in 1 .. Len(errors) : errors'[i] = errors[i]
        /\ errors'[Len(errors) + 1] = troubles + 1
    BY <1>3, <2>1
  <2>3. \A i \in 1 .. Len(errors') : i \in 1 .. Len(errors) \/ i = Len(errors) + 1
    BY <2>1, <2>2
  <2>4. \A i \in 1 .. Len(errors) : errors[i] \in Nat
    BY <2>1
  <2>5. /\ \A i \in 1 .. Len(errors) : errors[i] <= troubles /\ pending < errors[i]
                                       /\ usb.copy < errors[i]
        /\ \A i, j \in 1 .. Len(errors) : i < j => errors[i] < errors[j]
        /\ pending \in Nat /\ pending <= troubles /\ usb.copy \in Nat /\ usb.copy <= troubles
    BY DEF ErrorInv, Ordered, UsbType
  <2>6. \A i \in 1 .. Len(errors') : errors'[i] <= troubles' /\ pending < errors'[i]
                                     /\ usb.copy < errors'[i]
    BY <1>3, <2>1, <2>2, <2>3, <2>4, <2>5
  <2>7. ASSUME NEW i \in 1 .. Len(errors'), NEW j \in 1 .. Len(errors'), i < j
        PROVE  errors'[i] < errors'[j]
    <3>1. i \in 1 .. Len(errors) /\ Len(errors) \in Nat
      BY <2>1, <2>2, <2>7
    <3>2. CASE j \in 1 .. Len(errors)
      BY <2>2, <2>5, <2>7, <3>1, <3>2
    <3>3. CASE j = Len(errors) + 1
      <4>1. errors'[i] = errors[i] /\ errors[i] \in Nat /\ errors[i] <= troubles
        BY <2>2, <2>4, <2>5, <3>1
      <4>2. errors'[j] = troubles + 1
        BY <2>2, <3>3
      <4> QED
        BY <2>1, <4>1, <4>2
    <3> QED
      BY <2>3, <3>2, <3>3
  <2>8. Ordered'
    <3>1. troubles' \in Nat /\ pending <= troubles' /\ usb.copy <= troubles'
      BY <1>3, <2>1, <2>5
    <3>2. errors' \in Seq(Nat) /\ pending \in Nat
      BY <2>2, <2>5
    <3>3. \A i, j \in 1 .. Len(errors') : i < j => errors'[i] < errors'[j]
      BY <2>7
    <3> QED
      BY <1>1, <2>6, <3>1, <3>2, <3>3 DEF Ordered
  <2> QED
    BY <1>1, <2>8 DEF ErrorInv, UsbType, ClearedIsShown, ErrorIsShown
<1> QED
  BY <1>2, <1>3 DEF PeerRefuses

\* A change of session touches only the count.
LEMMA LocalEpochResetErrors == ErrorInv /\ LocalEpochReset => ErrorInv'
<1> SUFFICES ASSUME ErrorInv, LocalEpochReset PROVE ErrorInv'
  OBVIOUS
<1>1. troubles' = troubles + 1 /\ UNCHANGED <<usb, pending, unseen, errors>>
  BY DEF LocalEpochReset, GatewayQuiet, errorVars, peerVars
<1>2. Ordered'
  <2>1. troubles \in Nat /\ errors \in Seq(Nat) /\ usb.copy \in Nat
        /\ \A i \in 1 .. Len(errors) : errors[i] \in Nat
    BY DEF ErrorInv, Ordered, UsbType
  <2> QED
    BY <1>1, <2>1 DEF ErrorInv, Ordered
<1> QED
  BY <1>1, <1>2 DEF ErrorInv, UsbType, ClearedIsShown, ErrorIsShown

\* A restart forgets the cache.
LEMMA RestartErrors == ErrorInv /\ Restart => ErrorInv'
<1> SUFFICES ASSUME ErrorInv, Restart PROVE ErrorInv'
  OBVIOUS
<1>1. /\ troubles' = troubles + 1 /\ usb' = Waiting /\ pending' = 0 /\ unseen' = {}
      /\ UNCHANGED errors
  BY DEF Restart, peerVars
<1>2. usb'.copy = 0 /\ usb'.at = "IDLE" /\ UsbType'
  BY <1>1 DEF Waiting, UsbType
<1>3. Ordered'
  <2>1. troubles \in Nat /\ errors \in Seq(Nat) /\ pending \in Nat
        /\ \A i \in 1 .. Len(errors) : errors[i] \in Nat /\ 0 < errors[i]
    BY DEF ErrorInv, Ordered
  <2> QED
    BY <1>1, <1>2, <2>1 DEF ErrorInv, Ordered
<1> QED
  BY <1>1, <1>2, <1>3 DEF ErrorInv, ClearedIsShown, ErrorIsShown

\* Every step keeps the invariant.
LEMMA NextErrors == ErrorInv /\ [Next]_vars => ErrorInv'
<1> SUFFICES ASSUME ErrorInv, [Next]_vars PROVE ErrorInv'
  OBVIOUS
<1>1. CASE UsbHandler
  BY <1>1, UsbHandlerErrors
<1>2. CASE ProgramTask
  <2>1. UNCHANGED <<usb, peerVars, errorVars, bounds>>
    BY <1>2 DEF ProgramTask, TakeJob, SendBegin, SendData, SendEnd, SendStart, TransferFails,
                EndFlush, TransferQuiet
  <2> QED
    BY <2>1, ErrorsQuiet DEF peerVars, errorVars, bounds
<1>3. CASE TakeError
  BY <1>3, TakeErrorErrors
<1>4. CASE ProbeTasks
  <2>1. CASE PeerRefuses
    BY <2>1, PeerRefusesErrors
  <2>2. CASE Deliver \/ PeerEpochReset
    BY <2>2, ErrorsQuiet DEF Deliver, PeerEpochReset, GatewayQuiet, errorVars, bounds
  <2>3. CASE PeerBegin \/ PeerData \/ PeerEnd \/ PeerStart \/ PeerOther \/ PeerFinishes
    BY <2>3, ErrorsQuiet DEF PeerBegin, PeerData, PeerEnd, PeerStart, PeerOther, PeerFinishes,
                             WorkQuiet, GatewayQuiet, errorVars, bounds
  <2> QED
    BY <1>4, <2>1, <2>2, <2>3 DEF ProbeTasks
<1>5. CASE LocalEpochReset
  BY <1>5, LocalEpochResetErrors
<1>6. CASE Restart
  BY <1>6, RestartErrors
<1>7. CASE UNCHANGED vars
  BY <1>7, ErrorsQuiet DEF vars, peerVars, errorVars, bounds
<1> QED
  BY <1>1, <1>2, <1>3, <1>4, <1>5, <1>6, <1>7 DEF Next

\* ErrorIsShown: an error that was taken is shown, waits, or was replaced by a
\* newer one, however usb_handler and app_rx_task interleave.
THEOREM ErrorsReachTheHost == Spec => []ErrorIsShown
<1>1. Init => ErrorInv
  BY InitErrors
<1>2. ErrorInv /\ [Next]_vars => ErrorInv'
  BY NextErrors
<1>3. ErrorInv => ErrorIsShown
  BY DEF ErrorInv
<1> QED
  BY <1>1, <1>2, <1>3, PTL DEF Spec
-----------------------------------------------------------------------------
(***************************************************************************)
(* Types                                                                   *)
(***************************************************************************)

\* The partition is described while a job waits or is being sent, and the Probe
\* holds a complete image only of a manifest.
Described ==
    /\ ready \/ jobs # <<>> \/ transfer.at # "IDLE" => manifest # NoImage
    /\ pReady => pManifest # NoImage
    /\ transfer.at # "IDLE" => transfer.op \in Operation

TypeInv == TypeOK /\ Described

-----------------------------------------------------------------------------
(***************************************************************************)
(* What the Probe programs                                                 *)
(***************************************************************************)

\* The commands the Probe is still to execute, in order.
Stream == inbox \o link

\* A command that sets the Probe's manifest, and to what.
Marks(m) == m[1] \in {"BEGIN", "RESET"}
After(m) == IF m[1] = "BEGIN" THEN m[2] ELSE NoImage

\* s[i] is the last command before s[j] that sets the manifest.
Stands(s, i, j) == Marks(s[i]) /\ \A k \in i + 1 .. j - 1 : ~Marks(s[k])

\* A Probe that holds `first` and executes s holds one of I when it comes to s[j].
Leads(s, first, j, I) ==
    /\ \A i \in 1 .. j - 1 : Stands(s, i, j) => After(s[i]) \in I
    /\ (\A k \in 1 .. j - 1 : ~Marks(s[k])) => first \in I

\* Every START finds no image or one of h for its operation.
Started(s, first, h) ==
    \A j \in DOMAIN s : s[j][1] = "START" => Leads(s, first, j, h[s[j][2]] \cup {NoImage})

\* So will the START of the job that program_task sends.
Feeding(s, first) ==
    transfer.at \in {"DATA", "START"} =>
        Leads(s, first, Len(s) + 1, held[transfer.op] \cup {NoImage})

\* The partition's image is held for every operation that is served.
HeldInv == \A op \in Served : manifest \in held[op] \cup {NoImage}

StreamInv == ~disturbed => Started(Stream, pManifest, held) /\ Feeding(Stream, pManifest)

FreshInv == HeldInv /\ StreamInv /\ FreshImage
-----------------------------------------------------------------------------
(***************************************************************************)
(* Facts about images and commands.                                        *)
(***************************************************************************)

\* A staged image is a sequence of contents that fits the partition.
LEMMA DataFacts ==
    ASSUME NEW i \in Image
    PROVE  /\ Len(Data[i]) \in 1 .. Capacity
           /\ \A k \in 1 .. Len(Data[i]) : Data[i][k] \in Content
BY ImageAssumption

LEMMA TotalLengthType ==
    ASSUME manifest \in Image \cup {NoImage}
    PROVE  TotalLength \in 0 .. Capacity /\ (TotalLength > 0 => manifest \in Image)
BY DataFacts, ImageAssumption DEF TotalLength

\* What the commands of each kind carry.
LEMMA MessageTypes ==
    /\ <<"END">> \in Message /\ <<"OTHER">> \in Message /\ <<"RESET">> \notin Message
    /\ \A i \in Image : <<"BEGIN", i>> \in Message
    /\ \A k \in 1 .. Capacity : \A c \in Content : <<"DATA", k, c>> \in Message
    /\ \A op \in Operation : <<"START", op>> \in Message
BY DEF Message

LEMMA MessageParts ==
    ASSUME NEW m \in Message
    PROVE  /\ m[1] \in {"BEGIN", "DATA", "START", "END", "OTHER"}
           /\ m[1] = "BEGIN" => m[2] \in Image
           /\ m[1] = "DATA" => m[2] \in 1 .. Capacity /\ m[3] \in Content
           /\ m[1] = "START" => m[2] \in Operation
<1>1. CASE m \in {"BEGIN"} \X Image
  BY <1>1
<1>2. CASE m \in {"DATA"} \X (1 .. Capacity) \X Content
  BY <1>2
<1>3. CASE m \in {"START"} \X Operation
  BY <1>3
<1>4. CASE m \in {<<"END">>, <<"OTHER">>}
  BY <1>4
<1> QED
  BY <1>1, <1>2, <1>3, <1>4 DEF Message

\* Another command in the link is one more, and a delivery leaves no more.
Carried == Message \cup {<<"RESET">>}

LEMMA CommandsFinite ==
    ASSUME link \in Seq(Carried)
    PROVE  IsFiniteSet(Commands) /\ Cardinality(Commands) \in Nat
<1>1. Commands \subseteq 1 .. Len(link) /\ Len(link) \in Nat
  BY DEF Commands
<1>2. IsFiniteSet(1 .. Len(link))
  BY <1>1, FS_Interval
<1> QED
  BY <1>1, <1>2, FS_Subset, FS_CardinalityType

LEMMA EnqueueType ==
    ASSUME link \in Seq(Carried), NEW m \in Message, Enqueue(m)
    PROVE  link' \in Seq(Carried) /\ Cardinality(Commands)' <= LinkQueue
<1>1. link' = Append(link, m) /\ m \in Carried /\ ~Full
  BY DEF Enqueue, Carried
<1>2. /\ link' \in Seq(Carried) /\ DOMAIN link' = 1 .. Len(link) + 1
      /\ DOMAIN link = 1 .. Len(link) /\ Len(link) \in Nat
      /\ \A k \in 1 .. Len(link) : link'[k] = link[k]
      /\ link'[Len(link) + 1] = m
  BY <1>1
<1>3. Commands' \subseteq Commands \cup {Len(link) + 1}
  BY <1>2 DEF Commands
<1>4. IsFiniteSet(Commands \cup {Len(link) + 1})
      /\ Cardinality(Commands \cup {Len(link) + 1}) <= Cardinality(Commands) + 1
  <2>1. IsFiniteSet(Commands) /\ Cardinality(Commands) \in Nat
    BY CommandsFinite
  <2>2. /\ IsFiniteSet(Commands \cup {Len(link) + 1})
        /\ Cardinality(Commands \cup {Len(link) + 1}) =
             IF Len(link) + 1 \in Commands THEN Cardinality(Commands) ELSE Cardinality(Commands) + 1
    BY <2>1, FS_AddElement
  <2> QED
    BY <2>1, <2>2
<1>5. Cardinality(Commands') <= Cardinality(Commands) + 1 /\ Cardinality(Commands') \in Nat
  <2>1. /\ IsFiniteSet(Commands')
        /\ Cardinality(Commands') <= Cardinality(Commands \cup {Len(link) + 1})
    BY <1>3, <1>4, FS_Subset
  <2>2. Cardinality(Commands') \in Nat /\ Cardinality(Commands \cup {Len(link) + 1}) \in Nat
    BY <1>4, <2>1, FS_CardinalityType
  <2> QED
    BY <1>4, <2>1, <2>2, CommandsFinite
<1>6. Cardinality(Commands) < LinkQueue
  BY <1>1, CommandsFinite, GatewayAssumption DEF Full
<1> QED
  BY <1>2, <1>5, <1>6, CommandsFinite, GatewayAssumption

LEMMA TailType ==
    ASSUME link \in Seq(Carried), link # <<>>, link' = Tail(link),
           Cardinality(Commands) <= LinkQueue
    PROVE  link' \in Seq(Carried) /\ Cardinality(Commands)' <= LinkQueue
<1>1. /\ link' \in Seq(Carried) /\ Len(link') = Len(link) - 1 /\ Len(link) \in Nat \ {0}
      /\ DOMAIN link' = 1 .. Len(link') /\ DOMAIN link = 1 .. Len(link)
      /\ \A k \in 1 .. Len(link) - 1 : link'[k] = link[k + 1]
  <2>1. link \in Seq(Carried) /\ link # <<>> /\ link' = Tail(link)
    OBVIOUS
  <2> QED
    BY <2>1
<1> DEFINE f == [k \in Commands' |-> k + 1]
<1>2. \A k \in Commands' : k \in Int /\ k + 1 \in Commands
  BY <1>1 DEF Commands
<1>3. f \in [Commands' -> Commands] /\ \A x, y \in Commands' : x # y => f[x] # f[y]
  BY <1>2
<1>4. f \in Injection(Commands', Commands)
  BY <1>3 DEF Injection, IsInjective
<1>5. Cardinality(Commands') <= Cardinality(Commands) /\ IsFiniteSet(Commands')
  BY <1>4, CommandsFinite, FS_Injection
<1>6. Cardinality(Commands') \in Nat
  BY <1>5, FS_CardinalityType
<1> QED
  BY <1>1, <1>5, <1>6, CommandsFinite, GatewayAssumption

\* A new session leaves at most one command.
LEMMA ResetType ==
    ASSUME NEW s, s \in {<<<<"RESET">>>>} \cup {<<<<"RESET">>, m>> : m \in Message}, link' = s
    PROVE  link' \in Seq(Carried) /\ Cardinality(Commands)' <= LinkQueue
<1>1. 1 <= LinkQueue /\ LinkQueue \in Nat
  BY GatewayAssumption
<1>2. Commands' \subseteq {2}
  BY DEF Commands
<1>3. IsFiniteSet({2}) /\ Cardinality({2}) = 1
  BY FS_Singleton
<1>4. Cardinality(Commands') \in Nat /\ Cardinality(Commands') <= 1
  BY <1>2, <1>3, FS_Subset, FS_CardinalityType
<1>5. link' \in Seq(Carried)
  <2>1. <<"RESET">> \in Carried /\ \A m \in Message : m \in Carried
    BY DEF Carried
  <2>2. CASE s = <<<<"RESET">>>>
    BY <2>1, <2>2
  <2>3. ASSUME NEW m \in Message, s = <<<<"RESET">>, m>> PROVE link' \in Seq(Carried)
    BY <2>1, <2>3
  <2> QED
    BY <2>2, <2>3
<1> QED
  BY <1>1, <1>4, <1>5

-----------------------------------------------------------------------------
(***************************************************************************)
(* Type correctness, step by step.                                         *)
(***************************************************************************)

\* The conjuncts of TypeOK, by who changes them.
ErrorType ==
    /\ usb \in [at : {"IDLE", "SHOW", "CLEAR", "COMMAND", "ERASE"},
                image : Image \cup {NoImage}, copy : 0 .. MaxTroubles]
    /\ pending \in 0 .. MaxTroubles /\ unseen \in SUBSET (1 .. MaxTroubles)
    /\ errors \in Seq(1 .. MaxTroubles)
JobType ==
    /\ jobs \in Seq(Operation) /\ Len(jobs) <= JobQueue
    /\ transfer \in [at : {"IDLE", "BEGIN", "DATA", "START", "FLUSH"},
                     op : Operation \cup {NoOperation}, pos : 1 .. Capacity + 1]
LinkType == link \in Seq(Carried) /\ Cardinality(Commands) <= LinkQueue
PeerType ==
    /\ Peer!StagingType /\ inbox \in Seq(Message)
    /\ peer \in [op : Operation \cup {NoOperation}, image : Image \cup {NoImage}, busy : BOOLEAN]
HistoryType ==
    /\ held \in [Operation -> SUBSET Image] /\ disturbed \in BOOLEAN
    /\ begins \in 0 .. MaxBegins /\ starts \in 0 .. MaxStarts
    /\ troubles \in 0 .. MaxTroubles

LEMMA TypeParts ==
    TypeOK <=> StagingType /\ ErrorType /\ JobType /\ LinkType /\ PeerType /\ HistoryType
BY DEF TypeOK, ErrorType, JobType, LinkType, PeerType, HistoryType, Carried

\* A step that leaves the variables of a part alone keeps it.
LEMMA StagingQuiet == StagingType /\ UNCHANGED stagingVars => StagingType'
BY DEF StagingType, stagingVars

LEMMA ErrorQuiet == ErrorType /\ UNCHANGED <<usb, pending, unseen, errors>> => ErrorType'
BY DEF ErrorType

LEMMA JobQuiet == JobType /\ UNCHANGED <<jobs, transfer>> => JobType'
BY DEF JobType

LEMMA LinkQuiet == LinkType /\ UNCHANGED link => LinkType'
BY DEF LinkType, Commands

LEMMA PeerQuiet == PeerType /\ UNCHANGED <<PeerStaging, inbox, peer>> => PeerType'
BY DEF PeerType, PeerStaging, Peer!StagingType

LEMMA HistoryQuiet ==
    HistoryType /\ UNCHANGED <<held, disturbed, begins, starts, troubles>> => HistoryType'
BY DEF HistoryType

LEMMA DescribedQuiet ==
    Described /\ UNCHANGED <<ready, jobs, transfer, manifest, pReady, pManifest>> => Described'
BY DEF Described

LEMMA InitType == Init => TypeInv
<1> SUFFICES ASSUME Init PROVE TypeInv
  OBVIOUS
<1> USE ImageAssumption, GatewayAssumption DEF Init
<1>1. Erased \in Content /\ 1 \in 1 .. Capacity + 1 /\ 0 \in 0 .. Capacity
  OBVIOUS
<1>2. StagingType
  BY <1>1 DEF StagingInit, StagingType
<1>3. ErrorType
  <2>1. 0 \in 0 .. MaxTroubles
    OBVIOUS
  <2> QED
    BY <2>1 DEF ErrorType, Waiting
<1>4. JobType
  <2>1. jobs = <<>> /\ JobQueue \in Nat
    OBVIOUS
  <2>2. jobs \in Seq(Operation) /\ Len(jobs) <= JobQueue
    BY <2>1
  <2> QED
    BY <1>1, <2>2 DEF JobType, NoJob
<1>5. LinkType
  <2>1. link = <<>> /\ LinkQueue \in Nat
    OBVIOUS
  <2>2. Commands = {}
    BY <2>1 DEF Commands
  <2>3. Cardinality(Commands) = 0
    BY <2>2, FS_EmptySet
  <2> QED
    BY <2>1, <2>3 DEF LinkType
<1>6. PeerType
  <2>1. Peer!StagingType
    BY <1>1 DEF Peer!StagingInit, Peer!StagingType
  <2>2. inbox = <<>> /\ peer = [op |-> NoOperation, image |-> NoImage, busy |-> FALSE]
    OBVIOUS
  <2>3. inbox \in Seq(Message)
    BY <2>2
  <2> QED
    BY <2>1, <2>2, <2>3 DEF PeerType
<1>7. HistoryType
  <2>1. MaxBegins \in Nat /\ MaxStarts \in Nat /\ MaxTroubles \in Nat
    OBVIOUS
  <2>2. begins = 0 /\ starts = 0 /\ troubles = 0
    OBVIOUS
  <2>3. held \in [Operation -> SUBSET Image] /\ disturbed \in BOOLEAN
    OBVIOUS
  <2> QED
    BY <2>1, <2>2, <2>3 DEF HistoryType
<1>8. Described
  BY DEF Described, StagingInit, Peer!StagingInit, NoJob
<1> QED
  BY <1>2, <1>3, <1>4, <1>5, <1>6, <1>7, <1>8, TypeParts DEF TypeInv

\* What usb_handler does to its own place.
LEMMA UsbSteps ==
    ASSUME ErrorType, UNCHANGED <<pending, errors>>, unseen' \subseteq unseen
    PROVE  /\ Answers => ErrorType'
           /\ \A step \in {"CLEAR", "COMMAND"} : Goes(step) => ErrorType'
           /\ usb' = [usb EXCEPT !.at = "SHOW", !.copy = pending] => ErrorType'
           /\ \A i \in Image : usb' = [usb EXCEPT !.at = "ERASE", !.image = i] => ErrorType'
<1>1. 0 \in 0 .. MaxTroubles
  BY GatewayAssumption
<1>2. Answers => ErrorType'
  BY <1>1 DEF Answers, Waiting, ErrorType
<1>3. ASSUME NEW step \in {"CLEAR", "COMMAND"}, Goes(step) PROVE ErrorType'
  <2>1. usb' = [usb EXCEPT !.at = step]
    BY <1>3 DEF Goes
  <2> QED
    BY <2>1 DEF ErrorType
<1>4. ASSUME usb' = [usb EXCEPT !.at = "SHOW", !.copy = pending] PROVE ErrorType'
  BY <1>4 DEF ErrorType
<1>5. ASSUME NEW i \in Image, usb' = [usb EXCEPT !.at = "ERASE", !.image = i] PROVE ErrorType'
  BY <1>5 DEF ErrorType
<1> QED
  BY <1>2, <1>3, <1>4, <1>5

\* A block that is next lies in the partition.
LEMMA NextBlock ==
    ASSUME StagingType, NEW k \in 1 .. Capacity, InSequence(k)
    PROVE  written + 1 \in 0 .. Capacity /\ manifest \in Image /\ k \in 1 .. Len(Data[manifest])
<1>1. k = written + 1 /\ k <= TotalLength /\ written \in 0 .. Capacity
  BY DEF InSequence, StagingType
<1>2. TotalLength > 0 /\ manifest \in Image
  BY <1>1, TotalLengthType DEF StagingType
<1>3. TotalLength = Len(Data[manifest])
  BY <1>2, ImageAssumption DEF TotalLength
<1> QED
  BY <1>1, <1>2, <1>3

\* A step of usb_handler that stages nothing and starts nothing.
LEMMA UsbOnlyType ==
    ASSUME TypeInv, UNCHANGED <<stagingVars, pending, errors, held, bounds>>, UsbQuiet,
           UNCHANGED link, unseen' \subseteq unseen, ErrorType'
    PROVE  TypeInv'
<1>1. StagingType /\ JobType /\ LinkType /\ PeerType /\ HistoryType /\ Described
  BY TypeParts DEF TypeInv
<1>2. UNCHANGED <<jobs, transfer, link, inbox, peer, PeerStaging, held, disturbed,
                  begins, starts, troubles>>
  BY DEF UsbQuiet, peerVars, bounds, PeerStaging
<1>3. StagingType' /\ JobType' /\ LinkType' /\ PeerType' /\ HistoryType'
  BY <1>1, <1>2, StagingQuiet, JobQuiet, LinkQuiet, PeerQuiet, HistoryQuiet
<1>4. Described'
  BY <1>1, <1>2, DescribedQuiet DEF stagingVars, PeerStaging
<1>5. TypeOK'
  BY <1>3, TypeParts, PTL
<1> QED
  BY <1>4, <1>5 DEF TypeInv

LEMMA UsbHandlerType == TypeInv /\ UsbHandler => TypeInv'
<1> SUFFICES ASSUME TypeInv, UsbHandler PROVE TypeInv'
  OBVIOUS
<1>0. StagingType /\ ErrorType /\ JobType /\ LinkType /\ PeerType /\ HistoryType /\ Described
  BY TypeParts DEF TypeInv
<1>type. (StagingType /\ ErrorType /\ JobType /\ LinkType /\ PeerType /\ HistoryType /\ Described)'
        => TypeInv'
  BY TypeParts, PTL DEF TypeInv
<1>1. CASE Request
  <2>1. /\ usb' = [usb EXCEPT !.at = "SHOW", !.copy = pending]
        /\ UNCHANGED <<pending, errors, unseen>>
    BY <1>1 DEF Request, errorVars, UsbQuiet, peerVars
  <2>2. ErrorType'
    BY <1>0, <2>1, UsbSteps
  <2> QED
    BY <1>1, <2>1, <2>2, UsbOnlyType DEF Request
<1>2. CASE ShowPending
  <2>1. unseen' \subseteq unseen /\ (Goes("CLEAR") \/ Goes("COMMAND")) /\ UNCHANGED <<pending, errors>>
    BY <1>2 DEF ShowPending, UsbQuiet, peerVars
  <2>2. ErrorType'
    BY <1>0, <2>1, UsbSteps
  <2> QED
    BY <1>2, <2>1, <2>2, UsbOnlyType DEF ShowPending
<1>3. CASE ClearPending
  <2>1. /\ usb' = [usb EXCEPT !.at = "COMMAND"] /\ pending' \in {0, pending}
        /\ UNCHANGED <<unseen, errors>>
    BY <1>3 DEF ClearPending, Goes, UsbQuiet, peerVars
  <2>2. usb' \in [at : {"IDLE", "SHOW", "CLEAR", "COMMAND", "ERASE"},
                  image : Image \cup {NoImage}, copy : 0 .. MaxTroubles]
    BY <1>0, <2>1 DEF ErrorType
  <2>3. ErrorType'
    BY <1>0, <2>1, <2>2, GatewayAssumption DEF ErrorType
  <2>4. UNCHANGED <<stagingVars, jobs, transfer, link, inbox, peer, PeerStaging,
                    held, disturbed, begins, starts, troubles>>
    BY <1>3 DEF ClearPending, UsbQuiet, peerVars, PeerStaging, bounds
  <2> QED
    BY <1>0, <1>type, <2>3, <2>4, StagingQuiet, JobQuiet, LinkQuiet, PeerQuiet, HistoryQuiet,
       DescribedQuiet DEF stagingVars, PeerStaging
<1>4. CASE Answer
  <2>1. Answers /\ UNCHANGED <<pending, errors, unseen>>
    BY <1>4 DEF Answer, errorVars, UsbQuiet, peerVars
  <2>2. ErrorType'
    BY <1>0, <2>1, UsbSteps
  <2> QED
    BY <1>4, <2>1, <2>2, UsbOnlyType DEF Answer
<1>5. ASSUME NEW i \in Image, UsbImageBegin(i) PROVE TypeInv'
  <2>1. /\ usb' = [usb EXCEPT !.at = "ERASE", !.image = i]
        /\ UNCHANGED <<pending, errors, unseen, jobs, transfer, link, inbox, peer, PeerStaging,
                       disturbed, starts, troubles>>
    BY <1>5 DEF UsbImageBegin, errorVars, UsbQuiet, peerVars, PeerStaging
  <2>2. ErrorType' /\ JobType' /\ LinkType' /\ PeerType'
    BY <1>0, <2>1, UsbSteps, JobQuiet, LinkQuiet, PeerQuiet
  <2>3. manifest' = i /\ written' = 0 /\ ready' = FALSE /\ staged' = staged
    BY <1>5 DEF UsbImageBegin, BeginImage
  <2>4. StagingType'
    <3>1. 0 \in 0 .. Capacity
      BY ImageAssumption
    <3> QED
      BY <1>0, <2>3, <3>1 DEF StagingType
  <2>5. HistoryType'
    <3>1. held' = [op \in Operation |-> IF op \in Served THEN held[op] \cup {i} ELSE held[op]]
          /\ begins' = begins + 1 /\ begins < MaxBegins
      BY <1>5 DEF UsbImageBegin
    <3>2. begins' \in 0 .. MaxBegins
      BY <1>0, <3>1, GatewayAssumption DEF HistoryType
    <3>3. held' \in [Operation -> SUBSET Image]
      BY <1>0, <3>1 DEF HistoryType
    <3> QED
      BY <1>0, <2>1, <3>2, <3>3 DEF HistoryType
  <2>6. Described'
    BY <1>0, <2>1, <2>3, ImageAssumption DEF Described, PeerStaging
  <2> QED
    BY <1>type, <2>2, <2>4, <2>5, <2>6
<1>6. ASSUME NEW k \in 1 .. Capacity, UsbImageData(k) PROVE TypeInv'
  <2>1. /\ Answers
        /\ UNCHANGED <<pending, errors, unseen, jobs, transfer, link, inbox, peer, PeerStaging,
                       held, disturbed, begins, starts, troubles, manifest, ready>>
    BY <1>6 DEF UsbImageData, FailBlock, errorVars, UsbQuiet, peerVars, PeerStaging, bounds
  <2>2. ErrorType' /\ JobType' /\ LinkType' /\ PeerType' /\ HistoryType' /\ Described'
    BY <1>0, <2>1, UsbSteps, JobQuiet, LinkQuiet, PeerQuiet, HistoryQuiet, DescribedQuiet
       DEF PeerStaging
  <2>3. /\ InSequence(k)
        /\ \/ /\ written' = written + 1
              /\ \E after \in Written(staged[k], Data[manifest][k]) :
                    staged' = [staged EXCEPT ![k] = after]
           \/ written' = written /\ staged' = [staged EXCEPT ![k] = Garbage]
    BY <1>6 DEF UsbImageData, FailBlock
  <2>4. written + 1 \in 0 .. Capacity /\ manifest \in Image /\ k \in 1 .. Len(Data[manifest])
    BY <1>0, <2>3, NextBlock
  <2>5. Written(staged[k], Data[manifest][k]) \subseteq Content
    BY <2>4, DataFacts, ImageAssumption DEF Written
  <2>6. PICK after \in Content : staged' = [staged EXCEPT ![k] = after]
    BY <2>3, <2>5, ImageAssumption
  <2>7. StagingType'
    BY <1>0, <2>1, <2>3, <2>4, <2>6 DEF StagingType
  <2> QED
    BY <1>type, <2>2, <2>7
<1>7. CASE UsbImageErase
  <2>1. /\ Answers
        /\ UNCHANGED <<pending, errors, unseen, jobs, transfer, link, inbox, peer, PeerStaging,
                       held, disturbed, begins, starts, troubles, manifest, written, ready>>
    BY <1>7 DEF UsbImageErase, EraseImage, errorVars, UsbQuiet, peerVars, PeerStaging, bounds
  <2>2. ErrorType' /\ JobType' /\ LinkType' /\ PeerType' /\ HistoryType' /\ Described'
    BY <1>0, <2>1, UsbSteps, JobQuiet, LinkQuiet, PeerQuiet, HistoryQuiet, DescribedQuiet
       DEF PeerStaging
  <2>3. PICK n \in 0 .. Len(Data[usb.image]) :
          staged' = [k \in 1 .. Capacity |-> IF k <= n THEN Erased ELSE staged[k]]
    BY <1>7 DEF UsbImageErase, EraseImage
  <2>4. StagingType'
    BY <1>0, <2>1, <2>3, ImageAssumption DEF StagingType
  <2> QED
    BY <1>type, <2>2, <2>4
<1>8. CASE UsbImageEnd
  <2>1. /\ Answers /\ ready' = TRUE /\ manifest # NoImage
        /\ UNCHANGED <<pending, errors, unseen, jobs, transfer, link, inbox, peer, PeerStaging,
                       held, disturbed, begins, starts, troubles, staged, manifest, written>>
    BY <1>8 DEF UsbImageEnd, MarkReady, Complete, errorVars, UsbQuiet, peerVars, PeerStaging, bounds
  <2>2. ErrorType' /\ JobType' /\ LinkType' /\ PeerType' /\ HistoryType'
    BY <1>0, <2>1, UsbSteps, JobQuiet, LinkQuiet, PeerQuiet, HistoryQuiet
  <2>3. StagingType' /\ Described'
    BY <1>0, <2>1 DEF StagingType, Described, PeerStaging
  <2> QED
    BY <1>type, <2>2, <2>3
<1>9. ASSUME NEW op \in Operation, UsbProgramStart(op) PROVE TypeInv'
  <2>1. /\ Answers
        /\ UNCHANGED <<stagingVars, pending, errors, unseen, transfer, link, inbox, peer,
                       PeerStaging, disturbed, begins, troubles>>
    BY <1>9 DEF UsbProgramStart, errorVars, peerVars, PeerStaging
  <2>2. StagingType' /\ ErrorType' /\ LinkType' /\ PeerType'
    BY <1>0, <2>1, UsbSteps, StagingQuiet, LinkQuiet, PeerQuiet
  <2>3. /\ jobs' = Append(jobs, op) /\ Len(jobs) < JobQueue
        /\ held' = [held EXCEPT ![op] = @ \cup {manifest}]
        /\ starts' = starts + 1 /\ starts < MaxStarts /\ ready
    BY <1>9 DEF UsbProgramStart
  <2>4. jobs' \in Seq(Operation) /\ Len(jobs') = Len(jobs) + 1 /\ Len(jobs) \in Nat
    <3>1. jobs \in Seq(Operation)
      BY <1>0 DEF JobType
    <3> QED
      BY <2>3, <3>1
  <2>5. JobType'
    BY <1>0, <2>1, <2>3, <2>4, GatewayAssumption DEF JobType
  <2>6. manifest \in Image
    BY <1>0, <2>3 DEF Described, StagingType
  <2>7. starts' \in 0 .. MaxStarts
    BY <1>0, <2>3, GatewayAssumption DEF HistoryType
  <2>8. held' \in [Operation -> SUBSET Image]
    BY <1>0, <2>3, <2>6 DEF HistoryType
  <2>9. HistoryType'
    BY <1>0, <2>1, <2>7, <2>8 DEF HistoryType
  <2>10. Described'
    <3>1. manifest # NoImage /\ UNCHANGED <<manifest, pReady, pManifest, transfer>>
      BY <2>1, <2>6, ImageAssumption DEF stagingVars, PeerStaging
    <3> QED
      BY <1>0, <3>1 DEF Described
  <2> QED
    BY <1>type, <2>2, <2>5, <2>9, <2>10
<1>10. CASE UsbForward
  <2>1. /\ Answers /\ Enqueue(<<"OTHER">>) /\ troubles < MaxTroubles /\ troubles' = troubles + 1
        /\ UNCHANGED <<stagingVars, pending, errors, unseen, jobs, transfer, inbox, peer,
                       PeerStaging, held, disturbed, begins, starts>>
    BY <1>10 DEF UsbForward, errorVars, UsbQuiet, peerVars, PeerStaging
  <2>2. StagingType' /\ ErrorType' /\ JobType' /\ PeerType'
    BY <1>0, <2>1, UsbSteps, StagingQuiet, JobQuiet, PeerQuiet
  <2>3. Described'
    BY <1>0, <2>1, DescribedQuiet DEF stagingVars, PeerStaging
  <2>4. LinkType'
    BY <1>0, <2>1, MessageTypes, EnqueueType DEF LinkType
  <2>5. troubles' \in 0 .. MaxTroubles
    BY <1>0, <2>1, GatewayAssumption DEF HistoryType
  <2>6. HistoryType'
    BY <1>0, <2>1, <2>5 DEF HistoryType
  <2> QED
    BY <1>type, <2>2, <2>3, <2>4, <2>6
<1> QED
  BY <1>1, <1>2, <1>3, <1>4, <1>5, <1>6, <1>7, <1>8, <1>9, <1>10 DEF UsbHandler

\* A step of program_task changes its place, its queue and the link only.
LEMMA TransferType ==
    ASSUME TypeInv, TransferQuiet, JobType', LinkType', Described'
    PROVE  TypeInv'
<1>1. StagingType /\ ErrorType /\ PeerType /\ HistoryType
  BY TypeParts DEF TypeInv
<1>2. UNCHANGED <<stagingVars, usb, pending, unseen, errors, PeerStaging, inbox, peer, held,
                  disturbed, begins, starts, troubles>>
  BY DEF TransferQuiet, peerVars, errorVars, bounds, PeerStaging
<1>3. StagingType' /\ ErrorType' /\ PeerType' /\ HistoryType'
  BY <1>1, <1>2, StagingQuiet, ErrorQuiet, PeerQuiet, HistoryQuiet
<1>4. TypeOK'
  BY <1>3, TypeParts, PTL
<1> QED
  BY <1>4 DEF TypeInv

LEMMA ProgramTaskType == TypeInv /\ ProgramTask => TypeInv'
<1> SUFFICES ASSUME TypeInv, ProgramTask PROVE TypeInv'
  OBVIOUS
<1>0. StagingType /\ JobType /\ LinkType /\ Described
  BY TypeParts DEF TypeInv
<1>1. TransferQuiet
  BY DEF ProgramTask, TakeJob, SendBegin, SendData, SendEnd, SendStart, TransferFails, EndFlush
<1>2. UNCHANGED <<manifest, ready, pReady, pManifest, staged>>
  BY <1>1 DEF TransferQuiet, stagingVars, peerVars
<1>3. CASE TakeJob
  <2>1. jobs \in Seq(Operation) /\ jobs # <<>> /\ Len(jobs) <= JobQueue
        /\ transfer' = [at |-> "BEGIN", op |-> Head(jobs), pos |-> 1]
        /\ jobs' = Tail(jobs) /\ UNCHANGED link
    BY <1>0, <1>3 DEF TakeJob, JobType
  <2>2. Head(jobs) \in Operation /\ jobs' \in Seq(Operation) /\ Len(jobs') <= JobQueue
    <3>1. Head(jobs) \in Operation /\ Tail(jobs) \in Seq(Operation)
          /\ Len(Tail(jobs)) = Len(jobs) - 1 /\ Len(jobs) \in Nat
      BY <2>1
    <3> QED
      BY <2>1, <3>1, GatewayAssumption
  <2>3. 1 \in 1 .. Capacity + 1
    BY ImageAssumption
  <2>4. JobType'
    BY <2>1, <2>2, <2>3 DEF JobType
  <2>5. Described'
    BY <1>0, <1>2, <2>1, <2>2 DEF Described
  <2> QED
    BY <1>0, <1>1, <2>1, <2>4, <2>5, LinkQuiet, TransferType
<1>4. ASSUME NEW from \in {"BEGIN", "DATA", "START"}, Transfers(from),
             NEW step \in {"DATA", "START", "FLUSH"}, Then(step), UNCHANGED jobs
      PROVE  JobType' /\ Described' /\ transfer.op \in Operation /\ manifest # NoImage
  <2>1. transfer.at = from /\ transfer' = [transfer EXCEPT !.at = step]
    BY <1>4 DEF Transfers, Then
  <2>2. JobType'
    BY <1>0, <1>4, <2>1 DEF JobType
  <2>3. transfer'.at # "IDLE" /\ transfer'.op = transfer.op
    BY <1>0, <2>1 DEF JobType
  <2>4. transfer.at # "IDLE"
    BY <2>1
  <2>5. Described' /\ transfer.op \in Operation /\ manifest # NoImage
    BY <1>0, <1>2, <1>4, <2>3, <2>4 DEF Described
  <2> QED
    BY <2>2, <2>5
<1>5. CASE SendBegin
  <2>1. Transfers("BEGIN") /\ Then("DATA") /\ UNCHANGED jobs /\ Enqueue(<<"BEGIN", manifest>>)
    BY <1>5 DEF SendBegin
  <2>2. JobType' /\ Described' /\ manifest # NoImage
    BY <1>4, <2>1
  <2>3. manifest \in Image
    BY <1>0, <2>2 DEF StagingType
  <2>4. LinkType'
    BY <1>0, <2>1, <2>3, MessageTypes, EnqueueType DEF LinkType
  <2> QED
    BY <1>1, <2>2, <2>4, TransferType
<1>6. CASE SendData
  <2>1. /\ transfer.at = "DATA" /\ transfer.pos <= TotalLength
        /\ Enqueue(<<"DATA", transfer.pos, staged[transfer.pos]>>)
        /\ transfer' = [transfer EXCEPT !.pos = @ + 1] /\ UNCHANGED jobs
    BY <1>6 DEF SendData, Transfers, Readable
  <2>2. transfer.pos \in 1 .. Capacity /\ transfer.pos + 1 \in 1 .. Capacity + 1
    BY <1>0, <2>1, TotalLengthType, ImageAssumption DEF StagingType, JobType
  <2>3. staged[transfer.pos] \in Content
    BY <1>0, <2>2 DEF StagingType
  <2>4. LinkType'
    BY <1>0, <2>1, <2>2, <2>3, MessageTypes, EnqueueType DEF LinkType
  <2>5. JobType' /\ transfer'.at = transfer.at /\ transfer'.op = transfer.op
    BY <1>0, <2>1, <2>2 DEF JobType
  <2>6. Described'
    BY <1>0, <1>2, <2>1, <2>5 DEF Described
  <2> QED
    BY <1>1, <2>4, <2>5, <2>6, TransferType
<1>7. CASE SendEnd
  <2>1. Transfers("DATA") /\ Then("START") /\ UNCHANGED jobs /\ Enqueue(<<"END">>)
    BY <1>7 DEF SendEnd
  <2>2. JobType' /\ Described'
    BY <1>4, <2>1
  <2>3. LinkType'
    BY <1>0, <2>1, MessageTypes, EnqueueType DEF LinkType
  <2> QED
    BY <1>1, <2>2, <2>3, TransferType
<1>8. CASE SendStart
  <2>1. Transfers("START") /\ Then("FLUSH") /\ UNCHANGED jobs /\ Enqueue(<<"START", transfer.op>>)
    BY <1>8 DEF SendStart
  <2>2. JobType' /\ Described' /\ transfer.op \in Operation
    BY <1>4, <2>1
  <2>3. LinkType'
    BY <1>0, <2>1, <2>2, MessageTypes, EnqueueType DEF LinkType
  <2> QED
    BY <1>1, <2>2, <2>3, TransferType
<1>9. CASE TransferFails \/ EndFlush
  <2>1. transfer' = NoJob /\ UNCHANGED <<jobs, link>>
        /\ (jobs # <<>> \/ transfer.at # "IDLE" \/ jobs = <<>>)
    BY <1>9 DEF TransferFails, EndFlush
  <2>2. 1 \in 1 .. Capacity + 1
    BY ImageAssumption
  <2>3. JobType'
    BY <1>0, <2>1, <2>2 DEF JobType, NoJob
  <2>4. Described'
    BY <1>0, <1>2, <2>1 DEF Described, NoJob
  <2> QED
    BY <1>0, <1>1, <2>1, <2>3, <2>4, LinkQuiet, TransferType
<1> QED
  BY <1>3, <1>5, <1>6, <1>7, <1>8, <1>9 DEF ProgramTask

\* A step of the link or of the Probe changes neither board's host side.
LEMMA PeerStepType ==
    ASSUME TypeInv, GatewayQuiet, LinkType', PeerType', pReady' => pManifest' # NoImage,
           errors' \in Seq(1 .. MaxTroubles), disturbed' \in BOOLEAN,
           troubles' \in 0 .. MaxTroubles, UNCHANGED <<begins, starts>>
    PROVE  TypeInv'
<1>1. StagingType /\ ErrorType /\ JobType /\ HistoryType /\ Described
  BY TypeParts DEF TypeInv
<1>2. UNCHANGED <<stagingVars, usb, pending, unseen, jobs, transfer, held>>
  BY DEF GatewayQuiet, errorVars
<1>3. StagingType' /\ JobType'
  BY <1>1, <1>2, StagingQuiet, JobQuiet
<1>4. ErrorType'
  BY <1>1, <1>2 DEF ErrorType
<1>5. HistoryType'
  BY <1>1, <1>2 DEF HistoryType
<1>6. Described'
  BY <1>1, <1>2 DEF Described, stagingVars
<1>7. TypeOK'
  BY <1>3, <1>4, <1>5, TypeParts, PTL
<1> QED
  BY <1>6, <1>7 DEF TypeInv

LEMMA ProbeTasksType == TypeInv /\ ProbeTasks => TypeInv'
<1> SUFFICES ASSUME TypeInv, ProbeTasks PROVE TypeInv'
  OBVIOUS
<1>0. LinkType /\ PeerType /\ HistoryType /\ Described /\ errors \in Seq(1 .. MaxTroubles)
  BY TypeParts DEF TypeInv, ErrorType
<1>1. inbox \in Seq(Message) /\ link \in Seq(Carried) /\ disturbed \in BOOLEAN
      /\ troubles \in 0 .. MaxTroubles /\ Peer!StagingType
      /\ peer \in [op : Operation \cup {NoOperation}, image : Image \cup {NoImage}, busy : BOOLEAN]
  BY <1>0 DEF LinkType, PeerType, HistoryType
<1>2. CASE Deliver
  <2>1. /\ link # <<>> /\ Head(link) # <<"RESET">> /\ link' = Tail(link)
        /\ inbox' = Append(inbox, Head(link)) /\ GatewayQuiet
        /\ UNCHANGED <<errors, peer, PeerStaging, disturbed, begins, starts, troubles>>
    BY <1>2 DEF Deliver, bounds
  <2>2. LinkType'
    BY <1>0, <2>1, TailType DEF LinkType
  <2>3. Head(link) \in Carried
    BY <1>1, <2>1
  <2>4. Head(link) \in Message
    BY <2>1, <2>3 DEF Carried
  <2>5. inbox' \in Seq(Message)
    BY <1>1, <2>1, <2>4
  <2>6. PeerType'
    BY <1>1, <2>1, <2>5 DEF PeerType, PeerStaging, Peer!StagingType
  <2> QED
    BY <1>0, <1>1, <2>1, <2>2, <2>6, PeerStepType DEF PeerStaging, Described
<1>3. CASE PeerEpochReset
  <2>1. /\ link # <<>> /\ link' = Tail(link) /\ GatewayQuiet
        /\ disturbed' = (disturbed \/ peer.busy \/ inbox # <<>>)
        /\ UNCHANGED <<inbox, errors, peer, begins, starts, troubles>>
        /\ (UNCHANGED PeerStaging \/ Peer!Invalidate)
    BY <1>3 DEF PeerEpochReset, bounds
  <2>2. LinkType'
    BY <1>0, <2>1, TailType DEF LinkType
  <2>3. Peer!StagingType' /\ (pReady' => pManifest' # NoImage)
    <3>1. CASE UNCHANGED PeerStaging
      BY <1>0, <1>1, <3>1 DEF PeerStaging, Peer!StagingType, Described
    <3>2. CASE Peer!Invalidate
      <4>1. /\ pManifest' = NoImage /\ pWritten' = 0 /\ pReady' = FALSE
            /\ pStaged' = pStaged /\ 0 \in 0 .. Capacity
        BY <3>2, ImageAssumption DEF Peer!Invalidate
      <4> QED
        BY <1>1, <4>1 DEF Peer!StagingType
    <3> QED
      BY <2>1, <3>1, <3>2
  <2>4. PeerType'
    BY <1>1, <2>1, <2>3 DEF PeerType
  <2>5. disturbed' \in BOOLEAN
    BY <2>1
  <2> QED
    BY <1>0, <1>1, <2>1, <2>2, <2>3, <2>4, <2>5, PeerStepType
<1>4. ASSUME inbox # <<>>, inbox' = Tail(inbox)
      PROVE  Head(inbox) \in Message /\ inbox' \in Seq(Message)
  BY <1>1, <1>4
<1>5. ASSUME WorkQuiet, inbox' \in Seq(Message), Peer!StagingType',
             pReady' => pManifest' # NoImage,
             peer' \in [op : Operation \cup {NoOperation}, image : Image \cup {NoImage},
                        busy : BOOLEAN]
      PROVE  TypeInv'
  <2>1. GatewayQuiet /\ UNCHANGED <<link, errors, disturbed, begins, starts, troubles>>
    BY <1>5 DEF WorkQuiet, bounds
  <2>2. LinkType' /\ PeerType'
    BY <1>0, <1>5, <2>1, LinkQuiet DEF PeerType
  <2> QED
    BY <1>0, <1>1, <1>5, <2>1, <2>2, PeerStepType
<1>6. CASE PeerBegin
  <2>1. /\ inbox # <<>> /\ Head(inbox)[1] = "BEGIN" /\ inbox' = Tail(inbox)
        /\ pManifest' = Head(inbox)[2] /\ pWritten' = 0 /\ pReady' = FALSE
        /\ pStaged' = [k \in 1 .. Capacity |->
                         IF k <= Len(Data[Head(inbox)[2]]) THEN Erased ELSE pStaged[k]]
        /\ UNCHANGED peer /\ WorkQuiet
    BY <1>6 DEF PeerBegin, Works
  <2>2. Head(inbox)[2] \in Image
    BY <1>4, <2>1, MessageParts
  <2>3. pStaged' \in [1 .. Capacity -> Content] /\ 0 \in 0 .. Capacity
    BY <1>1, <2>1, ImageAssumption DEF Peer!StagingType
  <2>4. Peer!StagingType'
    BY <2>1, <2>2, <2>3 DEF Peer!StagingType
  <2> QED
    BY <1>1, <1>4, <1>5, <2>1, <2>2, <2>4
<1>7. CASE PeerData
  <2>1. /\ inbox # <<>> /\ Head(inbox)[1] = "DATA" /\ inbox' = Tail(inbox)
        /\ Peer!InSequence(Head(inbox)[2])
        /\ pStaged' = [pStaged EXCEPT ![Head(inbox)[2]] = Head(inbox)[3]]
        /\ pWritten' = pWritten + 1
        /\ UNCHANGED <<pManifest, pReady, peer>> /\ WorkQuiet
    BY <1>7 DEF PeerData, Works
  <2>2. Head(inbox)[2] \in 1 .. Capacity /\ Head(inbox)[3] \in Content
    BY <1>4, <2>1, MessageParts
  <2>3. pWritten + 1 = Head(inbox)[2]
    BY <2>1 DEF Peer!InSequence
  <2>4. Peer!StagingType'
    <3>1. pWritten' \in 0 .. Capacity
      BY <2>1, <2>2, <2>3, ImageAssumption
    <3>2. pStaged' \in [1 .. Capacity -> Content]
      BY <1>1, <2>1, <2>2 DEF Peer!StagingType
    <3> QED
      BY <1>1, <2>1, <3>1, <3>2 DEF Peer!StagingType
  <2> QED
    BY <1>0, <1>1, <1>4, <1>5, <2>1, <2>4 DEF Described
<1>8. CASE PeerEnd
  <2>1. /\ inbox # <<>> /\ inbox' = Tail(inbox) /\ pManifest # NoImage /\ pReady' = TRUE
        /\ UNCHANGED <<pStaged, pManifest, pWritten, peer>> /\ WorkQuiet
    BY <1>8 DEF PeerEnd, Works, Peer!Complete, Peer!MarkReady
  <2>2. Peer!StagingType'
    BY <1>1, <2>1 DEF Peer!StagingType
  <2> QED
    BY <1>1, <1>4, <1>5, <2>1, <2>2
<1>9. CASE PeerStart
  <2>1. /\ inbox # <<>> /\ Head(inbox)[1] = "START" /\ inbox' = Tail(inbox)
        /\ \/ peer' = [op |-> Head(inbox)[2], image |-> pManifest, busy |-> TRUE]
           \/ UNCHANGED peer
        /\ UNCHANGED <<pStaged, pManifest, pWritten, pReady>> /\ WorkQuiet
    BY <1>9 DEF PeerStart, Works, PeerStaging
  <2>2. Head(inbox)[2] \in Operation
    BY <1>4, <2>1, MessageParts
  <2>3. peer' \in [op : Operation \cup {NoOperation}, image : Image \cup {NoImage},
                   busy : BOOLEAN]
    <3>1. pManifest \in Image \cup {NoImage}
      BY <1>1 DEF Peer!StagingType
    <3>2. CASE UNCHANGED peer
      BY <1>1, <3>2
    <3>3. CASE peer' = [op |-> Head(inbox)[2], image |-> pManifest, busy |-> TRUE]
      BY <2>2, <3>1, <3>3
    <3> QED
      BY <2>1, <3>2, <3>3
  <2>4. Peer!StagingType'
    BY <1>1, <2>1 DEF Peer!StagingType
  <2> QED
    BY <1>0, <1>4, <1>5, <2>1, <2>3, <2>4 DEF Described
<1>10. CASE PeerOther
  <2>1. /\ inbox # <<>> /\ inbox' = Tail(inbox) /\ WorkQuiet
        /\ UNCHANGED <<peer, pStaged, pManifest, pWritten, pReady>>
    BY <1>10 DEF PeerOther, Works, PeerStaging
  <2>2. Peer!StagingType'
    BY <1>1, <2>1 DEF Peer!StagingType
  <2> QED
    BY <1>0, <1>1, <1>4, <1>5, <2>1, <2>2 DEF Described
<1>11. CASE PeerRefuses
  <2>1. /\ inbox # <<>> /\ inbox' = Tail(inbox) /\ GatewayQuiet
        /\ UNCHANGED <<link, peer, pStaged, pManifest, pWritten, pReady, disturbed, begins, starts>>
        /\ \/ troubles < MaxTroubles /\ troubles' = troubles + 1
              /\ errors' = Append(errors, troubles + 1)
           \/ UNCHANGED <<troubles, errors>>
    BY <1>11 DEF PeerRefuses, PeerStaging
  <2>2. LinkType' /\ Peer!StagingType'
    BY <1>0, <1>1, <2>1, LinkQuiet DEF Peer!StagingType
  <2>3. PeerType'
    BY <1>1, <1>4, <2>1, <2>2 DEF PeerType
  <2>4. troubles' \in 0 .. MaxTroubles /\ errors' \in Seq(1 .. MaxTroubles)
    <3>1. CASE UNCHANGED <<troubles, errors>>
      BY <1>0, <1>1, <3>1
    <3>2. CASE troubles < MaxTroubles /\ troubles' = troubles + 1
               /\ errors' = Append(errors, troubles + 1)
      <4>1. troubles + 1 \in 1 .. MaxTroubles /\ troubles + 1 \in 0 .. MaxTroubles
        BY <1>1, <3>2, GatewayAssumption
      <4> QED
        BY <1>0, <3>2, <4>1
    <3> QED
      BY <2>1, <3>1, <3>2
  <2> QED
    BY <1>0, <1>1, <2>1, <2>2, <2>3, <2>4, PeerStepType DEF Described
<1>12. CASE PeerFinishes
  <2>1. /\ peer' = [peer EXCEPT !.busy = FALSE] /\ WorkQuiet
        /\ UNCHANGED <<inbox, pStaged, pManifest, pWritten, pReady>>
    BY <1>12 DEF PeerFinishes, PeerStaging
  <2>2. peer' \in [op : Operation \cup {NoOperation}, image : Image \cup {NoImage},
                   busy : BOOLEAN]
    BY <1>1, <2>1
  <2>3. Peer!StagingType'
    BY <1>1, <2>1 DEF Peer!StagingType
  <2> QED
    BY <1>0, <1>1, <1>5, <2>1, <2>2, <2>3 DEF Described
<1> QED
  BY <1>2, <1>3, <1>6, <1>7, <1>8, <1>9, <1>10, <1>11, <1>12 DEF ProbeTasks

LEMMA TakeErrorType == TypeInv /\ TakeError => TypeInv'
<1> SUFFICES ASSUME TypeInv, TakeError PROVE TypeInv'
  OBVIOUS
<1>0. StagingType /\ ErrorType /\ JobType /\ LinkType /\ PeerType /\ HistoryType /\ Described
  BY TypeParts DEF TypeInv
<1>1. /\ errors # <<>> /\ errors' = Tail(errors) /\ errors \in Seq(1 .. MaxTroubles)
      /\ pending' \in {pending, Head(errors)} /\ unseen' \subseteq unseen \cup {Head(errors)}
      /\ UNCHANGED <<stagingVars, usb, jobs, transfer, link, inbox, peer, PeerStaging, held,
                     disturbed, begins, starts, troubles>>
  BY <1>0 DEF TakeError, errorVars, bounds, PeerStaging, ErrorType
<1>2. Head(errors) \in 1 .. MaxTroubles /\ errors' \in Seq(1 .. MaxTroubles)
  <2>1. errors # <<>> /\ errors' = Tail(errors) /\ errors \in Seq(1 .. MaxTroubles)
    BY <1>1
  <2> QED
    BY <2>1, HeadTailProperties
<1>3. Head(errors) \in 0 .. MaxTroubles
  BY <1>2, GatewayAssumption
<1>4. ErrorType'
  BY <1>0, <1>1, <1>2, <1>3 DEF ErrorType
<1>5. StagingType' /\ JobType' /\ LinkType' /\ PeerType' /\ HistoryType'
  BY <1>0, <1>1, StagingQuiet, JobQuiet, LinkQuiet, PeerQuiet, HistoryQuiet
<1>6. Described'
  BY <1>0, <1>1, DescribedQuiet DEF stagingVars, PeerStaging
<1>7. TypeOK'
  BY <1>4, <1>5, TypeParts, PTL
<1> QED
  BY <1>6, <1>7 DEF TypeInv

LEMMA LocalEpochResetType == TypeInv /\ LocalEpochReset => TypeInv'
<1> SUFFICES ASSUME TypeInv, LocalEpochReset PROVE TypeInv'
  OBVIOUS
<1>0. ErrorType /\ LinkType /\ PeerType /\ HistoryType /\ Described
  BY TypeParts DEF TypeInv
<1>1. /\ troubles < MaxTroubles /\ troubles' = troubles + 1 /\ GatewayQuiet
      /\ UNCHANGED <<inbox, errors, peer, PeerStaging, begins, starts>>
  BY DEF LocalEpochReset, peerVars, PeerStaging
<1>2. \/ link' = <<<<"RESET">>>> /\ UNCHANGED disturbed
      \/ \E k \in Commands : link' = <<<<"RESET">>, link[k]>>
                             /\ disturbed' = (disturbed \/ Stray(link[k]))
  BY DEF LocalEpochReset
<1>3. disturbed' \in BOOLEAN
  BY <1>0, <1>2 DEF HistoryType
<1>4. LinkType'
  <2>1. \A k \in Commands : link[k] \in Message
    BY <1>0 DEF LinkType, Commands, Carried
  <2>2. link' \in {<<<<"RESET">>>>} \cup {<<<<"RESET">>, m>> : m \in Message}
    BY <1>2, <2>1
  <2> QED
    BY <2>2, ResetType DEF LinkType
<1>5. PeerType' /\ (pReady' => pManifest' # NoImage)
  BY <1>0, <1>1, PeerQuiet DEF PeerStaging, Described
<1>6. troubles' \in 0 .. MaxTroubles
  BY <1>0, <1>1, GatewayAssumption DEF HistoryType
<1> QED
  BY <1>0, <1>1, <1>3, <1>4, <1>5, <1>6, PeerStepType DEF ErrorType

LEMMA RestartType == TypeInv /\ Restart => TypeInv'
<1> SUFFICES ASSUME TypeInv, Restart PROVE TypeInv'
  OBVIOUS
<1>0. StagingType /\ ErrorType /\ PeerType /\ HistoryType /\ Described
  BY TypeParts DEF TypeInv
<1>1. /\ troubles < MaxTroubles /\ troubles' = troubles + 1
      /\ manifest' = NoImage /\ written' = 0 /\ ready' = FALSE /\ UNCHANGED staged
      /\ usb' = Waiting /\ pending' = 0 /\ unseen' = {} /\ jobs' = <<>> /\ transfer' = NoJob
      /\ link' = <<<<"RESET">>>>
      /\ UNCHANGED <<inbox, errors, peer, PeerStaging, held, disturbed, begins, starts>>
  BY DEF Restart, peerVars, PeerStaging
<1>2. 0 \in 0 .. Capacity /\ 0 \in 0 .. MaxTroubles /\ 1 \in 1 .. Capacity + 1
  BY ImageAssumption, GatewayAssumption
<1>3. StagingType'
  BY <1>0, <1>1, <1>2 DEF StagingType
<1>4. ErrorType'
  BY <1>0, <1>1, <1>2 DEF ErrorType, Waiting
<1>5. jobs' \in Seq(Operation) /\ Len(jobs') <= JobQueue
  BY <1>1, GatewayAssumption
<1>6. JobType'
  BY <1>1, <1>2, <1>5 DEF JobType, NoJob
<1>7. LinkType'
  BY <1>1, ResetType DEF LinkType
<1>8. PeerType'
  BY <1>0, <1>1, PeerQuiet
<1>9. troubles' \in 0 .. MaxTroubles
  BY <1>0, <1>1, GatewayAssumption DEF HistoryType
<1>10. HistoryType'
  BY <1>0, <1>1, <1>9 DEF HistoryType
<1>11. Described'
  BY <1>0, <1>1 DEF Described, NoJob, PeerStaging
<1>12. TypeOK'
  BY <1>3, <1>4, <1>6, <1>7, <1>8, <1>10, TypeParts, PTL
<1> QED
  BY <1>11, <1>12 DEF TypeInv

LEMMA NextType == TypeInv /\ [Next]_vars => TypeInv'
<1> SUFFICES ASSUME TypeInv, [Next]_vars PROVE TypeInv'
  OBVIOUS
<1>1. CASE UNCHANGED vars
  <2>1. StagingType /\ ErrorType /\ JobType /\ LinkType /\ PeerType /\ HistoryType /\ Described
    BY TypeParts DEF TypeInv
  <2>2. UNCHANGED <<stagingVars, usb, pending, unseen, errors, jobs, transfer, link, inbox, peer,
                    PeerStaging, held, disturbed, begins, starts, troubles>>
    BY <1>1 DEF vars, peerVars, errorVars, bounds, PeerStaging
  <2>3. StagingType' /\ ErrorType' /\ JobType' /\ LinkType' /\ PeerType' /\ HistoryType'
    BY <2>1, <2>2, StagingQuiet, ErrorQuiet, JobQuiet, LinkQuiet, PeerQuiet, HistoryQuiet
  <2>4. Described'
    BY <2>1, <2>2, DescribedQuiet DEF stagingVars, PeerStaging
  <2>5. TypeOK'
    BY <2>3, TypeParts, PTL
  <2> QED
    BY <2>4, <2>5 DEF TypeInv
<1> QED
  BY <1>1, UsbHandlerType, ProgramTaskType, TakeErrorType, ProbeTasksType, LocalEpochResetType,
     RestartType DEF Next

\* TypeOK: the variables of the three tasks, of the link and of the Probe keep
\* to their types, and the link, the job queue and the numbers to their limits.
THEOREM TypeCorrect == Spec => []TypeOK
<1>1. Init => TypeInv
  BY InitType
<1>2. TypeInv /\ [Next]_vars => TypeInv'
  BY NextType
<1>3. TypeInv => TypeOK
  BY DEF TypeInv
<1> QED
  BY <1>1, <1>2, <1>3, PTL DEF Spec

-----------------------------------------------------------------------------
(***************************************************************************)
(* Facts about sequences of commands.                                      *)
(***************************************************************************)

\* Leads depends on the commands before its place only.
LEMMA LeadsSame ==
    ASSUME NEW s, NEW r, NEW first, NEW I, NEW J, I \subseteq J, NEW j \in Nat,
           \A k \in 1 .. j - 1 : r[k] = s[k], Leads(s, first, j, I)
    PROVE  Leads(r, first, j, J)
<1>1. ASSUME NEW i \in 1 .. j - 1, Stands(r, i, j) PROVE After(r[i]) \in J
  <2>1. \A k \in i + 1 .. j - 1 : k \in 1 .. j - 1
    OBVIOUS
  <2>2. Stands(s, i, j)
    BY <1>1, <2>1 DEF Stands
  <2>3. After(s[i]) \in I
    BY <2>2 DEF Leads
  <2> QED
    BY <2>3
<1>2. (\A k \in 1 .. j - 1 : ~Marks(r[k])) => first \in J
  BY DEF Leads
<1> QED
  BY <1>1, <1>2 DEF Leads

\* A command that sets the manifest decides what comes next.
LEMMA LeadsMark ==
    ASSUME NEW r, NEW first, NEW I, NEW j \in Nat \ {0}, Marks(r[j]), After(r[j]) \in I
    PROVE  Leads(r, first, j + 1, I)
<1>1. ASSUME NEW i \in 1 .. (j + 1) - 1, Stands(r, i, j + 1) PROVE After(r[i]) \in I
  <2>1. CASE i = j
    BY <2>1
  <2>2. CASE i # j
    <3>1. j \in i + 1 .. (j + 1) - 1
      BY <2>2
    <3> QED
      BY <1>1, <3>1 DEF Stands
  <2> QED
    BY <2>1, <2>2
<1>2. j \in 1 .. (j + 1) - 1
  OBVIOUS
<1> QED
  BY <1>1, <1>2 DEF Leads

\* Another one leaves it as it is.
LEMMA LeadsOn ==
    ASSUME NEW r, NEW first, NEW I, NEW j \in Nat \ {0}, ~Marks(r[j]), Leads(r, first, j, I)
    PROVE  Leads(r, first, j + 1, I)
<1>1. ASSUME NEW i \in 1 .. (j + 1) - 1, Stands(r, i, j + 1) PROVE After(r[i]) \in I
  <2>1. Marks(r[i]) /\ i # j
    BY <1>1 DEF Stands
  <2>2. i \in 1 .. j - 1
    BY <2>1
  <2>3. \A k \in i + 1 .. j - 1 : k \in i + 1 .. (j + 1) - 1
    OBVIOUS
  <2>4. Stands(r, i, j)
    BY <1>1, <2>3 DEF Stands
  <2> QED
    BY <2>2, <2>4 DEF Leads
<1>2. ASSUME \A k \in 1 .. (j + 1) - 1 : ~Marks(r[k]) PROVE first \in I
  <2>1. \A k \in 1 .. j - 1 : k \in 1 .. (j + 1) - 1
    OBVIOUS
  <2> QED
    BY <1>2, <2>1 DEF Leads
<1> QED
  BY <1>1, <1>2 DEF Leads

\* The first command is executed.
LEMMA LeadsTail ==
    ASSUME NEW s, NEW r, NEW first, NEW after, NEW I, NEW j \in Nat \ {0},
           \A k \in 1 .. j - 1 : r[k] = s[k + 1], Leads(s, first, j + 1, I),
           Marks(s[1]) => after = After(s[1]), ~Marks(s[1]) => after = first
    PROVE  Leads(r, after, j, I)
<1>1. ASSUME NEW i \in 1 .. j - 1, Stands(r, i, j) PROVE After(r[i]) \in I
  <2>1. i + 1 \in 1 .. (j + 1) - 1 /\ r[i] = s[i + 1]
    OBVIOUS
  <2>2. ASSUME NEW k \in (i + 1) + 1 .. (j + 1) - 1 PROVE ~Marks(s[k])
    <3>1. k - 1 \in i + 1 .. j - 1 /\ k - 1 \in 1 .. j - 1 /\ (k - 1) + 1 = k
      OBVIOUS
    <3>2. r[k - 1] = s[k]
      BY <3>1
    <3> QED
      BY <1>1, <3>1, <3>2 DEF Stands
  <2>3. Stands(s, i + 1, j + 1)
    BY <1>1, <2>1, <2>2 DEF Stands
  <2> QED
    BY <2>1, <2>3 DEF Leads
<1>2. ASSUME \A k \in 1 .. j - 1 : ~Marks(r[k]) PROVE after \in I
  <2>1. ASSUME NEW k \in 1 + 1 .. (j + 1) - 1 PROVE ~Marks(s[k])
    <3>1. k - 1 \in 1 .. j - 1 /\ (k - 1) + 1 = k
      OBVIOUS
    <3>2. r[k - 1] = s[k]
      BY <3>1
    <3> QED
      BY <1>2, <3>1, <3>2
  <2>2. CASE Marks(s[1])
    <3>1. Stands(s, 1, j + 1) /\ 1 \in 1 .. (j + 1) - 1
      BY <2>1, <2>2 DEF Stands
    <3> QED
      BY <2>2, <3>1 DEF Leads
  <2>3. CASE ~Marks(s[1])
    <3>1. \A k \in 1 .. (j + 1) - 1 : k = 1 \/ k \in 1 + 1 .. (j + 1) - 1
      OBVIOUS
    <3>2. \A k \in 1 .. (j + 1) - 1 : ~Marks(s[k])
      BY <2>1, <2>3, <3>1
    <3> QED
      BY <2>3, <3>2 DEF Leads
  <2> QED
    BY <2>2, <2>3
<1> QED
  BY <1>1, <1>2 DEF Leads

\* Started keeps with more images held, for a beginning of the sequence, with
\* another command at its end, and without its first.
LEMMA StartedGrows ==
    ASSUME NEW s \in Seq(Carried), NEW first, NEW h \in [Operation -> SUBSET Image],
           NEW g \in [Operation -> SUBSET Image], Started(s, first, h),
           \A op \in Operation : h[op] \subseteq g[op]
    PROVE  Started(s, first, g)
<1> SUFFICES ASSUME NEW j \in DOMAIN s, s[j][1] = "START"
             PROVE  Leads(s, first, j, g[s[j][2]] \cup {NoImage})
  BY DEF Started
<1>1. j \in Nat /\ s[j] \in Carried
  OBVIOUS
<1>2. s[j] \in Message
  BY <1>1 DEF Carried
<1>3. s[j][2] \in Operation
  BY <1>2, MessageParts
<1>4. h[s[j][2]] \cup {NoImage} \subseteq g[s[j][2]] \cup {NoImage}
  BY <1>3
<1>5. Leads(s, first, j, h[s[j][2]] \cup {NoImage})
  BY DEF Started
<1> QED
  BY <1>1, <1>4, <1>5, LeadsSame

LEMMA StartedCut ==
    ASSUME NEW s \in Seq(Carried), NEW t \in Seq(Carried), NEW first, NEW h,
           Started(s \o t, first, h)
    PROVE  Started(s, first, h)
<1>1. /\ DOMAIN s = 1 .. Len(s) /\ DOMAIN (s \o t) = 1 .. Len(s) + Len(t)
      /\ \A k \in 1 .. Len(s) : (s \o t)[k] = s[k]
      /\ Len(s) \in Nat /\ Len(t) \in Nat
  BY ConcatProperties
<1> DEFINE r == s \o t
<1>2. ASSUME NEW j \in DOMAIN s, s[j][1] = "START"
      PROVE  Leads(s, first, j, h[s[j][2]] \cup {NoImage})
  <2>1. j \in DOMAIN r /\ r[j] = s[j] /\ j \in Nat
    BY <1>1
  <2>2. Leads(r, first, j, h[s[j][2]] \cup {NoImage})
    BY <1>2, <2>1 DEF Started
  <2>3. \A k \in 1 .. j - 1 : s[k] = r[k]
    BY <1>1, <2>1
  <2> HIDE DEF r
  <2> QED
    BY <2>1, <2>2, <2>3, LeadsSame
<1> QED
  BY <1>2 DEF Started

LEMMA AppendFacts ==
    ASSUME NEW s \in Seq(Carried), NEW m \in Carried
    PROVE  /\ Append(s, m) \in Seq(Carried) /\ Len(Append(s, m)) = Len(s) + 1 /\ Len(s) \in Nat
           /\ DOMAIN s = 1 .. Len(s) /\ DOMAIN Append(s, m) = 1 .. Len(s) + 1
           /\ \A k \in 1 .. Len(s) : Append(s, m)[k] = s[k]
           /\ Append(s, m)[Len(s) + 1] = m
OBVIOUS

LEMMA StartedAppend ==
    ASSUME NEW s \in Seq(Carried), NEW m \in Carried, NEW first, NEW h, Started(s, first, h),
           m[1] = "START" => Leads(s, first, Len(s) + 1, h[m[2]] \cup {NoImage})
    PROVE  Started(Append(s, m), first, h)
<1> DEFINE r == Append(s, m)
<1>1. /\ DOMAIN s = 1 .. Len(s) /\ DOMAIN r = 1 .. Len(s) + 1 /\ Len(s) \in Nat
      /\ \A k \in 1 .. Len(s) : r[k] = s[k]
      /\ r[Len(s) + 1] = m
  BY AppendFacts
<1> HIDE DEF r
<1>2. ASSUME NEW j \in DOMAIN r, r[j][1] = "START"
      PROVE  Leads(r, first, j, h[r[j][2]] \cup {NoImage})
  <2>1. j \in Nat /\ \A k \in 1 .. j - 1 : r[k] = s[k]
    BY <1>1
  <2>2. Leads(s, first, j, h[r[j][2]] \cup {NoImage})
    <3>1. CASE j \in 1 .. Len(s)
      BY <1>1, <1>2, <3>1 DEF Started
    <3>2. CASE j = Len(s) + 1
      BY <1>1, <1>2, <3>2
    <3> QED
      BY <1>1, <3>1, <3>2
  <2> QED
    BY <2>1, <2>2, LeadsSame
<1>3. Started(r, first, h)
  BY <1>2 DEF Started
<1> QED
  BY <1>3 DEF r

\* What follows another command at the end.
LEMMA EndAppend ==
    ASSUME NEW s \in Seq(Carried), NEW m \in Carried, NEW first, NEW I,
           Marks(m) => After(m) \in I, ~Marks(m) => Leads(s, first, Len(s) + 1, I)
    PROVE  Leads(Append(s, m), first, Len(Append(s, m)) + 1, I)
<1> DEFINE r == Append(s, m)
<1>1. /\ Len(r) = Len(s) + 1 /\ Len(s) \in Nat
      /\ \A k \in 1 .. Len(s) : r[k] = s[k]
      /\ r[Len(s) + 1] = m
  BY AppendFacts
<1> HIDE DEF r
<1>2. Len(s) + 1 \in Nat \ {0} /\ \A k \in 1 .. (Len(s) + 1) - 1 : r[k] = s[k]
  BY <1>1
<1>3. CASE Marks(m)
  BY <1>1, <1>2, <1>3, LeadsMark DEF r
<1>4. CASE ~Marks(m)
  <2>1. Leads(r, first, Len(s) + 1, I)
    BY <1>2, <1>4, LeadsSame
  <2>2. Leads(r, first, (Len(s) + 1) + 1, I)
    BY <1>1, <1>2, <1>4, <2>1, LeadsOn
  <2> QED
    BY <1>1, <2>2 DEF r
<1> QED
  BY <1>3, <1>4

LEMMA TailFacts ==
    ASSUME NEW s \in Seq(Carried), s # <<>>
    PROVE  /\ Tail(s) \in Seq(Carried) /\ Len(Tail(s)) = Len(s) - 1 /\ Len(s) \in Nat \ {0}
           /\ DOMAIN s = 1 .. Len(s) /\ DOMAIN Tail(s) = 1 .. Len(s) - 1
           /\ \A k \in 1 .. Len(s) - 1 : Tail(s)[k] = s[k + 1]
           /\ Head(s) = s[1]
OBVIOUS

LEMMA StartedTail ==
    ASSUME NEW s \in Seq(Carried), s # <<>>, NEW first, NEW after, NEW h,
           Started(s, first, h),
           Marks(Head(s)) => after = After(Head(s)), ~Marks(Head(s)) => after = first
    PROVE  Started(Tail(s), after, h)
<1> DEFINE r == Tail(s)
<1>1. /\ DOMAIN s = 1 .. Len(s) /\ DOMAIN r = 1 .. Len(s) - 1 /\ Len(s) \in Nat \ {0}
      /\ \A k \in 1 .. Len(s) - 1 : r[k] = s[k + 1]
      /\ Head(s) = s[1]
  BY TailFacts
<1> HIDE DEF r
<1>2. ASSUME NEW j \in DOMAIN r, r[j][1] = "START"
      PROVE  Leads(r, after, j, h[r[j][2]] \cup {NoImage})
  <2>1. j \in Nat \ {0} /\ j + 1 \in DOMAIN s /\ r[j] = s[j + 1]
    BY <1>1
  <2>2. \A k \in 1 .. j - 1 : r[k] = s[k + 1]
    BY <1>1, <2>1
  <2>3. Leads(s, first, j + 1, h[r[j][2]] \cup {NoImage})
    BY <1>2, <2>1 DEF Started
  <2> QED
    BY <1>1, <2>1, <2>2, <2>3, LeadsTail
<1>3. Started(r, after, h)
  BY <1>2 DEF Started
<1> QED
  BY <1>3 DEF r

LEMMA EndTail ==
    ASSUME NEW s \in Seq(Carried), s # <<>>, NEW first, NEW after, NEW I,
           Leads(s, first, Len(s) + 1, I),
           Marks(Head(s)) => after = After(Head(s)), ~Marks(Head(s)) => after = first
    PROVE  Leads(Tail(s), after, Len(Tail(s)) + 1, I)
<1> DEFINE r == Tail(s)
<1>1. /\ Len(r) = Len(s) - 1 /\ Len(s) \in Nat \ {0}
      /\ \A k \in 1 .. Len(s) - 1 : r[k] = s[k + 1]
      /\ Head(s) = s[1]
  BY TailFacts
<1> HIDE DEF r
<1>2. Len(r) + 1 = Len(s)
  BY <1>1
<1>3. Leads(r, after, Len(s), I)
  BY <1>1, LeadsTail
<1> QED
  BY <1>2, <1>3 DEF r

\* How the steps of the link move commands.
LEMMA StreamSteps ==
    ASSUME NEW s \in Seq(Carried), NEW t \in Seq(Carried)
    PROVE  /\ s \o t \in Seq(Carried)
           /\ \A m \in Carried : s \o Append(t, m) = Append(s \o t, m)
           /\ t # <<>> => Append(s, Head(t)) \o Tail(t) = s \o t
           /\ s # <<>> => s \o t # <<>> /\ Head(s \o t) = Head(s) /\ Tail(s \o t) = Tail(s) \o t
           /\ s = <<>> => s \o t = t
<1> USE DEF Carried
<1>1. s \o t \in Seq(Carried)
  BY ConcatProperties
<1>2. ASSUME NEW m \in Carried PROVE s \o Append(t, m) = Append(s \o t, m)
  BY ConcatProperties, AppendProperties, SeqEqual
<1>3. ASSUME t # <<>> PROVE Append(s, Head(t)) \o Tail(t) = s \o t
  BY <1>3, ConcatProperties, AppendProperties, HeadTailProperties, SeqEqual
<1>4. ASSUME s # <<>>
      PROVE s \o t # <<>> /\ Head(s \o t) = Head(s) /\ Tail(s \o t) = Tail(s) \o t
  BY <1>4, ConcatProperties, HeadTailProperties, SeqEqual
<1> QED
  BY <1>1, <1>2, <1>3, <1>4, ConcatEmptySeq

-----------------------------------------------------------------------------
(***************************************************************************)
(* The images held, step by step.                                          *)
(***************************************************************************)

\* Only a request of the host changes what is held, and it only adds to it.
LEMMA HeldGrows ==
    TypeOK /\ [Next]_vars => \A op \in Operation : held[op] \subseteq held'[op]
<1> SUFFICES ASSUME TypeOK, [Next]_vars, NEW op \in Operation PROVE held[op] \subseteq held'[op]
  OBVIOUS
<1>0. held \in [Operation -> SUBSET Image]
  BY DEF TypeOK
<1>1. ASSUME NEW i \in Image, UsbImageBegin(i) PROVE held[op] \subseteq held'[op]
  BY <1>0, <1>1 DEF UsbImageBegin
<1>2. ASSUME NEW o \in Operation, UsbProgramStart(o) PROVE held[op] \subseteq held'[op]
  BY <1>0, <1>2 DEF UsbProgramStart
<1>3. CASE Request \/ ShowPending \/ ClearPending \/ Answer \/ UsbImageErase \/ UsbImageEnd
           \/ UsbForward
  BY <1>3 DEF Request, ShowPending, ClearPending, Answer, UsbImageErase, UsbImageEnd, UsbForward
<1>4. ASSUME NEW k \in 1 .. Capacity, UsbImageData(k) PROVE held[op] \subseteq held'[op]
  BY <1>4 DEF UsbImageData
<1>5. CASE ProgramTask
  BY <1>5 DEF ProgramTask, TakeJob, SendBegin, SendData, SendEnd, SendStart, TransferFails,
              EndFlush, TransferQuiet
<1>6. CASE TakeError \/ LocalEpochReset \/ Restart \/ Deliver \/ PeerEpochReset \/ PeerRefuses
  BY <1>6 DEF TakeError, LocalEpochReset, Restart, Deliver, PeerEpochReset, PeerRefuses,
              GatewayQuiet
<1>7. CASE PeerBegin \/ PeerData \/ PeerEnd \/ PeerStart \/ PeerOther \/ PeerFinishes
  BY <1>7 DEF PeerBegin, PeerData, PeerEnd, PeerStart, PeerOther, PeerFinishes, WorkQuiet,
              GatewayQuiet
<1>8. CASE UNCHANGED vars
  BY <1>8 DEF vars
<1> QED
  BY <1>1, <1>2, <1>3, <1>4, <1>5, <1>6, <1>7, <1>8 DEF Next, UsbHandler, ProbeTasks

\* A step that leaves the manifest and the queue alone, and at most sends on.
LEMMA HeldQuiet ==
    ASSUME HeldInv, UNCHANGED <<held, manifest, jobs>>,
           transfer'.op = transfer.op \/ transfer'.op = NoOperation
    PROVE  HeldInv'
BY DEF HeldInv, Served

LEMMA UsbHandlerHeld == TypeInv /\ HeldInv /\ UsbHandler => HeldInv'
<1> SUFFICES ASSUME TypeInv, HeldInv, UsbHandler PROVE HeldInv'
  OBVIOUS
<1>0. /\ held \in [Operation -> SUBSET Image] /\ jobs \in Seq(Operation)
      /\ transfer.at # "IDLE" => transfer.op \in Operation
      /\ manifest \in Image \cup {NoImage} /\ (ready => manifest # NoImage)
  BY DEF TypeInv, TypeOK, StagingType, Described
<1>s. Served \subseteq Operation
  <2>1. transfer.op \in Operation \cup {NoOperation}
    BY DEF TypeInv, TypeOK
  <2>2. \A k \in DOMAIN jobs : jobs[k] \in Operation
    BY <1>0
  <2> QED
    BY <2>1, <2>2 DEF Served
<1>1. ASSUME NEW i \in Image, UsbImageBegin(i) PROVE HeldInv'
  <2>1. /\ held' = [op \in Operation |-> IF op \in Served THEN held[op] \cup {i} ELSE held[op]]
        /\ manifest' = i /\ UNCHANGED <<jobs, transfer>>
    BY <1>1 DEF UsbImageBegin, BeginImage, UsbQuiet
  <2>2. Served' = Served
    BY <2>1 DEF Served
  <2> QED
    BY <1>s, <2>1, <2>2 DEF HeldInv
<1>2. ASSUME NEW o \in Operation, UsbProgramStart(o) PROVE HeldInv'
  <2>1. /\ held' = [held EXCEPT ![o] = @ \cup {manifest}] /\ jobs' = Append(jobs, o)
        /\ UNCHANGED <<manifest, transfer>>
    BY <1>2 DEF UsbProgramStart, stagingVars
  <2>2. \A op \in Operation : held'[op] = IF op = o THEN held[op] \cup {manifest} ELSE held[op]
    BY <1>0, <2>1
  <2>3. Served' \subseteq Served \cup {o}
    <3>1. /\ DOMAIN jobs = 1 .. Len(jobs) /\ Len(jobs) \in Nat
          /\ DOMAIN jobs' = 1 .. Len(jobs) + 1
          /\ \A l \in 1 .. Len(jobs) : jobs'[l] = jobs[l]
          /\ jobs'[Len(jobs) + 1] = o
      BY <1>0, <2>1
    <3>2. \A k \in DOMAIN jobs' : jobs'[k] = o \/ \E l \in DOMAIN jobs : jobs'[k] = jobs[l]
      BY <3>1
    <3> QED
      BY <2>1, <3>2 DEF Served
  <2>4. ASSUME NEW op \in Served' PROVE manifest' \in held'[op] \cup {NoImage}
    <3>1. op = o \/ op \in Served
      BY <2>3
    <3>2. op = o => manifest \in held'[op]
      BY <2>2
    <3>3. op \in Served => held[op] \subseteq held'[op] /\ manifest \in held[op] \cup {NoImage}
      BY <1>s, <2>2 DEF HeldInv
    <3> QED
      BY <2>1, <3>1, <3>2, <3>3
  <2> QED
    BY <2>4 DEF HeldInv
<1>3. CASE Request \/ ShowPending \/ ClearPending \/ Answer \/ UsbImageErase \/ UsbImageEnd
           \/ UsbForward
  <2>1. UNCHANGED <<held, manifest, jobs, transfer>>
    BY <1>3 DEF Request, ShowPending, ClearPending, Answer, UsbImageErase, EraseImage,
                UsbImageEnd, MarkReady, UsbForward, UsbQuiet, stagingVars
  <2> QED
    BY <2>1, HeldQuiet
<1>4. ASSUME NEW k \in 1 .. Capacity, UsbImageData(k) PROVE HeldInv'
  <2>1. UNCHANGED <<held, manifest, jobs, transfer>>
    BY <1>4 DEF UsbImageData, FailBlock, UsbQuiet
  <2> QED
    BY <2>1, HeldQuiet
<1> QED
  BY <1>1, <1>2, <1>3, <1>4 DEF UsbHandler

LEMMA NextHeld == TypeInv /\ HeldInv /\ [Next]_vars => HeldInv'
<1> SUFFICES ASSUME TypeInv, HeldInv, [Next]_vars PROVE HeldInv'
  OBVIOUS
<1>0. /\ jobs \in Seq(Operation)
      /\ transfer \in [at : {"IDLE", "BEGIN", "DATA", "START", "FLUSH"},
                       op : Operation \cup {NoOperation}, pos : 1 .. Capacity + 1]
  BY DEF TypeInv, TypeOK
<1>1. CASE UsbHandler
  BY <1>1, UsbHandlerHeld
<1>2. CASE TakeJob
  <2>1. /\ jobs # <<>> /\ jobs' = Tail(jobs) /\ UNCHANGED <<held, manifest>>
        /\ transfer' = [at |-> "BEGIN", op |-> Head(jobs), pos |-> 1]
    BY <1>2 DEF TakeJob, TransferQuiet, stagingVars
  <2>2. /\ Head(jobs) = jobs[1] /\ 1 \in DOMAIN jobs
        /\ \A k \in DOMAIN jobs' : k + 1 \in DOMAIN jobs /\ jobs'[k] = jobs[k + 1]
    BY <1>0, <2>1
  <2>3. Served' \subseteq Served
    BY <2>1, <2>2 DEF Served
  <2> QED
    BY <2>1, <2>3 DEF HeldInv
<1>3. CASE SendBegin \/ SendData \/ SendEnd \/ SendStart
  <2>1. UNCHANGED <<held, manifest, jobs>>
    BY <1>3 DEF SendBegin, SendData, SendEnd, SendStart, TransferQuiet, stagingVars
  <2>2. transfer'.op = transfer.op
    BY <1>0, <1>3 DEF SendBegin, SendData, SendEnd, SendStart, Then
  <2> QED
    BY <2>1, <2>2, HeldQuiet
<1>4. CASE TransferFails \/ EndFlush
  <2>1. UNCHANGED <<held, manifest, jobs>> /\ transfer'.op = NoOperation
    BY <1>4 DEF TransferFails, EndFlush, TransferQuiet, stagingVars, NoJob
  <2> QED
    BY <2>1, HeldQuiet
<1>5. CASE TakeError \/ LocalEpochReset \/ Deliver \/ PeerEpochReset \/ PeerRefuses
  <2>1. UNCHANGED <<held, manifest, jobs, transfer>>
    BY <1>5 DEF TakeError, LocalEpochReset, Deliver, PeerEpochReset, PeerRefuses, GatewayQuiet,
                stagingVars
  <2> QED
    BY <2>1, HeldQuiet
<1>6. CASE PeerBegin \/ PeerData \/ PeerEnd \/ PeerStart \/ PeerOther \/ PeerFinishes
  <2>1. UNCHANGED <<held, manifest, jobs, transfer>>
    BY <1>6 DEF PeerBegin, PeerData, PeerEnd, PeerStart, PeerOther, PeerFinishes, WorkQuiet,
                GatewayQuiet, stagingVars
  <2> QED
    BY <2>1, HeldQuiet
<1>7. CASE Restart
  <2>1. manifest' = NoImage
    BY <1>7 DEF Restart
  <2> QED
    BY <2>1 DEF HeldInv
<1>8. CASE UNCHANGED vars
  BY <1>8, HeldQuiet DEF vars, stagingVars
<1> QED
  BY <1>1, <1>2, <1>3, <1>4, <1>5, <1>6, <1>7, <1>8 DEF Next, ProgramTask, ProbeTasks
-----------------------------------------------------------------------------
(***************************************************************************)
(* The commands of the Probe, step by step.                                *)
(***************************************************************************)

\* The Probe's own image stays the one of its operation.
LEMMA FreshQuiet ==
    ASSUME TypeInv, FreshImage, UNCHANGED <<peer, disturbed>>,
           \A op \in Operation : held[op] \subseteq held'[op]
    PROVE  FreshImage'
<1>1. peer.op \in Operation \cup {NoOperation}
  BY DEF TypeInv, TypeOK
<1> QED
  BY <1>1 DEF FreshImage

LEMMA StreamType ==
    ASSUME TypeInv
    PROVE  Stream \in Seq(Carried) /\ inbox \in Seq(Carried) /\ link \in Seq(Carried)
<1>1. inbox \in Seq(Message) /\ link \in Seq(Carried)
  BY DEF TypeInv, TypeOK, Carried
<1>2. inbox \in Seq(Carried)
  BY <1>1, SeqMonotonic DEF Carried
<1> QED
  BY <1>1, <1>2, StreamSteps DEF Stream

\* The stream is as it was, and so is the job.
LEMMA StreamQuiet ==
    ASSUME TypeInv, TypeInv', StreamInv, Stream' = Stream,
           UNCHANGED <<pManifest, disturbed>>,
           transfer'.at \in {"DATA", "START"} =>
               transfer.at \in {"DATA", "START"} /\ transfer'.op = transfer.op,
           \A op \in Operation : held[op] \subseteq held'[op]
    PROVE  StreamInv'
<1>1. Stream \in Seq(Carried)
  BY StreamType
<1>2. /\ held \in [Operation -> SUBSET Image] /\ held' \in [Operation -> SUBSET Image]
      /\ transfer.at # "IDLE" => transfer.op \in Operation
  BY DEF TypeInv, TypeOK, Described
<1> SUFFICES ASSUME ~disturbed PROVE (Started(Stream, pManifest, held) /\ Feeding(Stream, pManifest))'
  BY DEF StreamInv
<1>3. Started(Stream, pManifest, held) /\ Feeding(Stream, pManifest)
  BY DEF StreamInv
<1>4. Started(Stream, pManifest, held')
  BY <1>1, <1>2, <1>3, StartedGrows
<1>5. Started(Stream', pManifest', held')
  BY <1>4
<1>6. ASSUME transfer'.at \in {"DATA", "START"}
      PROVE  Leads(Stream', pManifest', Len(Stream') + 1, held'[transfer'.op] \cup {NoImage})
  <2>1. Leads(Stream, pManifest, Len(Stream) + 1, held[transfer.op] \cup {NoImage})
        /\ transfer.op \in Operation
    BY <1>2, <1>3, <1>6 DEF Feeding
  <2>2. held[transfer.op] \cup {NoImage} \subseteq held'[transfer.op] \cup {NoImage}
    BY <2>1
  <2>3. Len(Stream) + 1 \in Nat
    BY <1>1
  <2>4. Leads(Stream, pManifest, Len(Stream) + 1, held'[transfer.op] \cup {NoImage})
    BY <2>1, <2>2, <2>3, LeadsSame
  <2> QED
    BY <1>6, <2>4
<1> QED
  BY <1>5, <1>6 DEF Started, Feeding, Leads

\* A command m is sent, which sets no manifest or one of the job's.
LEMMA StreamSends ==
    ASSUME TypeInv, StreamInv, NEW m \in Message, Enqueue(m),
           UNCHANGED <<inbox, pManifest, disturbed, held>>,
           m[1] = "BEGIN" => m[2] \in held[transfer'.op],
           m[1] = "START" => transfer.at \in {"DATA", "START"} /\ m[2] = transfer.op,
           transfer'.at \in {"DATA", "START"} =>
               \/ m[1] = "BEGIN"
               \/ transfer.at \in {"DATA", "START"} /\ transfer'.op = transfer.op,
           m[1] = "BEGIN" => transfer'.at \in {"DATA", "START"}
    PROVE  StreamInv'
<1>1. Stream \in Seq(Carried) /\ m \in Carried /\ inbox \in Seq(Carried) /\ link \in Seq(Carried)
  BY StreamType DEF Carried
<1>2. Stream' = Append(Stream, m)
  BY <1>1, StreamSteps DEF Stream, Enqueue
<1>3. m[1] # "RESET"
  BY MessageParts
<1> SUFFICES ASSUME ~disturbed PROVE (Started(Stream, pManifest, held) /\ Feeding(Stream, pManifest))'
  BY DEF StreamInv
<1>4. Started(Stream, pManifest, held) /\ Feeding(Stream, pManifest)
  BY DEF StreamInv
<1>5. Started(Append(Stream, m), pManifest, held)
  <2>1. m[1] = "START" => Leads(Stream, pManifest, Len(Stream) + 1, held[m[2]] \cup {NoImage})
    BY <1>4 DEF Feeding
  <2> QED
    BY <1>1, <1>4, <2>1, StartedAppend
<1>6. ASSUME transfer'.at \in {"DATA", "START"}
      PROVE  Leads(Append(Stream, m), pManifest, Len(Append(Stream, m)) + 1,
                   held[transfer'.op] \cup {NoImage})
  <2>1. Marks(m) => After(m) \in held[transfer'.op] \cup {NoImage}
    BY <1>3 DEF Marks, After
  <2>2. ~Marks(m) =>
          Leads(Stream, pManifest, Len(Stream) + 1, held[transfer'.op] \cup {NoImage})
    BY <1>4, <1>6 DEF Marks, Feeding
  <2> QED
    BY <1>1, <2>1, <2>2, EndAppend
<1>7. Started(Stream', pManifest', held')
  BY <1>2, <1>5
<1>8. transfer'.at \in {"DATA", "START"} =>
        Leads(Stream', pManifest', Len(Stream') + 1, held'[transfer'.op] \cup {NoImage})
  BY <1>2, <1>6
<1> QED
  BY <1>7, <1>8 DEF Started, Feeding, Leads

\* The Probe has executed the first command.
LEMMA StreamAdvances ==
    ASSUME TypeInv, StreamInv, Stream # <<>>, Stream' = Tail(Stream),
           UNCHANGED <<transfer, held>>, disturbed => disturbed',
           ~disturbed' => (Marks(Head(Stream)) => pManifest' = After(Head(Stream))),
           ~Marks(Head(Stream)) => pManifest' = pManifest
    PROVE  StreamInv'
<1>1. Stream \in Seq(Carried)
  BY StreamType
<1> SUFFICES ASSUME ~disturbed' PROVE (Started(Stream, pManifest, held) /\ Feeding(Stream, pManifest))'
  BY DEF StreamInv
<1>2. Started(Stream, pManifest, held) /\ Feeding(Stream, pManifest)
  BY DEF StreamInv
<1>3. Started(Tail(Stream), pManifest', held)
  BY <1>1, <1>2, StartedTail
<1>4. ASSUME transfer.at \in {"DATA", "START"}
      PROVE  Leads(Tail(Stream), pManifest', Len(Tail(Stream)) + 1, held[transfer.op] \cup {NoImage})
  <2>1. Leads(Stream, pManifest, Len(Stream) + 1, held[transfer.op] \cup {NoImage})
    BY <1>2, <1>4 DEF Feeding
  <2> QED
    BY <1>1, <2>1, EndTail
<1>5. Started(Stream', pManifest', held')
  BY <1>3
<1>6. transfer'.at \in {"DATA", "START"} =>
        Leads(Stream', pManifest', Len(Stream') + 1, held'[transfer'.op] \cup {NoImage})
  BY <1>4
<1> QED
  BY <1>5, <1>6 DEF Started, Feeding, Leads

LEMMA UsbHandlerFresh ==
    TypeInv /\ TypeInv' /\ FreshInv /\ HeldInv' /\ UsbHandler
        /\ (\A op \in Operation : held[op] \subseteq held'[op]) => FreshInv'
<1> SUFFICES ASSUME TypeInv, TypeInv', FreshInv, HeldInv', UsbHandler,
                    \A op \in Operation : held[op] \subseteq held'[op]
             PROVE  StreamInv' /\ FreshImage'
  BY DEF FreshInv
<1>1. UNCHANGED <<inbox, peer, pManifest, disturbed, transfer>>
  BY DEF UsbHandler, Request, ShowPending, ClearPending, Answer, UsbImageBegin, UsbImageErase,
         UsbImageData, UsbImageEnd, UsbProgramStart, UsbForward, UsbQuiet, peerVars
<1>2. FreshImage'
  BY <1>1, FreshQuiet DEF FreshInv
<1>3. CASE UsbForward
  <2>1. Enqueue(<<"OTHER">>) /\ UNCHANGED held
    BY <1>3 DEF UsbForward
  <2>2. <<"OTHER">> \in Message
    BY MessageTypes
  <2> QED
    BY <1>1, <1>2, <2>1, <2>2, StreamSends DEF FreshInv
<1>4. CASE UNCHANGED link
  BY <1>1, <1>2, <1>4, StreamQuiet DEF FreshInv, Stream
<1>5. UsbForward \/ UNCHANGED link
  BY DEF UsbHandler, Request, ShowPending, ClearPending, Answer, UsbImageBegin, UsbImageErase,
         UsbImageData, UsbImageEnd, UsbProgramStart, UsbQuiet
<1> QED
  BY <1>3, <1>4, <1>5

LEMMA ProgramTaskFresh ==
    TypeInv /\ TypeInv' /\ FreshInv /\ ProgramTask => StreamInv' /\ FreshImage'
<1> SUFFICES ASSUME TypeInv, TypeInv', FreshInv, ProgramTask PROVE StreamInv' /\ FreshImage'
  OBVIOUS
<1>0. /\ held \in [Operation -> SUBSET Image] /\ jobs \in Seq(Operation)
      /\ transfer \in [at : {"IDLE", "BEGIN", "DATA", "START", "FLUSH"},
                       op : Operation \cup {NoOperation}, pos : 1 .. Capacity + 1]
      /\ manifest \in Image \cup {NoImage} /\ staged \in [1 .. Capacity -> Content]
      /\ transfer.at # "IDLE" => transfer.op \in Operation /\ manifest # NoImage
  BY DEF TypeInv, TypeOK, StagingType, Described
<1>1. UNCHANGED <<stagingVars, inbox, peer, pManifest, disturbed, held>>
  BY DEF ProgramTask, TakeJob, SendBegin, SendData, SendEnd, SendStart, TransferFails, EndFlush,
         TransferQuiet, peerVars
<1>2. FreshImage'
  BY <1>1, FreshQuiet DEF FreshInv
<1>3. CASE TakeJob \/ TransferFails \/ EndFlush
  <2>1. UNCHANGED link /\ transfer'.at \in {"BEGIN", "IDLE"}
    BY <1>3 DEF TakeJob, TransferFails, EndFlush, NoJob
  <2>2. Stream' = Stream
    BY <1>1, <2>1 DEF Stream
  <2> QED
    BY <1>1, <1>2, <2>1, <2>2, StreamQuiet DEF FreshInv
<1>4. CASE SendBegin
  <2>1. /\ transfer.at = "BEGIN" /\ Enqueue(<<"BEGIN", manifest>>)
        /\ transfer' = [transfer EXCEPT !.at = "DATA"]
    BY <1>4 DEF SendBegin, Transfers, Then
  <2>2. transfer'.at = "DATA" /\ transfer'.op = transfer.op /\ transfer.op \in Operation
    BY <1>0, <2>1
  <2>3. manifest \in Image /\ manifest \in held[transfer.op]
    <3>1. transfer.op \in Served
      BY <2>2, GatewayAssumption DEF Served
    <3> QED
      BY <1>0, <2>1, <3>1 DEF FreshInv, HeldInv
  <2>4. <<"BEGIN", manifest>> \in Message
    BY <2>3, MessageTypes
  <2>5. <<"BEGIN", manifest>>[1] = "BEGIN" /\ <<"BEGIN", manifest>>[2] = manifest
    OBVIOUS
  <2> DEFINE m == <<"BEGIN", manifest>>
  <2> HIDE DEF m
  <2>6. m \in Message /\ m[1] = "BEGIN" /\ m[2] = manifest /\ Enqueue(m)
    BY <2>1, <2>4, <2>5 DEF m
  <2>7. StreamInv'
    BY <1>1, <2>2, <2>3, <2>6, StreamSends DEF FreshInv
  <2> QED
    BY <1>2, <2>7
<1>5. CASE SendData
  <2> DEFINE m == <<"DATA", transfer.pos, staged[transfer.pos]>>
  <2>1. /\ transfer.at = "DATA" /\ transfer.pos <= TotalLength /\ Enqueue(m)
        /\ transfer' = [transfer EXCEPT !.pos = @ + 1]
    BY <1>5 DEF SendData, Transfers, Readable
  <2>2. transfer'.at = "DATA" /\ transfer'.op = transfer.op
    BY <1>0, <2>1
  <2>3. transfer.pos \in 1 .. Capacity
    BY <1>0, <2>1, TotalLengthType, ImageAssumption
  <2>4. m \in Message /\ m[1] = "DATA"
    BY <1>0, <2>3, MessageTypes
  <2> HIDE DEF m
  <2>5. StreamInv'
    BY <1>1, <2>1, <2>2, <2>4, StreamSends DEF FreshInv
  <2> QED
    BY <1>2, <2>5
<1>6. CASE SendEnd
  <2>1. /\ transfer.at = "DATA" /\ Enqueue(<<"END">>)
        /\ transfer' = [transfer EXCEPT !.at = "START"]
    BY <1>6 DEF SendEnd, Transfers, Then
  <2>2. transfer'.at = "START" /\ transfer'.op = transfer.op
    BY <1>0, <2>1
  <2>3. <<"END">> \in Message
    BY MessageTypes
  <2>4. StreamInv'
    BY <1>1, <2>1, <2>2, <2>3, StreamSends DEF FreshInv
  <2> QED
    BY <1>2, <2>4
<1>7. CASE SendStart
  <2> DEFINE m == <<"START", transfer.op>>
  <2>1. /\ transfer.at = "START" /\ Enqueue(m)
        /\ transfer' = [transfer EXCEPT !.at = "FLUSH"]
    BY <1>7 DEF SendStart, Transfers, Then
  <2>2. transfer'.at = "FLUSH"
    BY <1>0, <2>1
  <2>3. m \in Message /\ m[1] = "START" /\ m[2] = transfer.op
    BY <1>0, <2>1, MessageTypes
  <2> HIDE DEF m
  <2>4. StreamInv'
    BY <1>1, <2>1, <2>2, <2>3, StreamSends DEF FreshInv
  <2> QED
    BY <1>2, <2>4
<1> QED
  BY <1>3, <1>4, <1>5, <1>6, <1>7 DEF ProgramTask

\* A command that sets no manifest has been executed, and no operation begun.
LEMMA WorkFresh ==
    ASSUME TypeInv, TypeInv', FreshInv, inbox # <<>>, inbox' = Tail(inbox), UNCHANGED link,
           UNCHANGED <<transfer, held, disturbed>>,
           Head(inbox)[1] = "BEGIN" => pManifest' = Head(inbox)[2],
           Head(inbox)[1] # "BEGIN" => UNCHANGED pManifest
    PROVE  StreamInv'
<1>1. inbox \in Seq(Message)
  BY DEF TypeInv, TypeOK
<1>2. Head(inbox) \in Message
  BY <1>1
<1>3. Head(inbox)[1] # "RESET"
  BY <1>2, MessageParts
<1>4. inbox \in Seq(Carried) /\ link \in Seq(Carried)
  BY StreamType
<1>5. Stream # <<>> /\ Head(Stream) = Head(inbox) /\ Stream' = Tail(Stream)
  BY <1>4, StreamSteps DEF Stream
<1>6. Marks(Head(Stream)) => pManifest' = After(Head(Stream))
  BY <1>3, <1>5 DEF Marks, After
<1>7. ~Marks(Head(Stream)) => pManifest' = pManifest
  BY <1>5 DEF Marks
<1> QED
  BY <1>5, <1>6, <1>7, StreamAdvances DEF FreshInv

LEMMA ProbeTasksFresh ==
    TypeInv /\ TypeInv' /\ FreshInv /\ ProbeTasks => StreamInv' /\ FreshImage'
<1> SUFFICES ASSUME TypeInv, TypeInv', FreshInv, ProbeTasks PROVE StreamInv' /\ FreshImage'
  OBVIOUS
<1>1. UNCHANGED <<transfer, held>>
  BY DEF ProbeTasks, Deliver, PeerEpochReset, PeerBegin, PeerData, PeerEnd, PeerStart, PeerOther,
         PeerRefuses, PeerFinishes, WorkQuiet, GatewayQuiet
<1>2. inbox \in Seq(Carried) /\ link \in Seq(Carried) /\ Stream \in Seq(Carried)
  BY StreamType
<1>3. CASE Deliver
  <2>1. /\ link # <<>> /\ link' = Tail(link) /\ inbox' = Append(inbox, Head(link))
        /\ UNCHANGED <<peer, pManifest, disturbed>>
    BY <1>3 DEF Deliver, PeerStaging
  <2>2. Stream' = Stream
    BY <1>2, <2>1, StreamSteps DEF Stream
  <2> QED
    BY <1>1, <2>1, <2>2, StreamQuiet, FreshQuiet DEF FreshInv
<1>4. CASE PeerEpochReset
  <2>1. /\ link # <<>> /\ Head(link) = <<"RESET">> /\ link' = Tail(link)
        /\ disturbed' = (disturbed \/ peer.busy \/ inbox # <<>>)
        /\ UNCHANGED <<inbox, peer>>
        /\ IF peer.busy THEN UNCHANGED PeerStaging ELSE Peer!Invalidate
    BY <1>4 DEF PeerEpochReset
  <2>2. disturbed => disturbed'
    BY <2>1
  <2>3. FreshImage'
    BY <1>1, <2>1 DEF FreshInv, FreshImage
  <2>4. CASE disturbed'
    BY <2>3, <2>4 DEF StreamInv
  <2>5. CASE ~disturbed'
    <3>1. inbox = <<>> /\ ~peer.busy /\ pManifest' = NoImage
      BY <2>1, <2>5 DEF Peer!Invalidate
    <3>2. Stream = link /\ Stream' = Tail(link)
      <4>1. inbox' = <<>> /\ link' \in Seq(Carried)
        BY <1>2, <2>1, <3>1
      <4> QED
        BY <1>2, <2>1, <3>1, <4>1, ConcatEmptySeq DEF Stream
    <3>3. Marks(Head(Stream)) /\ After(Head(Stream)) = NoImage
      BY <2>1, <3>2 DEF Marks, After
    <3>4. StreamInv'
      BY <1>1, <2>1, <2>2, <3>1, <3>2, <3>3, StreamAdvances DEF FreshInv
    <3> QED
      BY <2>3, <3>4
  <2> QED
    BY <2>4, <2>5
<1>5. CASE PeerBegin
  <2>1. /\ inbox # <<>> /\ Head(inbox)[1] = "BEGIN" /\ inbox' = Tail(inbox)
        /\ pManifest' = Head(inbox)[2] /\ UNCHANGED <<link, peer, disturbed>>
    BY <1>5 DEF PeerBegin, Works, WorkQuiet
  <2> QED
    BY <1>1, <2>1, WorkFresh, FreshQuiet DEF FreshInv
<1>6. CASE PeerData \/ PeerEnd \/ PeerOther
  <2>1. /\ inbox # <<>> /\ Head(inbox)[1] # "BEGIN" /\ inbox' = Tail(inbox)
        /\ UNCHANGED <<link, peer, disturbed, pManifest>>
    BY <1>6 DEF PeerData, PeerEnd, PeerOther, Peer!MarkReady, Works, WorkQuiet, PeerStaging
  <2> QED
    BY <1>1, <2>1, WorkFresh, FreshQuiet DEF FreshInv
<1>7. CASE PeerRefuses
  <2>1. /\ inbox # <<>> /\ Head(inbox)[1] # "BEGIN" /\ inbox' = Tail(inbox)
        /\ UNCHANGED <<link, peer, disturbed, pManifest>>
    BY <1>7 DEF PeerRefuses, Refusable, PeerStaging
  <2> QED
    BY <1>1, <2>1, WorkFresh, FreshQuiet DEF FreshInv
<1>8. CASE PeerFinishes
  <2>1. /\ UNCHANGED <<inbox, link, disturbed, pManifest>> /\ peer' = [peer EXCEPT !.busy = FALSE]
    BY <1>8 DEF PeerFinishes, WorkQuiet, PeerStaging
  <2>2. peer'.op = peer.op /\ peer'.image = peer.image
    BY <2>1 DEF TypeInv, TypeOK
  <2>3. FreshImage'
    BY <1>1, <2>1, <2>2 DEF FreshInv, FreshImage
  <2>4. StreamInv'
    BY <1>1, <2>1, StreamQuiet DEF FreshInv, Stream
  <2> QED
    BY <2>3, <2>4
<1>9. CASE PeerStart
  <2>1. /\ inbox # <<>> /\ Head(inbox)[1] = "START" /\ inbox' = Tail(inbox) /\ pReady
        /\ UNCHANGED <<link, disturbed, pManifest>>
        /\ \/ peer' = [op |-> Head(inbox)[2], image |-> pManifest, busy |-> TRUE]
           \/ UNCHANGED peer
    BY <1>9 DEF PeerStart, Works, WorkQuiet, PeerStaging
  <2>2. StreamInv'
    BY <1>1, <2>1, WorkFresh DEF FreshInv
  <2>3. CASE UNCHANGED peer
    BY <1>1, <2>1, <2>2, <2>3, FreshQuiet DEF FreshInv
  <2>4. CASE peer' = [op |-> Head(inbox)[2], image |-> pManifest, busy |-> TRUE]
    <3>1. pManifest # NoImage
      BY <2>1 DEF TypeInv, Described
    <3>2. Stream # <<>> /\ Head(Stream) = Head(inbox)
      BY <1>2, <2>1, StreamSteps DEF Stream
    <3>3. 1 \in DOMAIN Stream /\ Stream[1] = Head(inbox)
      BY <1>2, <3>2, TailFacts
    <3>4. ASSUME ~disturbed PROVE pManifest \in held[Head(inbox)[2]] \cup {NoImage}
      <4>1. Leads(Stream, pManifest, 1, held[Stream[1][2]] \cup {NoImage})
        BY <2>1, <3>3, <3>4 DEF FreshInv, StreamInv, Started
      <4>2. \A k \in 1 .. 1 - 1 : FALSE
        OBVIOUS
      <4> QED
        BY <3>3, <4>1, <4>2 DEF Leads
    <3>5. peer'.op = Head(inbox)[2] /\ peer'.image = pManifest
      BY <2>4
    <3>6. FreshImage'
      BY <1>1, <2>1, <3>1, <3>4, <3>5 DEF FreshImage
    <3> QED
      BY <2>2, <3>6
  <2> QED
    BY <2>1, <2>3, <2>4
<1> QED
  BY <1>3, <1>4, <1>5, <1>6, <1>7, <1>8, <1>9 DEF ProbeTasks

\* A new session cuts the stream behind the Probe's queue.
LEMMA StreamCut ==
    ASSUME TypeInv, StreamInv, ~disturbed
    PROVE  /\ Started(Append(inbox, <<"RESET">>), pManifest, held)
           /\ \A I : Leads(Append(inbox, <<"RESET">>), pManifest,
                           Len(Append(inbox, <<"RESET">>)) + 1, I \cup {NoImage})
<1>1. inbox \in Seq(Carried) /\ link \in Seq(Carried) /\ <<"RESET">> \in Carried
  BY StreamType DEF Carried
<1>2. Started(inbox, pManifest, held)
  BY <1>1, StartedCut DEF StreamInv, Stream
<1>3. <<"RESET">>[1] = "RESET"
  OBVIOUS
<1> DEFINE m == <<"RESET">>
<1>4. m \in Carried /\ m[1] = "RESET"
  BY <1>1, <1>3
<1> HIDE DEF m
<1>5. Marks(m) /\ After(m) = NoImage
  BY <1>4 DEF Marks, After
<1>6. Started(Append(inbox, m), pManifest, held)
  BY <1>1, <1>2, <1>4, StartedAppend
<1>7. ASSUME NEW I
      PROVE  Leads(Append(inbox, m), pManifest, Len(Append(inbox, m)) + 1, I \cup {NoImage})
  BY <1>1, <1>4, <1>5, EndAppend
<1> QED
  BY <1>6, <1>7 DEF m

LEMMA LocalEpochResetFresh ==
    TypeInv /\ TypeInv' /\ FreshInv /\ LocalEpochReset => StreamInv' /\ FreshImage'
<1> SUFFICES ASSUME TypeInv, TypeInv', FreshInv, LocalEpochReset PROVE StreamInv' /\ FreshImage'
  OBVIOUS
<1> DEFINE cut == Append(inbox, <<"RESET">>)
<1>1. UNCHANGED <<inbox, peer, pManifest, transfer, held>>
  BY DEF LocalEpochReset, GatewayQuiet, peerVars
<1>2. inbox \in Seq(Carried) /\ link \in Seq(Carried) /\ <<"RESET">> \in Carried
  BY StreamType DEF Carried
<1>3. cut \in Seq(Carried)
  BY <1>2
<1>4. \/ link' = <<<<"RESET">>>> /\ UNCHANGED disturbed
      \/ \E k \in Commands : link' = <<<<"RESET">>, link[k]>>
                             /\ disturbed' = (disturbed \/ Stray(link[k]))
  BY DEF LocalEpochReset
<1>5. disturbed => disturbed'
  BY <1>4
<1>6. FreshImage'
  BY <1>1, <1>5 DEF FreshInv, FreshImage
<1>7. CASE disturbed'
  BY <1>6, <1>7 DEF StreamInv
<1>8. CASE ~disturbed' /\ link' = <<<<"RESET">>>>
  <2>1. Stream' = cut
    <3>1. link' = Append(<<>>, <<"RESET">>) /\ <<>> \in Seq(Carried)
      BY <1>8
    <3>2. inbox \o link' = Append(inbox \o <<>>, <<"RESET">>)
      BY <1>2, <3>1, StreamSteps
    <3> QED
      BY <1>1, <1>2, <3>2, ConcatEmptySeq DEF Stream
  <2>2. /\ Started(cut, pManifest, held)
        /\ Leads(cut, pManifest, Len(cut) + 1, held[transfer.op] \cup {NoImage})
    BY <1>5, <1>8, StreamCut DEF FreshInv
  <2> HIDE DEF cut
  <2>3. Started(Stream', pManifest', held')
        /\ Leads(Stream', pManifest', Len(Stream') + 1, held'[transfer'.op] \cup {NoImage})
    BY <1>1, <2>1, <2>2
  <2>4. StreamInv'
    BY <2>3 DEF StreamInv, Started, Feeding, Leads
  <2> QED
    BY <1>6, <2>4
<1>9. ASSUME ~disturbed', NEW k \in Commands, link' = <<<<"RESET">>, link[k]>>, ~Stray(link[k])
      PROVE  StreamInv' /\ FreshImage'
  <2> DEFINE m == link[k]
  <2>1. m \in Message /\ m \in Carried
    BY <1>2 DEF Commands, Carried
  <2>2. Stream' = Append(cut, m)
    <3>1. link' = Append(Append(<<>>, <<"RESET">>), m) /\ <<>> \in Seq(Carried)
          /\ Append(<<>>, <<"RESET">>) \in Seq(Carried)
      BY <1>2, <1>9
    <3>2. inbox \o link' = Append(inbox \o Append(<<>>, <<"RESET">>), m)
      BY <1>2, <2>1, <3>1, StreamSteps
    <3>3. inbox \o Append(<<>>, <<"RESET">>) = Append(inbox \o <<>>, <<"RESET">>)
      BY <1>2, <3>1, StreamSteps
    <3> QED
      BY <1>1, <1>2, <3>2, <3>3, ConcatEmptySeq DEF Stream
  <2>3. /\ Started(cut, pManifest, held)
        /\ \A I : Leads(cut, pManifest, Len(cut) + 1, I \cup {NoImage})
    BY <1>5, <1>9, StreamCut DEF FreshInv
  <2>4. m[1] = "BEGIN" /\ transfer.at \in {"DATA", "START"} => m[2] \in held[transfer.op]
    BY <1>9 DEF Stray
  <2>5. m[1] # "RESET"
    BY <2>1, MessageParts
  <2> HIDE DEF cut, m
  <2>6. Started(Append(cut, m), pManifest, held)
    BY <1>3, <2>1, <2>3, StartedAppend
  <2>7. ASSUME transfer.at \in {"DATA", "START"}
        PROVE  Leads(Append(cut, m), pManifest, Len(Append(cut, m)) + 1,
                     held[transfer.op] \cup {NoImage})
    <3>1. Marks(m) => After(m) \in held[transfer.op] \cup {NoImage}
      BY <2>4, <2>5, <2>7 DEF Marks, After
    <3>2. Leads(cut, pManifest, Len(cut) + 1, held[transfer.op] \cup {NoImage})
      BY <2>3
    <3> QED
      BY <1>3, <2>1, <3>1, <3>2, EndAppend
  <2>8. Started(Stream', pManifest', held')
    BY <1>1, <2>2, <2>6
  <2>9. transfer'.at \in {"DATA", "START"} =>
          Leads(Stream', pManifest', Len(Stream') + 1, held'[transfer'.op] \cup {NoImage})
    BY <1>1, <2>2, <2>7
  <2>10. StreamInv'
    BY <2>8, <2>9 DEF StreamInv, Started, Feeding, Leads
  <2> QED
    BY <1>6, <2>10
<1> QED
  BY <1>4, <1>7, <1>8, <1>9

LEMMA RestartFresh ==
    TypeInv /\ TypeInv' /\ FreshInv /\ Restart => StreamInv' /\ FreshImage'
<1> SUFFICES ASSUME TypeInv, TypeInv', FreshInv, Restart PROVE StreamInv' /\ FreshImage'
  OBVIOUS
<1> DEFINE cut == Append(inbox, <<"RESET">>)
<1>1. /\ UNCHANGED <<inbox, peer, pManifest, held, disturbed>> /\ link' = <<<<"RESET">>>>
      /\ transfer'.at = "IDLE"
  BY DEF Restart, peerVars, NoJob
<1>2. inbox \in Seq(Carried) /\ <<"RESET">> \in Carried
  BY StreamType DEF Carried
<1>3. Stream' = cut
  <2>1. link' = Append(<<>>, <<"RESET">>) /\ <<>> \in Seq(Carried)
    BY <1>1
  <2>2. inbox \o link' = Append(inbox \o <<>>, <<"RESET">>)
    BY <1>2, <2>1, StreamSteps
  <2> QED
    BY <1>1, <1>2, <2>2, ConcatEmptySeq DEF Stream
<1>4. ~disturbed => Started(cut, pManifest, held)
  BY StreamCut DEF FreshInv
<1> HIDE DEF cut
<1>5. ~disturbed' => Started(Stream', pManifest', held')
  BY <1>1, <1>3, <1>4
<1>6. transfer'.at \notin {"DATA", "START"}
  BY <1>1
<1>7. StreamInv'
  BY <1>5, <1>6 DEF StreamInv, Started, Feeding, Leads
<1> QED
  BY <1>1, <1>7 DEF FreshInv, FreshImage

\* TakeError touches neither images nor commands.
LEMMA TakeErrorFresh ==
    TypeInv /\ TypeInv' /\ FreshInv /\ TakeError => StreamInv' /\ FreshImage'
<1> SUFFICES ASSUME TypeInv, TypeInv', FreshInv, TakeError PROVE StreamInv' /\ FreshImage'
  OBVIOUS
<1>1. UNCHANGED <<transfer, link, inbox, peer, pManifest, held, disturbed>>
  BY DEF TakeError
<1> QED
  BY <1>1, StreamQuiet, FreshQuiet DEF FreshInv, Stream

LEMMA NextFresh == TypeInv /\ FreshInv /\ [Next]_vars => FreshInv'
<1> SUFFICES ASSUME TypeInv, FreshInv, [Next]_vars PROVE FreshInv'
  OBVIOUS
<1>1. TypeInv' /\ HeldInv'
  BY NextType, NextHeld DEF FreshInv
<1>2. \A op \in Operation : held[op] \subseteq held'[op]
  BY HeldGrows DEF TypeInv
<1>3. CASE UNCHANGED vars
  <2>1. UNCHANGED <<transfer, link, inbox, peer, pManifest, held, disturbed>>
    BY <1>3 DEF vars, peerVars
  <2>2. StreamInv' /\ FreshImage'
    BY <1>1, <1>2, <2>1, StreamQuiet, FreshQuiet DEF FreshInv, Stream
  <2> QED
    BY <1>1, <2>2 DEF FreshInv
<1>4. CASE Next
  <2>1. StreamInv' /\ FreshImage'
    BY <1>1, <1>2, <1>4, UsbHandlerFresh, ProgramTaskFresh, TakeErrorFresh, ProbeTasksFresh,
       LocalEpochResetFresh, RestartFresh DEF Next, FreshInv
  <2> QED
    BY <1>1, <2>1 DEF FreshInv
<1> QED
  BY <1>3, <1>4

LEMMA InitFresh == Init => FreshInv
<1> SUFFICES ASSUME Init PROVE FreshInv
  OBVIOUS
<1>1. /\ inbox = <<>> /\ link = <<>> /\ jobs = <<>> /\ transfer.at = "IDLE"
      /\ held = [op \in Operation |-> {}] /\ peer.op = NoOperation
  BY DEF Init, NoJob
<1>2. Stream = <<>>
  BY <1>1 DEF Stream
<1>3. DOMAIN Stream = {} /\ DOMAIN jobs = {}
  BY <1>1, <1>2
<1>4. HeldInv
  <2>1. manifest = NoImage
    BY DEF Init, StagingInit
  <2> QED
    BY <2>1 DEF HeldInv
<1>5. StreamInv
  BY <1>1, <1>3 DEF StreamInv, Started, Feeding
<1> QED
  BY <1>1, <1>4, <1>5 DEF FreshInv, FreshImage

\* FreshImage: the image the Probe programs for an operation is one whose manifest the
\* Gateway had while it served that operation, whatever the link loses, images begun in
\* mid-transfer and restarts included, as long as no session has begun while the Probe
\* was programming or had commands of the one before in its queue, or with a BEGIN left
\* over from another job.
THEOREM ProgramsFreshImages == Spec => []FreshImage
<1>1. Init => TypeInv /\ FreshInv
  BY InitType, InitFresh
<1>2. (TypeInv /\ FreshInv) /\ [Next]_vars => (TypeInv /\ FreshInv)'
  BY NextType, NextFresh
<1>3. TypeInv /\ FreshInv => FreshImage
  BY DEF FreshInv
<1> QED
  BY <1>1, <1>2, <1>3, PTL DEF Spec
=============================================================================
