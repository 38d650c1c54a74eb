----------------------------- MODULE UsbLinkProofs ----------------------------
(***************************************************************************)
(* Proofs about UsbLink, for any size of a chunk and of the queue, any     *)
(* number of requests up to 100, of blocks and of losses.                  *)
(*                                                                         *)
(* The bytes under way are in the order they were written (InboundInv).    *)
(* A frame is told by its CRC, the only large byte of its record: one the  *)
(* decoder holds is of a request nothing was handled of yet, and of none   *)
(* it still has before it (CrcInv), so what decodes was sent, once and in  *)
(* order (HandledInv).  Of a frame that arrives whole the buffer holds the *)
(* beginning, byte for byte (BufferInv), so its zero hands it on           *)
(* (IntactInv).  Towards the host, a response follows what it answers      *)
(* (AnsweredInv).  As long as no frame to a process was torn, what it has  *)
(* yet to look at is whole frames, in which every block of its operation   *)
(* comes after all that it lacks before it and a good result after all of  *)
(* them (StreamInv); an operation that is only now asked for has none.     *)
(***************************************************************************)
EXTENDS UsbLink, CobsProofs

(***************************************************************************)
(* The encodings of records.                                               *)
(***************************************************************************)
Crc(kind, id) == 100 * id + Type(kind)
Small(s) == \A j \in 1 .. Len(s) : s[j] <= 100

\* A block of small bytes with a small code keeps them small.
LEMMA JoinSmall ==
    ASSUME NEW d \in Seq(Nat), NEW c \in Nat, NEW b \in Seq(Nat), c <= 100, Small(d), Small(b)
    PROVE  Small(d \o <<c>> \o b)
<1> DEFINE e == d \o <<c>> \o b
<1>1. /\ e \in Seq(Nat) /\ Len(e) = Len(d) + 1 + Len(b)
      /\ \A k \in 1 .. Len(d) : e[k] = d[k]
      /\ e[Len(d) + 1] = c
      /\ \A k \in 1 .. Len(b) : e[Len(d) + 1 + k] = b[k]
  BY Join
<1> HIDE DEF e
<1>2. SUFFICES ASSUME NEW j \in 1 .. Len(e) PROVE e[j] <= 100
  BY DEF e, Small
<1> DEFINE k == j - (Len(d) + 1)
<1>3. j \in 1 .. Len(d) \/ j = Len(d) + 1 \/ (k \in 1 .. Len(b) /\ Len(d) + 1 + k = j)
  <2>1. Len(d) \in Nat /\ Len(b) \in Nat /\ j \in 1 .. Len(d) + 1 + Len(b)
    BY <1>1
  <2> QED
    BY <2>1
<1> HIDE DEF k
<1> QED
  BY <1>1, <1>3 DEF Small

\* The last byte only is large.
EndsLarge(raw) ==
    /\ Len(raw) \in 1 .. 99
    /\ \A j \in 1 .. Len(raw) - 1 : raw[j] <= 100
    /\ raw[Len(raw)] > 100

\* As long as all bytes are small, what they are stuffed to is.
LEMMA StuffingSmall ==
    ASSUME NEW raw \in Seq(Nat), EndsLarge(raw), NEW i \in Nat, i < Len(raw)
    PROVE  Small(Done(raw, i)) /\ Small(Open(raw, i))
<1> DEFINE n == Len(raw)
           R(k) == Small(Done(raw, k)) /\ Small(Open(raw, k))
           P == {k \in Nat : k < n => R(k)}
<1>0. raw \in Seq(Nat) /\ Len(raw) \in 1 .. 99
  BY Zenon DEF EndsLarge
<1>s. \A j \in 1 .. Len(raw) - 1 : raw[j] <= 100
  BY Zenon DEF EndsLarge
<1>1. n \in Nat /\ n = Len(raw) /\ n < 100
  <2>1. n = Len(raw)
    OBVIOUS
  <2>2. n \in 1 .. 99
    BY <1>0, Zenon
  <2> HIDE DEF n
  <2>3. n \in Nat /\ n < 100
    BY <2>2
  <2> QED
    BY <2>1, <2>3
<1> HIDE DEF n
<1>2. ASSUME NEW k \in 0 .. n
      PROVE  /\ Open(raw, k) \in Seq(Nat) /\ Len(Open(raw, k)) <= k /\ Len(Open(raw, k)) \in Nat
             /\ \A j \in 1 .. Len(Open(raw, k)) : Open(raw, k)[j] = raw[(k - Len(Open(raw, k))) + j]
             /\ Done(raw, k) \in Seq(Nat)
  <2> DEFINE d == Done(raw, k)
             b == Open(raw, k)
  <2>1. k \in Nat /\ k \in 0 .. Len(raw)
    BY <1>1
  <2>2. Stuffs(raw, k, d, b)
    BY <1>0, <2>1, StuffsAt
  <2> HIDE DEF d, b
  <2>3. /\ b \in Seq(Nat) /\ Len(b) <= k /\ Len(b) \in Nat /\ d \in Seq(Nat)
        /\ \A j \in 1 .. Len(b) : b[j] = raw[(k - Len(b)) + j]
    BY <2>1, <2>2, StuffsFacts
  <2> QED
    BY <2>3 DEF d, b
<1>3. ASSUME NEW k \in Nat, k < n PROVE Small(Open(raw, k))
  <2> DEFINE b == Open(raw, k)
  <2>0. k \in 0 .. n
    BY <1>1, <1>3
  <2>1. b \in Seq(Nat) /\ Len(b) <= k /\ Len(b) \in Nat /\ \A j \in 1 .. Len(b) : b[j] = raw[(k - Len(b)) + j]
    BY <1>2, <2>0
  <2> HIDE DEF b
  <2>2. ASSUME NEW j \in 1 .. Len(b) PROVE b[j] <= 100
    <3>1. (k - Len(b)) + j \in 1 .. Len(raw) - 1
      BY SMTT(30), <1>1, <1>3, <2>1
    <3> QED
      BY <2>1, <3>1, <1>s
  <2> QED
    BY <2>2 DEF Small, b
<1>4. Small(<<>>)
  BY DEF Small
<1>5. P = Nat
  <2>1. 0 \in P
    <3> SUFFICES ASSUME 0 < n PROVE R(0)
      OBVIOUS
    <3>1. Done(raw, 0) = <<>>
      <4> DEFINE g == Stuffing(raw)
      <4> HIDE DEF g
      <4>1. g = [k \in 0 .. n |-> StuffedBy(raw, g, k)]
        BY <1>0, <1>1, StuffingIs DEF g
      <4>2. g[0] = StuffedBy(raw, g, 0)
        BY <1>1, <4>1
      <4> QED
        BY <4>2 DEF StuffedBy, g, Done
    <3> QED
      BY <3>1, <1>3, <1>4
  <2>2. ASSUME NEW k \in P PROVE k + 1 \in P
    <3> SUFFICES ASSUME k + 1 < n PROVE R(k + 1)
      OBVIOUS
    <3> DEFINE d == Done(raw, k)
               b == Open(raw, k)
               a == Append(b, raw[k + 1])
    <3>1. k \in Nat /\ k \in 0 .. n /\ k + 1 \in 1 .. Len(raw) /\ R(k) /\ k + 1 \in 1 .. Len(raw) - 1
      BY <1>1
    <3>2. /\ raw[k + 1] \in Nat /\ raw[k + 1] <= 100
          /\ \/ Done(raw, k + 1) = d \o <<Len(b) + 1>> \o b
             \/ Done(raw, k + 1) = d \o <<Len(b) + 2>> \o a
             \/ Done(raw, k + 1) = d
      BY <1>0, <1>s, <3>1, DoneStep
    <3>3. d \in Seq(Nat) /\ b \in Seq(Nat) /\ Len(b) + 1 \in Nat /\ Len(b) + 1 <= 100
          /\ Len(b) + 2 \in Nat /\ Len(b) + 2 <= 100 /\ Small(d) /\ Small(b)
      BY <1>1, <1>2, <3>1
    <3>4. a \in Seq(Nat) /\ Small(a)
      <4>1. /\ a \in Seq(Nat) /\ Len(a) = Len(b) + 1 /\ a[Len(b) + 1] = raw[k + 1]
            /\ \A j \in 1 .. Len(b) : a[j] = b[j]
        BY <3>2, <3>3, AppendProperties
      <4> HIDE DEF a, b
      <4>2. ASSUME NEW j \in 1 .. Len(a) PROVE a[j] <= 100
        <5>1. j \in 1 .. Len(b) \/ j = Len(b) + 1
          BY <3>3, <4>1
        <5> QED
          BY <5>1, <3>2, <3>3, <4>1 DEF Small
      <4> QED
        BY <4>1, <4>2 DEF Small
    <3> HIDE DEF d, b, a
    <3>5. Small(Done(raw, k + 1))
      BY <3>2, <3>3, <3>4, JoinSmall
    <3> QED
      BY <3>1, <3>5, <1>3
  <2> HIDE DEF P
  <2>3. P \in SUBSET Nat
    BY DEF P
  <2> QED
    BY <2>1, <2>2, <2>3, AllOf
<1> QED
  BY <1>1, <1>5

\* A record whose last byte only is large has one large byte in its encoding, that one.
LEMMA OneLarge ==
    ASSUME NEW raw \in Seq(Nat), EndsLarge(raw)
    PROVE  \E p \in 1 .. Len(Whole(raw)) :
              /\ Whole(raw)[p] = raw[Len(raw)]
              /\ \A j \in 1 .. Len(Whole(raw)) : j # p => Whole(raw)[j] <= 100
<1> DEFINE n == Len(raw)
           i == n - 1
           d == Done(raw, i)
           b == Open(raw, i)
           byte == raw[n]
           a == Append(b, byte)
           w == d \o <<Len(a) + 1>> \o a
           e == Whole(raw)
<1>0. raw \in Seq(Nat) /\ Len(raw) \in 1 .. 99 /\ raw[Len(raw)] > 100
  BY Zenon DEF EndsLarge
<1>1. n \in Nat /\ i \in Nat /\ i + 1 = n /\ i + 1 \in 1 .. Len(raw) /\ i < Len(raw) /\ n < 100
      /\ i \in 0 .. Len(raw) /\ byte \in Nat /\ byte # 0 /\ byte > 100 /\ n = Len(raw)
  <2>1. n = Len(raw) /\ byte > 100
    BY <1>0, Zenon
  <2>2. i = n - 1 /\ n \in 1 .. 99
    BY <1>0, Zenon
  <2> HIDE DEF n, i
  <2>3. n \in Nat /\ i \in Nat /\ i + 1 = n /\ i + 1 \in 1 .. n /\ i < n /\ n < 100 /\ i \in 0 .. n
    BY <2>2
  <2>4. byte \in Nat
    BY <1>0, <2>1, <2>3
  <2> HIDE DEF byte
  <2>5. byte # 0
    BY <2>1, <2>4
  <2> QED
    BY <2>1, <2>3, <2>4, <2>5
<1>2. Stuffs(raw, i, d, b)
  BY <1>0, <1>1, StuffsAt
<1>3. Small(d) /\ Small(b)
  BY SMTT(30), <1>1, StuffingSmall
<1>4. /\ byte # 0 /\ Len(b) + 2 = MaxCode =>
            Done(raw, i + 1) = d \o <<Len(b) + 2>> \o a /\ Open(raw, i + 1) = <<>>
      /\ byte # 0 /\ Len(b) + 2 # MaxCode => Done(raw, i + 1) = d /\ Open(raw, i + 1) = a
  BY ZenonT(60), <1>0, <1>1, DoneStep
<1>5. e = Done(raw, n) \o <<Len(Open(raw, n)) + 1>> \o Open(raw, n)
  BY DEF Whole, Done, Open
<1>d. d = Done(raw, i) /\ b = Open(raw, i)
  OBVIOUS
<1> HIDE DEF n, i, d, b, byte, e
<1>6. d \in Seq(Nat) /\ b \in Seq(Nat) /\ Len(d) \in Nat /\ Len(b) \in Nat /\ Len(b) <= i
  BY <1>1, <1>2, StuffsFacts
<1>7. /\ a \in Seq(Nat) /\ Len(a) = Len(b) + 1 /\ a[Len(b) + 1] = byte
      /\ \A j \in 1 .. Len(b) : a[j] = b[j]
  BY <1>1, <1>6, AppendProperties
<1>a. a = Append(b, byte)
  OBVIOUS
<1> HIDE DEF a
<1> DEFINE l == Len(a)
<1>8. /\ w \in Seq(Nat) /\ Len(w) = Len(d) + 1 + l
      /\ \A k \in 1 .. Len(d) : w[k] = d[k]
      /\ w[Len(d) + 1] = l + 1
      /\ \A k \in 1 .. l : w[Len(d) + 1 + k] = a[k]
  <2>1. l + 1 \in Nat /\ w = d \o <<l + 1>> \o a
    BY <1>6, <1>7
  <2>2. d \in Seq(Nat) /\ a \in Seq(Nat)
    BY <1>6, <1>7
  <2> HIDE DEF w
  <2>3. l = Len(a)
    OBVIOUS
  <2> HIDE DEF l
  <2>4. /\ w \in Seq(Nat) /\ Len(w) = Len(d) + 1 + Len(a)
        /\ \A k \in 1 .. Len(d) : w[k] = d[k]
        /\ w[Len(d) + 1] = l + 1
        /\ \A k \in 1 .. Len(a) : w[Len(d) + 1 + k] = a[k]
    BY <2>1, <2>2, Join
  <2> QED
    BY <2>3, <2>4
<1>9. e = w \/ e = w \o <<1>> \o <<>>
  <2>1. CASE Len(b) + 2 = MaxCode
    <3>1. Done(raw, n) = d \o <<Len(b) + 2>> \o a /\ Open(raw, n) = <<>>
      BY <1>1, <1>4, <2>1
    <3>2. Len(b) + 2 = Len(a) + 1 /\ Len(<<>>) + 1 = 1
      BY <1>6, <1>7
    <3>3. Len(Open(raw, n)) + 1 = 1
      BY <3>1, <3>2
    <3> QED
      BY <1>5, <3>1, <3>2, <3>3
  <2>2. CASE Len(b) + 2 # MaxCode
    BY <1>1, <1>4, <1>5, <2>2
  <2> QED
    BY <2>1, <2>2
<1> HIDE DEF w
<1> DEFINE p == Len(w)
<1>10. /\ p \in Nat /\ p \in 1 .. p /\ w[p] = byte
       /\ \A j \in 1 .. p : j # p => w[j] <= 100
  <2>1. p \in Nat /\ p = Len(d) + 1 + l /\ p \in 1 .. p /\ l \in 1 .. l /\ l = Len(b) + 1 /\ l + 1 <= 100
    <3>1. l = Len(b) + 1 /\ p = Len(d) + 1 + l
      BY <1>7, <1>8
    <3> HIDE DEF l, p
    <3> QED
      BY <1>1, <1>6, <3>1
  <2>2. w[p] = byte
    BY <2>1, <1>7, <1>8
  <2>3. ASSUME NEW j \in 1 .. p, j # p PROVE w[j] <= 100
    <3> DEFINE k == j - (Len(d) + 1)
    <3>1. j \in 1 .. Len(d) \/ j = Len(d) + 1
          \/ (k \in 1 .. Len(b) /\ k \in 1 .. l /\ Len(d) + 1 + k = j)
      <4> DEFINE x == Len(d)
      <4>1. x \in Nat /\ l \in Nat /\ l = Len(b) + 1 /\ p = x + 1 + l /\ Len(b) \in Nat
        BY <1>6, <2>1
      <4> HIDE DEF l, p, x, k
      <4>2. j \in 1 .. p /\ j # p /\ k = j - (x + 1)
        BY <2>3 DEF k, x
      <4>3. j \in 1 .. x \/ j = x + 1 \/ (k \in 1 .. Len(b) /\ k \in 1 .. l /\ x + 1 + k = j)
        BY <4>1, <4>2
      <4> QED
        BY <4>3 DEF x
    <3> HIDE DEF k, l, p
    <3>2. CASE j \in 1 .. Len(d)
      BY <3>2, <1>3, <1>8 DEF Small
    <3>3. CASE j = Len(d) + 1
      BY <3>3, <1>8, <2>1
    <3>4. CASE k \in 1 .. Len(b) /\ k \in 1 .. l /\ Len(d) + 1 + k = j
      BY <3>4, <1>3, <1>7, <1>8 DEF Small
    <3> QED
      BY <3>1, <3>2, <3>3, <3>4
  <2> QED
    BY <2>1, <2>2, <2>3
<1>11. CASE e = w
  BY <1>10, <1>11, <1>1 DEF e, n, byte
<1>12. CASE e = w \o <<1>> \o <<>>
  <2>1. /\ e \in Seq(Nat) /\ Len(e) = p + 1 + 0 /\ e[p + 1] = 1
        /\ \A j \in 1 .. p : e[j] = w[j]
    <3> DEFINE z == <<>>
    <3>1. z \in Seq(Nat) /\ Len(z) = 0
      OBVIOUS
    <3>2. e = w \o <<1>> \o z
      BY <1>12
    <3> HIDE DEF z
    <3>3. w \in Seq(Nat) /\ 1 \in Nat
      BY <1>8
    <3>4. /\ e \in Seq(Nat) /\ Len(e) = Len(w) + 1 + Len(z) /\ e[Len(w) + 1] = 1
          /\ \A j \in 1 .. Len(w) : e[j] = w[j]
      BY <3>1, <3>2, <3>3, Join
    <3> QED
      BY <3>1, <3>4
  <2>2. p \in 1 .. Len(e) /\ e[p] = byte
    BY <1>10, <2>1
  <2>3. ASSUME NEW j \in 1 .. Len(e), j # p PROVE e[j] <= 100
    <3>1. j \in 1 .. p \/ j = p + 1
      BY <1>10, <2>1
    <3> QED
      BY <3>1, <2>1, <2>3, <1>10
  <2> QED
    BY <2>2, <2>3, <1>1 DEF e, n, byte
<1> QED
  BY <1>9, <1>11, <1>12

\* The kinds have different type bytes.
LEMMA Types ==
    /\ \A kind \in Kind : Type(kind) \in 1 .. 25
    /\ \A k, l \in Kind : Type(k) = Type(l) => k = l
<1>1. Type("INFO") = 1 /\ Type("DATA") = 17 /\ Type("BACKUP") = 25
  BY Zenon DEF Type
<1>2. \A k \in Kind : k = "INFO" \/ k = "DATA" \/ k = "BACKUP"
  BY DEF Kind
<1>3. 1 \in 1 .. 25 /\ 17 \in 1 .. 25 /\ 25 \in 1 .. 25 /\ 1 # 17 /\ 1 # 25 /\ 17 # 25
  OBVIOUS
<1> QED
  BY <1>1, <1>2, <1>3, Zenon

\* No byte of a payload is large.
LEMMA Payloads ==
    ASSUME NEW kind \in Kind
    PROVE  /\ Payload(kind) \in Seq(Nat) /\ Len(Payload(kind)) <= 3
           /\ \A j \in 1 .. Len(Payload(kind)) : Payload(kind)[j] <= 100
<1>1. kind = "INFO" \/ kind = "DATA" \/ kind = "BACKUP"
  BY DEF Kind
<1>2. CASE kind = "INFO"
  <2>1. Payload(kind) = <<>>
    BY <1>2, Zenon DEF Payload
  <2> QED
    BY <2>1
<1>3. CASE kind = "DATA"
  <2>1. Payload(kind) = <<9, 9, 9>>
    BY <1>3, Zenon DEF Payload
  <2> QED
    BY <2>1
<1>4. CASE kind = "BACKUP"
  <2>1. Payload(kind) = <<0>>
    BY <1>4, Zenon DEF Payload
  <2> QED
    BY <2>1
<1> QED
  BY <1>1, <1>2, <1>3, <1>4

\* u is s and then t.
Glued(s, t, u) ==
    /\ Len(u) = Len(s) + Len(t)
    /\ \A j \in 1 .. Len(s) : u[j] = s[j]
    /\ \A j \in 1 .. Len(t) : u[Len(s) + j] = t[j]
    /\ \A j \in 1 .. Len(u) : j \in 1 .. Len(s) \/ \E k \in 1 .. Len(t) : j = Len(s) + k

\* Concatenation, by its bytes.
LEMMA Glue ==
    ASSUME NEW S, NEW s \in Seq(S), NEW t \in Seq(S)
    PROVE  s \o t \in Seq(S) /\ Glued(s, t, s \o t)
<1> DEFINE u == s \o t
           m == Len(s)
           n == Len(t)
<1>1. /\ u \in Seq(S) /\ Len(u) = m + n /\ m \in Nat /\ n \in Nat
      /\ \A j \in 1 .. m + n : u[j] = IF j <= m THEN s[j] ELSE t[j - m]
  BY ConcatProperties
<1> HIDE DEF u, m, n
<1>2. ASSUME NEW j \in 1 .. m PROVE u[j] = s[j]
  <2>1. j \in 1 .. m + n /\ j <= m
    BY <1>1
  <2> QED
    BY <1>1, <2>1
<1>3. ASSUME NEW j \in 1 .. n PROVE u[m + j] = t[j]
  <2>1. m + j \in 1 .. m + n /\ ~(m + j <= m) /\ (m + j) - m = j
    BY <1>1
  <2> QED
    BY <1>1, <2>1
<1>4. ASSUME NEW j \in 1 .. m + n PROVE j \in 1 .. m \/ \E k \in 1 .. n : j = m + k
  <2>1. j \in 1 .. m \/ (j - m \in 1 .. n /\ j = m + (j - m))
    BY <1>1
  <2> QED
    BY <2>1
<1>5. Glued(s, t, u)
  BY <1>1, <1>2, <1>3, <1>4 DEF Glued, m, n
<1> QED
  BY <1>1, <1>5 DEF u

\* A record is a sequence of small bytes and a CRC, the only large one.
LEMMA RecordShape ==
    ASSUME NEW kind \in Kind, NEW id \in Id
    PROVE  /\ RecordOf(kind, id) \in Record
           /\ RecordOf(kind, id) \in Seq(Nat) /\ EndsLarge(RecordOf(kind, id))
           /\ RecordOf(kind, id)[1] = Type(kind)
           /\ RecordOf(kind, id)[3] = id
           /\ RecordOf(kind, id)[Len(RecordOf(kind, id))] = Crc(kind, id)
           /\ Len(RecordOf(kind, id)) <= RawMax
<1> DEFINE u == <<Type(kind), 0, id>>
           p == Payload(kind)
           c == Crc(kind, id)
           x == u \o p
           raw == x \o <<c>>
<1>1. raw = RecordOf(kind, id)
  BY DEF RecordOf, Crc
<1>2. id \in Nat /\ id >= 1 /\ id <= 100
  BY UsbAssumption, RecordAssumption DEF Id
<1>3. Type(kind) \in Nat /\ Type(kind) >= 1 /\ Type(kind) <= 25
  BY Types
<1>4. c \in Nat /\ c > 100
  <2> DEFINE t == Type(kind)
  <2>1. t \in Nat /\ t >= 1
    BY <1>3
  <2>2. c = 100 * id + t
    BY DEF Crc
  <2> HIDE DEF c, t
  <2> QED
    BY <2>1, <2>2, <1>2
<1>5. u \in Seq(Nat) /\ Len(u) = 3 /\ u[1] = Type(kind) /\ u[2] = 0 /\ u[3] = id
  BY <1>2, <1>3
<1>6. p \in Seq(Nat) /\ Len(p) \in Nat /\ Len(p) <= 3 /\ \A j \in 1 .. Len(p) : p[j] <= 100
  BY Payloads
<1>u. \A j \in 1 .. 3 : u[j] <= 100
  <2>1. \A j \in 1 .. 3 : j = 1 \/ j = 2 \/ j = 3
    OBVIOUS
  <2> HIDE DEF u
  <2> QED
    BY <2>1, <1>2, <1>3, <1>5
<1> HIDE DEF u, p, c
<1>7. /\ x \in Seq(Nat) /\ Len(x) = 3 + Len(p)
      /\ \A j \in 1 .. 3 : x[j] = u[j]
      /\ \A j \in 1 .. Len(p) : x[3 + j] = p[j]
      /\ \A j \in 1 .. Len(x) : j \in 1 .. 3 \/ \E k \in 1 .. Len(p) : j = 3 + k
  <2>1. u \in Seq(Nat) /\ p \in Seq(Nat) /\ Len(u) = 3
    BY <1>5, <1>6
  <2>2. x \in Seq(Nat) /\ Glued(u, p, x)
    BY <2>1, Glue
  <2> HIDE DEF x
  <2> QED
    BY <2>1, <2>2 DEF Glued
<1> HIDE DEF x
<1>8. /\ raw \in Seq(Nat) /\ Len(raw) = Len(x) + 1 /\ raw[Len(x) + 1] = c
      /\ \A j \in 1 .. Len(x) : raw[j] = x[j]
  BY <1>4, <1>7, ConcatProperties
<1> HIDE DEF raw
<1>9. \A j \in 1 .. Len(x) : x[j] <= 100
  BY ZenonT(60), <1>6, <1>7, <1>u
<1>10. EndsLarge(raw)
  <2> DEFINE n == Len(raw)
  <2>1. n = Len(p) + 4 /\ n \in 1 .. 99 /\ n - 1 = Len(x)
    <3>1. n = Len(x) + 1 /\ Len(x) = 3 + Len(p)
      BY <1>7, <1>8
    <3> DEFINE l == Len(p)
               m == Len(x)
    <3>2. l \in Nat /\ l <= 3 /\ m = 3 + l /\ n = m + 1
      BY <3>1, <1>6
    <3> HIDE DEF n, l, m
    <3>3. n = l + 4 /\ n \in 1 .. 99 /\ n - 1 = m
      BY <3>2
    <3> QED
      BY <3>3 DEF l, m
  <2>2. \A j \in 1 .. n - 1 : raw[j] <= 100
    <3>1. \A j \in 1 .. Len(x) : raw[j] <= 100
      BY <1>8, <1>9
    <3> QED
      BY <2>1, <3>1
  <2>3. n \in 1 .. 99 /\ raw[n] > 100
    <3>1. n = Len(x) + 1
      BY <1>8
    <3>2. raw[n] = c
      BY <3>1, <1>8
    <3> QED
      BY <2>1, <3>2, <1>4
  <2> QED
    BY <2>2, <2>3, Zenon DEF EndsLarge
<1>11. raw \in Record
  BY <1>1, RecordAssumption
<1>12. raw[1] = Type(kind) /\ raw[3] = id /\ raw[Len(raw)] = c
  <2>1. 1 \in 1 .. 3 /\ 3 \in 1 .. 3 /\ 1 \in 1 .. Len(x) /\ 3 \in 1 .. Len(x)
    BY <1>6, <1>7
  <2> QED
    BY <2>1, <1>5, <1>7, <1>8
<1>13. Len(raw) <= RawMax
  BY <1>8, <1>11, CobsAssumption
<1> QED
  BY <1>1, <1>8, <1>10, <1>11, <1>12, <1>13 DEF c

\* A CRC tells the request.
LEMMA CrcDistinct ==
    ASSUME NEW k \in Kind, NEW l \in Kind, NEW i \in Nat, NEW j \in Nat, Crc(k, i) = Crc(l, j)
    PROVE  i = j
<1>1. Type(k) \in 1 .. 25 /\ Type(l) \in 1 .. 25 /\ 100 * i + Type(k) = 100 * j + Type(l)
  BY Types DEF Crc
<1> QED
  BY <1>1

\* What the proofs use of an encoding: e is that of a record.
IsEncoding(kind, id, e) ==
    /\ e \in Seq(Nat) /\ Len(e) \in 2 .. EncodedMax
    /\ \A j \in 1 .. Len(e) : e[j] = 0 <=> j = Len(e)
    /\ \E p \in 1 .. Len(e) - 1 :
          e[p] = Crc(kind, id) /\ \A j \in 1 .. Len(e) : j # p => e[j] <= 100
    /\ UsbDecode(SubSeq(e, 1, Len(e) - 1)) = RecordOf(kind, id)

\* What begins with t has t as its first part.
LEMMA PrefixIs ==
    ASSUME NEW S, NEW s \in Seq(S), NEW t \in Seq(S), Len(t) <= Len(s),
           \A j \in 1 .. Len(t) : s[j] = t[j]
    PROVE  SubSeq(s, 1, Len(t)) = t
<1> DEFINE u == SubSeq(s, 1, Len(t))
<1>1. Len(t) \in Nat /\ Len(s) \in Nat
  OBVIOUS
<1>2. u \in Seq(S) /\ Len(u) = Len(t) /\ \A j \in 1 .. Len(t) : u[j] = s[j]
  BY <1>1, SubSeqProperties
<1> HIDE DEF u
<1>3. \A j \in 1 .. Len(t) : u[j] = t[j]
  BY <1>2
<1>4. u = t
  BY <1>2, <1>3, SeqEqual
<1> QED
  BY <1>4 DEF u

\* Each request has such an encoding.
LEMMA EncodingIs ==
    ASSUME NEW kind \in Kind, NEW id \in Id
    PROVE  IsEncoding(kind, id, Encoding[kind][id])
<1> DEFINE raw == RecordOf(kind, id)
           w == Whole(raw)
           e == Append(w, 0)
           c == Crc(kind, id)
<1>1. raw \in Record /\ raw \in Seq(Nat) /\ EndsLarge(raw) /\ raw[Len(raw)] = c /\ Len(raw) <= RawMax
  BY RecordShape
<1> HIDE DEF raw
<1>2. w \in Seq(Nat) /\ w # <<>> /\ \A j \in 1 .. Len(w) : w[j] # 0
  BY <1>1, WholeIs
<1>3. CobsEncode(raw, EncodedMax - 1) = w /\ Len(w) <= EncodedMax - 1 /\ EncodedMax \in Nat
  BY <1>1, EncodeIs
<1>4. PICK p \in 1 .. Len(w) : w[p] = raw[Len(raw)] /\ \A j \in 1 .. Len(w) : j # p => w[j] <= 100
  BY <1>1, OneLarge
<1>5. CobsDecode(w, RawMax) = raw
  <2>1. RawMax \in Nat
    BY CobsAssumption
  <2> QED
    BY <1>1, <2>1, DecodesWhole
<1>6. UsbDecode(w) = raw
  BY <1>1, <1>5 DEF UsbDecode
<1>7. Encoding[kind][id] = e
  <2>1. Encoding[kind][id] = UsbEncode(raw)
    BY DEF Encoding, raw
  <2>2. CobsEncode(raw, EncodedMax - 1) # <<>>
    BY <1>2, <1>3
  <2> HIDE DEF w
  <2>3. UsbEncode(raw) = Append(CobsEncode(raw, EncodedMax - 1), 0)
    BY <2>2, Zenon DEF UsbEncode
  <2> QED
    BY <2>1, <2>3, <1>3
<1> HIDE DEF w
<1>8. /\ e \in Seq(Nat) /\ Len(e) = Len(w) + 1 /\ e[Len(w) + 1] = 0
      /\ \A j \in 1 .. Len(w) : e[j] = w[j]
  BY <1>2, AppendProperties
<1> HIDE DEF e
<1>9. SubSeq(e, 1, Len(e) - 1) = w
  <2>1. Len(e) - 1 = Len(w) /\ Len(w) \in Nat
    BY <1>2, <1>8
  <2> QED
    BY <1>2, <1>8, <2>1, PrefixIs
<1>10. Len(w) \in Nat /\ Len(w) >= 1 /\ Len(e) = Len(w) + 1
  BY <1>2, <1>8, EmptySeq
<1> DEFINE m == Len(w)
           n == Len(e)
<1>11. n \in 2 .. EncodedMax /\ n - 1 = m /\ n = m + 1
  <2> HIDE DEF m, n
  <2>1. m \in Nat /\ m >= 1 /\ n = m + 1 /\ m <= EncodedMax - 1 /\ EncodedMax \in Nat
    BY <1>3, <1>10 DEF m, n
  <2> QED
    BY <2>1
<1>12. \A j \in 1 .. n : e[j] = 0 <=> j = n
  <2> SUFFICES ASSUME NEW j \in 1 .. n PROVE e[j] = 0 <=> j = n
    OBVIOUS
  <2>1. (j \in 1 .. m /\ j # n) \/ j = n
    <3> HIDE DEF m, n
    <3>1. m \in Nat
      BY <1>10 DEF m
    <3> QED
      BY <1>11, <3>1
  <2> QED
    BY <2>1, <1>2, <1>8, <1>11
<1>13. p \in 1 .. n - 1 /\ e[p] = c /\ \A j \in 1 .. n : j # p => e[j] <= 100
  <2>1. p \in 1 .. n - 1 /\ e[p] = c
    BY <1>1, <1>4, <1>8, <1>11
  <2>2. ASSUME NEW j \in 1 .. n, j # p PROVE e[j] <= 100
    <3>1. j \in 1 .. m \/ j = n
      <4> HIDE DEF m, n
      <4>1. m \in Nat
        BY <1>10 DEF m
      <4> QED
        BY <1>11, <4>1
    <3> QED
      BY <3>1, <2>2, <1>4, <1>8, <1>11
  <2> QED
    BY <2>1, <2>2
<1>14. UsbDecode(SubSeq(e, 1, n - 1)) = raw
  BY <1>6, <1>9
<1>15. IsEncoding(kind, id, e)
  <2>1. \E q \in 1 .. n - 1 : e[q] = c /\ \A j \in 1 .. n : j # q => e[j] <= 100
    BY <1>13
  <2> HIDE DEF c
  <2> QED
    BY <1>8, <1>11, <1>12, <2>1, <1>14, Zenon DEF IsEncoding, raw, c, n
<1> QED
  BY <1>7, <1>15
-----------------------------------------------------------------------------
(***************************************************************************)
(* Sequences of bytes in the order they were written.                      *)
(***************************************************************************)
Before(x, y) == x[1] < y[1] \/ (x[1] = y[1] /\ x[2] < y[2])
Sorted(s) == \A i, j \in 1 .. Len(s) : i < j => Before(s[i], s[j])
Precedes(s, t) == \A x \in ToSet(s), y \in ToSet(t) : Before(x, y)

\* The elements of a sequence.
LEMMA InSet ==
    ASSUME NEW S, NEW s \in Seq(S)
    PROVE  /\ ToSet(s) \subseteq S
           /\ \A i \in 1 .. Len(s) : s[i] \in ToSet(s)
           /\ \A x \in ToSet(s) : \E i \in 1 .. Len(s) : x = s[i]
  BY DEF ToSet

\* The first byte, and the others.
Led(s, h, t) ==
    /\ h \in ToSet(s) /\ ToSet(s) = {h} \cup ToSet(t)
    /\ Sorted(t) /\ \A x \in ToSet(t) : Before(h, x)

\* The head of a sorted sequence comes before the others.
LEMMA HeadIsFirst ==
    ASSUME NEW S, NEW s \in Seq(S), s # <<>>, Sorted(s)
    PROVE  Head(s) \in S /\ Tail(s) \in Seq(S) /\ Led(s, Head(s), Tail(s))
<1> DEFINE h == Head(s)
           t == Tail(s)
           n == Len(s)
<1>1. n \in Nat /\ n >= 1 /\ h = s[1]
  BY EmptySeq
<1>2. h \in S /\ t \in Seq(S) /\ Len(t) = n - 1 /\ \A i \in 1 .. Len(t) : t[i] = s[i + 1]
  BY HeadTailProperties
<1>n. n = Len(s)
  OBVIOUS
<1> HIDE DEF h, t, n
<1>3. \A i \in 1 .. n : s[i] \in ToSet(s)
  BY InSet DEF n
<1>4. \A i \in 1 .. n - 1 : t[i] = s[i + 1] /\ i + 1 \in 1 .. n /\ t[i] \in ToSet(t)
  BY <1>1, <1>2, InSet
<1>5. ASSUME NEW x \in ToSet(t) PROVE \E i \in 1 .. n - 1 : x = t[i]
  BY <1>2, InSet
<1>6. ASSUME NEW x \in ToSet(s) PROVE \E i \in 1 .. n : x = s[i]
  BY InSet DEF n
<1>7. h \in ToSet(s)
  BY <1>1, <1>3
<1>8. ToSet(s) = {h} \cup ToSet(t)
  <2>1. ASSUME NEW x \in ToSet(s) PROVE x = h \/ x \in ToSet(t)
    <3>1. PICK i \in 1 .. n : x = s[i]
      BY <1>6
    <3>2. i = 1 \/ (i - 1 \in 1 .. n - 1 /\ (i - 1) + 1 = i)
      BY <1>1
    <3> QED
      BY <3>1, <3>2, <1>1, <1>4
  <2>2. ASSUME NEW x \in ToSet(t) PROVE x \in ToSet(s)
    BY <1>3, <1>4, <1>5
  <2> QED
    BY <1>7, <2>1, <2>2
<1>9. \A i, j \in 1 .. n : i < j => Before(s[i], s[j])
  BY DEF Sorted, n
<1>10. Sorted(t)
  <2> SUFFICES ASSUME NEW i \in 1 .. n - 1, NEW j \in 1 .. n - 1, i < j PROVE Before(t[i], t[j])
    BY <1>2 DEF Sorted
  <2>1. i + 1 < j + 1
    OBVIOUS
  <2> QED
    BY <2>1, <1>4, <1>9
<1>11. \A x \in ToSet(t) : Before(h, x)
  <2> SUFFICES ASSUME NEW i \in 1 .. n - 1 PROVE Before(h, t[i])
    BY <1>5
  <2>1. 1 < i + 1 /\ 1 \in 1 .. n
    BY <1>1
  <2> QED
    BY <2>1, <1>1, <1>4, <1>9
<1>12. Led(s, h, t)
  BY <1>7, <1>8, <1>10, <1>11 DEF Led
<1> QED
  BY <1>2, <1>12 DEF h, t

\* A chunk and what is left behind it.
Halved(s, u, v) ==
    /\ ToSet(s) = ToSet(u) \cup ToSet(v)
    /\ Sorted(u) /\ Sorted(v) /\ Precedes(u, v)

\* Both parts of a sorted sequence are sorted.
LEMMA SplitSorted ==
    ASSUME NEW S, NEW s \in Seq(S), NEW n \in Nat, n <= Len(s), Sorted(s)
    PROVE  /\ SubSeq(s, 1, n) \in Seq(S) /\ Len(SubSeq(s, 1, n)) = n
           /\ SubSeq(s, n + 1, Len(s)) \in Seq(S)
           /\ Halved(s, SubSeq(s, 1, n), SubSeq(s, n + 1, Len(s)))
<1> DEFINE l == Len(s)
           u == SubSeq(s, 1, n)
           v == SubSeq(s, n + 1, l)
<1>1. l \in Nat /\ n <= l /\ l = Len(s)
  OBVIOUS
<1>2. u \in Seq(S) /\ Len(u) = n /\ \A i \in 1 .. n : u[i] = s[i]
  BY SubSeqProperties
<1>3. v \in Seq(S) /\ Len(v) = l - n /\ \A i \in 1 .. l - n : v[i] = s[n + i]
  <2>1. n + 1 \in Int /\ l \in Int /\ \A i \in n + 1 .. l : s[i] \in S
    BY <1>1
  <2>2. /\ v \in Seq(S) /\ Len(v) = IF n + 1 <= l THEN l - (n + 1) + 1 ELSE 0
        /\ \A i \in 1 .. l - (n + 1) + 1 : v[i] = s[n + 1 + i - 1]
    BY <2>1, SubSeqProperties
  <2> HIDE DEF v, l
  <2>3. (IF n + 1 <= l THEN l - (n + 1) + 1 ELSE 0) = l - n
    BY <1>1
  <2>4. \A i \in 1 .. l - n : i \in 1 .. l - (n + 1) + 1 /\ n + 1 + i - 1 = n + i
    BY <1>1
  <2> QED
    BY <2>2, <2>3, <2>4
<1> HIDE DEF l, u, v
<1>4. \A i, j \in 1 .. l : i < j => Before(s[i], s[j])
  BY <1>1 DEF Sorted
<1>5. \A i \in 1 .. n : i \in 1 .. l
  BY <1>1
<1>6. \A i \in 1 .. l - n : n + i \in 1 .. l
  BY <1>1
<1>7. \A i \in 1 .. l : i \in 1 .. n \/ (i - n \in 1 .. l - n /\ n + (i - n) = i)
  BY <1>1
<1>8. \A i \in 1 .. n : u[i] \in ToSet(u)
  BY <1>2, InSet
<1>9. \A i \in 1 .. l - n : v[i] \in ToSet(v)
  BY <1>3, InSet
<1>10. \A i \in 1 .. l : s[i] \in ToSet(s)
  BY <1>1, InSet
<1>11. \A x \in ToSet(u) : \E i \in 1 .. n : x = u[i]
  BY <1>2, InSet
<1>12. \A x \in ToSet(v) : \E i \in 1 .. l - n : x = v[i]
  BY <1>3, InSet
<1>13. \A x \in ToSet(s) : \E i \in 1 .. l : x = s[i]
  BY <1>1, InSet
<1>14. ToSet(s) = ToSet(u) \cup ToSet(v)
  <2>1. ASSUME NEW x \in ToSet(s) PROVE x \in ToSet(u) \/ x \in ToSet(v)
    <3>1. PICK i \in 1 .. l : x = s[i]
      BY <1>13
    <3>2. CASE i \in 1 .. n
      BY <3>1, <3>2, <1>2, <1>8
    <3>3. CASE i - n \in 1 .. l - n /\ n + (i - n) = i
      BY <3>1, <3>3, <1>3, <1>9
    <3> QED
      BY <1>7, <3>2, <3>3
  <2>2. ASSUME NEW x \in ToSet(u) PROVE x \in ToSet(s)
    BY <1>2, <1>5, <1>10, <1>11
  <2>3. ASSUME NEW x \in ToSet(v) PROVE x \in ToSet(s)
    BY <1>3, <1>6, <1>10, <1>12
  <2> QED
    BY <2>1, <2>2, <2>3
<1>15. Sorted(u)
  BY <1>2, <1>4, <1>5 DEF Sorted
<1>16. Sorted(v)
  <2> SUFFICES ASSUME NEW i \in 1 .. l - n, NEW j \in 1 .. l - n, i < j PROVE Before(v[i], v[j])
    BY <1>3 DEF Sorted
  <2>1. n + i < n + j
    OBVIOUS
  <2> QED
    BY <2>1, <1>3, <1>4, <1>6
<1>17. Precedes(u, v)
  <2> SUFFICES ASSUME NEW i \in 1 .. n, NEW j \in 1 .. l - n PROVE Before(u[i], v[j])
    BY <1>11, <1>12 DEF Precedes
  <2>1. i < n + j
    BY <1>1
  <2> QED
    BY <2>1, <1>2, <1>3, <1>4, <1>5, <1>6
<1>18. Halved(s, u, v)
  BY <1>14, <1>15, <1>16, <1>17 DEF Halved
<1> QED
  BY <1>2, <1>3, <1>18 DEF u, v, l

\* Two sorted sequences, one before the other, make one.
LEMMA JoinSorted ==
    ASSUME NEW S, NEW s \in Seq(S), NEW t \in Seq(S), Sorted(s), Sorted(t), Precedes(s, t)
    PROVE  s \o t \in Seq(S) /\ Halved(s \o t, s, t) /\ Sorted(s \o t)
<1> DEFINE u == s \o t
           m == Len(s)
           n == Len(t)
<1>1. u \in Seq(S) /\ Glued(s, t, u)
  BY Glue
<1>2. m \in Nat /\ n \in Nat /\ m = Len(s) /\ n = Len(t)
  OBVIOUS
<1> HIDE DEF u, m, n
<1>3. /\ Len(u) = m + n
      /\ \A j \in 1 .. m : u[j] = s[j]
      /\ \A j \in 1 .. n : u[m + j] = t[j]
      /\ \A j \in 1 .. Len(u) : j \in 1 .. m \/ \E k \in 1 .. n : j = m + k
  BY <1>1, <1>2 DEF Glued
<1>4. /\ \A i, j \in 1 .. m : i < j => Before(s[i], s[j])
      /\ \A i, j \in 1 .. n : i < j => Before(t[i], t[j])
  BY <1>2 DEF Sorted
<1>5. /\ \A i \in 1 .. m : s[i] \in ToSet(s)
      /\ \A i \in 1 .. n : t[i] \in ToSet(t)
      /\ \A i \in 1 .. Len(u) : u[i] \in ToSet(u)
  BY <1>1, <1>2, InSet
<1>6. /\ \A x \in ToSet(s) : \E i \in 1 .. m : x = s[i]
      /\ \A x \in ToSet(t) : \E i \in 1 .. n : x = t[i]
      /\ \A x \in ToSet(u) : \E i \in 1 .. Len(u) : x = u[i]
  BY <1>1, <1>2, InSet
<1>7. (\A j \in 1 .. m : j \in 1 .. Len(u)) /\ \A j \in 1 .. n : m + j \in 1 .. Len(u)
  BY <1>2, <1>3
<1>8. ToSet(u) = ToSet(s) \cup ToSet(t)
  <2>1. ASSUME NEW x \in ToSet(u) PROVE x \in ToSet(s) \/ x \in ToSet(t)
    <3>1. PICK j \in 1 .. Len(u) : x = u[j]
      BY <1>6
    <3>2. CASE j \in 1 .. m
      BY <3>1, <3>2, <1>3, <1>5
    <3>3. CASE \E k \in 1 .. n : j = m + k
      BY <3>1, <3>3, <1>3, <1>5
    <3> QED
      BY <1>3, <3>2, <3>3
  <2>2. ASSUME NEW x \in ToSet(s) PROVE x \in ToSet(u)
    BY <1>3, <1>5, <1>6, <1>7
  <2>3. ASSUME NEW x \in ToSet(t) PROVE x \in ToSet(u)
    BY SMTT(30), <1>3, <1>5, <1>6, <1>7
  <2> QED
    BY <2>1, <2>2, <2>3
<1>9. \A i \in 1 .. m, j \in 1 .. n : Before(s[i], t[j])
  BY <1>5 DEF Precedes
<1>10. Sorted(u)
  <2> SUFFICES ASSUME NEW i \in 1 .. Len(u), NEW j \in 1 .. Len(u), i < j PROVE Before(u[i], u[j])
    BY DEF Sorted
  <2>1. CASE i \in 1 .. m /\ j \in 1 .. m
    BY <2>1, <1>3, <1>4
  <2>2. CASE i \in 1 .. m /\ \E k \in 1 .. n : j = m + k
    BY <2>2, <1>3, <1>9
  <2>3. CASE (\E k \in 1 .. n : i = m + k) /\ j \in 1 .. m
    BY <2>3, <1>2
  <2>4. CASE (\E k \in 1 .. n : i = m + k) /\ \E k \in 1 .. n : j = m + k
    <3>1. PICK k \in 1 .. n : i = m + k
      BY <2>4
    <3>2. PICK l \in 1 .. n : j = m + l
      BY <2>4
    <3>3. k < l
      BY <3>1, <3>2, <1>2
    <3> QED
      BY <3>1, <3>2, <3>3, <1>3, <1>4
  <2> QED
    BY <1>3, <2>1, <2>2, <2>3, <2>4
<1>11. Halved(u, s, t)
  BY <1>8 DEF Halved
<1> QED
  BY <1>1, <1>10, <1>11 DEF u
-----------------------------------------------------------------------------
(***************************************************************************)
(* Type correctness.                                                       *)
(***************************************************************************)
HostType ==
    [at : {"CLOSED", "BROKEN", "IDLE", "REQUEST", "BACKUP"}, id : {0} \cup Id,
     partial : Seq(Frame), pending : Seq(Frame), image : Seq(Id \X (1 .. Blocks))]
PeerType == [asked : Seq(Id), op : {0} \cup Id, next : 1 .. Blocks + 1]

\* The bytes of the requests so far.
E(k) == Encoding[requests[k]][k]
Written == {b \in Id \X Nat : b[1] \in 1 .. Len(requests) /\ b[2] \in 1 .. Len(E(b[1]))}

\* The frames to the host.
LEMMA FrameIs ==
    /\ \A id \in Id, ok \in BOOLEAN : Response(id, ok) \in Frame
    /\ \A id \in Id, k \in 1 .. Blocks : <<"BLOCK", id, k>> \in Frame
    /\ \A id \in Id, ok \in BOOLEAN : <<"RESULT", id, ok>> \in Frame
    /\ <<"ERROR">> \in Frame
  BY DEF Frame, Response

\* The fields of a block.
LEMMA BlockIs ==
    ASSUME NEW f \in Frame, f[1] = "BLOCK"
    PROVE  f[2] \in Id /\ f[3] \in 1 .. Blocks
<1>1. \/ f \in {"RESPONSE"} \X Id \X BOOLEAN
      \/ f \in {"BLOCK"} \X Id \X (1 .. Blocks)
      \/ f \in {"RESULT"} \X Id \X BOOLEAN
      \/ f = <<"ERROR">>
  BY DEF Frame
<1>2. CASE f \in {"RESPONSE"} \X Id \X BOOLEAN
  BY <1>2
<1>3. CASE f \in {"BLOCK"} \X Id \X (1 .. Blocks)
  BY <1>3
<1>4. CASE f \in {"RESULT"} \X Id \X BOOLEAN
  BY <1>4
<1>5. CASE f = <<"ERROR">>
  BY <1>5
<1> QED
  BY <1>1, <1>2, <1>3, <1>4, <1>5

\* gateway_usb_send keeps the types.
LEMMA SendsOK ==
    ASSUME NEW f \in Frame, Sends(f), returns \in Seq(Frame \X {1, 2}), faults \in 0 .. MaxFaults
    PROVE  returns' \in Seq(Frame \X {1, 2}) /\ faults' \in 0 .. MaxFaults
<1> DEFINE S == Frame \X {1, 2}
           x == <<f, 1>>
           y == <<f, 2>>
<1>1. x \in S /\ y \in S
  OBVIOUS
<1> HIDE DEF S, x, y
<1>2. <<x, y>> \in Seq(S)
  BY <1>1
<1>3. returns \in Seq(S) /\ MaxFaults \in Nat
  BY UsbAssumption DEF S
<1>4. CASE returns' = returns \o <<x, y>> /\ UNCHANGED <<torn, faults>>
  <2> DEFINE t == <<x, y>>
  <2> HIDE DEF t
  <2>1. t \in Seq(S) /\ returns' = returns \o t
    BY <1>2, <1>4 DEF t
  <2>2. returns \o t \in Seq(S)
    BY <1>3, <2>1, ConcatProperties
  <2> QED
    BY <1>4, <2>1, <2>2 DEF S
<1>5. CASE faults < MaxFaults /\ faults' = faults + 1 /\ returns' \in {returns, Append(returns, x)}
  <2>1. returns' \in Seq(S)
    BY <1>1, <1>3, <1>5, AppendProperties
  <2>2. faults' \in 0 .. MaxFaults
    BY <1>3, <1>5
  <2> QED
    BY <2>1, <2>2 DEF S
<1> QED
  BY <1>4, <1>5 DEF Sends, Pieces, x, y

\* A process that has begun is well-typed, and one that broke.
LEMMA ProcessOK == Process \in HostType /\ Broken \in HostType
<1>1. Process \in HostType
  BY DEF Process, HostType
<1>2. [Process EXCEPT !.at = "BROKEN"] \in HostType
  BY <1>1 DEF HostType
<1> QED
  BY <1>1, <1>2 DEF Broken

\* Process and Broken are not running.
LEMMA StoppedIs == Stopped(Process) /\ Stopped(Broken)
  BY DEF Stopped, Process, Broken

\* The types of the fields of a process.
LEMMA HostFields ==
    ASSUME host \in HostType
    PROVE  /\ host.at \in {"CLOSED", "BROKEN", "IDLE", "REQUEST", "BACKUP"} /\ host.id \in {0} \cup Id
           /\ host.partial \in Seq(Frame) /\ host.pending \in Seq(Frame)
           /\ host.image \in Seq(Id \X (1 .. Blocks))
  BY DEF HostType

\* What request may make of a frame, whatever frame it is.
LEMMA InRequestIs ==
    ASSUME NEW f
    PROVE  \/ InRequest(f) = [host EXCEPT !.pending = Append(@, f)]
           \/ f[1] = "RESPONSE" /\ InRequest(f) = host
           \/ /\ f[1] = "RESPONSE" /\ Mine(f)
              /\ \E at \in {"BACKUP", "IDLE"} : InRequest(f) = [host EXCEPT !.at = at]
           \/ InRequest(f) = Process
<1>1. CASE f[1] \in {"BLOCK", "RESULT"}
  <2>1. f[1] # "RESPONSE"
    BY <1>1
  <2> QED
    BY <1>1, <2>1, Zenon DEF InRequest
<1>2. CASE f[1] = "RESPONSE" /\ ~Mine(f)
  <2>1. f[1] \notin {"BLOCK", "RESULT"}
    BY <1>2
  <2> QED
    BY <1>2, <2>1, Zenon DEF InRequest
<1>3. CASE f[1] = "RESPONSE" /\ Mine(f) /\ f[3]
  <2>1. f[1] \notin {"BLOCK", "RESULT"}
    BY <1>3
  <2> DEFINE at == IF requests[host.id] = "BACKUP" THEN "BACKUP" ELSE "IDLE"
  <2>2. InRequest(f) = [host EXCEPT !.at = at]
    BY <1>3, <2>1, Zenon DEF InRequest
  <2>3. at \in {"BACKUP", "IDLE"}
    OBVIOUS
  <2> QED
    BY <1>3, <2>2, <2>3
<1>4. CASE /\ ~(f[1] \in {"BLOCK", "RESULT"}) /\ ~(f[1] = "RESPONSE" /\ ~Mine(f))
           /\ ~(f[1] = "RESPONSE" /\ Mine(f) /\ f[3])
  BY <1>4, Zenon DEF InRequest
<1> QED
  BY <1>1, <1>2, <1>3, <1>4

\* request keeps the type of the process.
LEMMA InRequestOK ==
    ASSUME NEW f \in Frame, host \in HostType
    PROVE  InRequest(f) \in HostType
<1>1. CASE InRequest(f) = [host EXCEPT !.pending = Append(@, f)]
  <2> DEFINE p == Append(host.pending, f)
  <2>1. p \in Seq(Frame)
    BY HostFields, AppendProperties
  <2>2. InRequest(f) = [host EXCEPT !.pending = p]
    BY <1>1
  <2> HIDE DEF p
  <2> QED
    BY <2>1, <2>2 DEF HostType
<1>2. CASE InRequest(f) = host
  BY <1>2
<1>3. CASE \E at \in {"BACKUP", "IDLE"} : InRequest(f) = [host EXCEPT !.at = at]
  BY <1>3 DEF HostType
<1>4. CASE InRequest(f) = Process
  BY <1>4, ProcessOK
<1> QED
  BY <1>1, <1>2, <1>3, <1>4, InRequestIs

\* What backup_main makes of an event.
LEMMA InBackupIs ==
    ASSUME NEW f \in Frame, host \in HostType
    PROVE  \/ InBackup(f) = host /\ ~(f[1] = "BLOCK" /\ Own(f) /\ f[3] > Len(host.image))
           \/ /\ f[1] = "BLOCK" /\ Own(f) /\ f[3] = Len(host.image) + 1
              /\ InBackup(f) = [host EXCEPT !.image = Append(@, <<f[2], f[3]>>)]
           \/ f[1] = "RESULT" /\ InBackup(f) = [host EXCEPT !.at = "IDLE"]
           \/ InBackup(f) = Process
           \/ /\ InBackup(f) = Broken
              /\ \/ /\ f[1] = "BLOCK" /\ Own(f) /\ f[3] # Len(host.image) + 1
                    /\ ~(f[3] <= Len(host.image) /\ host.image[f[3]] = <<f[2], f[3]>>)
                 \/ f[1] = "RESULT" /\ Own(f) /\ f[3] /\ host.image # Flash(f[2])
<1> DEFINE received == Len(host.image)
<1>1. CASE f[1] = "RESPONSE"
  <2>1. f[1] # "BLOCK" /\ f[1] # "RESULT" /\ f[1] \notin {"BLOCK", "RESULT"} /\ f[1] # "ERROR"
    BY <1>1
  <2> QED
    BY <1>1, <2>1, Zenon DEF InBackup
<1>2. CASE f[1] \in {"BLOCK", "RESULT"} /\ ~Own(f)
  <2>1. f[1] # "RESPONSE" /\ f[1] # "ERROR"
    BY <1>2
  <2> QED
    BY <1>2, <2>1, Zenon DEF InBackup
<1>3. CASE f[1] = "BLOCK" /\ Own(f) /\ f[3] = received + 1
  <2>1. f[1] # "RESPONSE" /\ f[1] # "RESULT" /\ f[1] # "ERROR"
    BY <1>3
  <2>2. received \in Nat
    BY HostFields
  <2> HIDE DEF received
  <2>3. ~(f[3] <= received)
    BY <1>3, <2>2
  <2> QED
    BY <1>3, <2>1, <2>3, Zenon DEF InBackup, received
<1>4. CASE /\ f[1] = "BLOCK" /\ Own(f) /\ f[3] # received + 1
           /\ f[3] <= received /\ host.image[f[3]] = <<f[2], f[3]>>
  <2>1. f[1] # "RESPONSE" /\ f[1] # "RESULT" /\ f[1] # "ERROR"
    BY <1>4
  <2>2. InBackup(f) = host
    BY <1>4, <2>1, Zenon DEF InBackup
  <2>3. received \in Nat /\ f[3] \in Nat
    <3>1. f[3] \in 1 .. Blocks
      BY <1>4, BlockIs
    <3>2. received \in Nat
      BY HostFields
    <3> QED
      BY <3>1, <3>2
  <2> HIDE DEF received
  <2>4. ~(f[3] > received)
    BY <1>4, <2>3
  <2> QED
    BY <2>2, <2>4 DEF received
<1>5. CASE f[1] = "RESULT" /\ Own(f) /\ f[3] /\ host.image = Flash(f[2])
  <2>1. f[1] # "RESPONSE" /\ f[1] # "BLOCK" /\ f[1] # "ERROR"
    BY <1>5
  <2> QED
    BY <1>5, <2>1, Zenon DEF InBackup
<1>6. CASE f[1] = "ERROR"
  <2>1. f[1] # "RESPONSE" /\ f[1] # "BLOCK" /\ f[1] # "RESULT" /\ f[1] \notin {"BLOCK", "RESULT"}
    BY <1>6
  <2> QED
    BY <1>6, <2>1, Zenon DEF InBackup
<1>7. CASE f[1] = "RESULT" /\ Own(f) /\ ~f[3]
  <2>1. f[1] # "RESPONSE" /\ f[1] # "BLOCK" /\ f[1] # "ERROR"
    BY <1>7
  <2> QED
    BY <1>7, <2>1, Zenon DEF InBackup
<1>8. CASE /\ f[1] = "BLOCK" /\ Own(f) /\ f[3] # received + 1
           /\ ~(f[3] <= received /\ host.image[f[3]] = <<f[2], f[3]>>)
  <2>1. f[1] # "RESPONSE" /\ f[1] # "RESULT" /\ f[1] # "ERROR"
    BY <1>8
  <2>2. InBackup(f) = Broken
    BY <1>8, <2>1, Zenon DEF InBackup
  <2> QED
    BY <1>8, <2>2
<1>9. CASE f[1] = "RESULT" /\ Own(f) /\ f[3] /\ host.image # Flash(f[2])
  <2>1. f[1] # "RESPONSE" /\ f[1] # "BLOCK" /\ f[1] # "ERROR"
    BY <1>9
  <2>2. InBackup(f) = Broken
    BY <1>9, <2>1, Zenon DEF InBackup
  <2> QED
    BY <1>9, <2>2
<1>10. f[1] \in {"RESPONSE", "BLOCK", "RESULT", "ERROR"}
  BY DEF Frame
<1> QED
  BY <1>1, <1>2, <1>3, <1>4, <1>5, <1>6, <1>7, <1>8, <1>9, <1>10

\* backup_main keeps the type of the process.
LEMMA InBackupOK ==
    ASSUME NEW f \in Frame, host \in HostType
    PROVE  InBackup(f) \in HostType
<1>1. CASE InBackup(f) = host
  BY <1>1
<1>2. CASE f[1] = "BLOCK" /\ InBackup(f) = [host EXCEPT !.image = Append(@, <<f[2], f[3]>>)]
  <2> DEFINE x == <<f[2], f[3]>>
             S == Id \X (1 .. Blocks)
             p == Append(host.image, x)
  <2>1. x \in S
    BY <1>2, BlockIs
  <2>2. host.image \in Seq(S)
    BY HostFields
  <2>3. p \in Seq(S)
    <3> HIDE DEF x, S
    <3> QED
      BY <2>1, <2>2, AppendProperties
  <2>4. InBackup(f) = [host EXCEPT !.image = p]
    BY <1>2
  <2> HIDE DEF p
  <2> QED
    BY <2>3, <2>4 DEF HostType
<1>3. CASE InBackup(f) = [host EXCEPT !.at = "IDLE"]
  BY <1>3 DEF HostType
<1>4. CASE InBackup(f) = Process \/ InBackup(f) = Broken
  BY <1>4, ProcessOK
<1> QED
  BY <1>1, <1>2, <1>3, <1>4, InBackupIs

\* The bytes of a request are those of its encoding.
LEMMA ByteIs ==
    ASSUME requests \in Seq(Kind), Len(requests) <= MaxRequests, NEW k \in 1 .. Len(requests)
    PROVE  /\ k \in Id /\ requests[k] \in Kind /\ IsEncoding(requests[k], k, E(k))
           /\ E(k) \in Seq(Nat) /\ Len(E(k)) \in Nat /\ EncodedMax \in Nat
           /\ \A j \in 1 .. Len(E(k)) : ByteOf(<<k, j>>) = E(k)[j] /\ E(k)[j] \in Nat
<1>1. k \in Id /\ requests[k] \in Kind
  BY UsbAssumption DEF Id
<1>2. IsEncoding(requests[k], k, E(k))
  BY <1>1, EncodingIs DEF E
<1>3. E(k) \in Seq(Nat)
  BY <1>2 DEF IsEncoding
<1>4. EncodedMax \in Nat
  <2>1. RecordOf(requests[k], k) \in Seq(Nat) /\ Len(RecordOf(requests[k], k)) <= RawMax
    BY <1>1, RecordShape
  <2> QED
    BY <2>1, EncodeIs
<1> DEFINE e == E(k)
<1>5. ASSUME NEW j PROVE ByteOf(<<k, j>>) = e[j]
  BY Zenon DEF ByteOf, E
<1>6. \A j \in 1 .. Len(e) : e[j] \in Nat
  BY <1>3
<1>7. Len(e) \in Nat
  BY <1>3
<1> HIDE DEF e
<1> QED
  BY <1>1, <1>2, <1>3, <1>4, <1>5, <1>6, <1>7 DEF e
-----------------------------------------------------------------------------
(***************************************************************************)
(* The bytes under way to the decoder: a chunk, the queue, and the wire.   *)
(***************************************************************************)
Tags == Id \X Nat
InQueue(c, cs, w) == ToSet(c) \cup ToSet(w) \cup UNION {ToSet(x) : x \in ToSet(cs)}
Pipeline(c, cs, w) ==
    /\ c \in Seq(Tags) /\ w \in Seq(Tags) /\ cs \in Seq(Seq(Tags))
    /\ Sorted(c) /\ Sorted(w) /\ Precedes(c, w)
    /\ \A i \in 1 .. Len(cs) :
          cs[i] # <<>> /\ Sorted(cs[i]) /\ Precedes(c, cs[i]) /\ Precedes(cs[i], w)
    /\ \A i, j \in 1 .. Len(cs) : i < j => Precedes(cs[i], cs[j])

\* A byte under way is in the chunk, in a chunk of the queue or on the wire.
LEMMA InQueueIs ==
    ASSUME NEW c, NEW cs \in Seq(Seq(Tags)), NEW w
    PROVE  /\ \A i \in 1 .. Len(cs) : ToSet(cs[i]) \subseteq InQueue(c, cs, w)
           /\ ToSet(c) \subseteq InQueue(c, cs, w) /\ ToSet(w) \subseteq InQueue(c, cs, w)
           /\ \A b \in InQueue(c, cs, w) :
                \/ b \in ToSet(c) \/ b \in ToSet(w)
                \/ \E i \in 1 .. Len(cs) : b \in ToSet(cs[i])
<1> DEFINE S == Seq(Tags)
<1>1. cs \in Seq(S)
  OBVIOUS
<1> HIDE DEF S
<1>2. /\ \A i \in 1 .. Len(cs) : cs[i] \in ToSet(cs)
      /\ \A x \in ToSet(cs) : \E i \in 1 .. Len(cs) : x = cs[i]
  BY <1>1, InSet
<1>3. \A i \in 1 .. Len(cs) : ToSet(cs[i]) \subseteq InQueue(c, cs, w)
  BY <1>2, Zenon DEF InQueue
<1>4. ASSUME NEW b \in InQueue(c, cs, w)
      PROVE  b \in ToSet(c) \/ b \in ToSet(w) \/ \E i \in 1 .. Len(cs) : b \in ToSet(cs[i])
  BY <1>2, <1>4, Zenon DEF InQueue
<1> QED
  BY <1>3, <1>4, Zenon DEF InQueue

\* The decoder takes the first of all bytes under way from its chunk.
LEMMA TakeHere ==
    ASSUME NEW c, NEW cs, NEW w, Pipeline(c, cs, w), c # <<>>
    PROVE  /\ Pipeline(Tail(c), cs, w) /\ Head(c) \in InQueue(c, cs, w)
           /\ InQueue(c, cs, w) = {Head(c)} \cup InQueue(Tail(c), cs, w)
           /\ \A b \in InQueue(Tail(c), cs, w) : Before(Head(c), b)
<1> DEFINE h == Head(c)
           t == Tail(c)
<1>1. /\ c \in Seq(Tags) /\ w \in Seq(Tags) /\ cs \in Seq(Seq(Tags))
      /\ Sorted(c) /\ Sorted(w) /\ Precedes(c, w)
      /\ \A i \in 1 .. Len(cs) :
            cs[i] # <<>> /\ Sorted(cs[i]) /\ Precedes(c, cs[i]) /\ Precedes(cs[i], w)
      /\ \A i, j \in 1 .. Len(cs) : i < j => Precedes(cs[i], cs[j])
  BY Zenon DEF Pipeline
<1>2. t \in Seq(Tags) /\ Led(c, h, t)
  BY <1>1, HeadIsFirst
<1> HIDE DEF h, t
<1>3. /\ h \in ToSet(c) /\ ToSet(c) = {h} \cup ToSet(t)
      /\ Sorted(t) /\ \A x \in ToSet(t) : Before(h, x)
  BY <1>2 DEF Led
<1>4. InQueue(c, cs, w) = {h} \cup InQueue(t, cs, w)
  BY <1>3, Zenon DEF InQueue
<1>5. Precedes(t, w) /\ \A i \in 1 .. Len(cs) : Precedes(t, cs[i])
  BY <1>1, <1>3, Zenon DEF Precedes
<1>6. Pipeline(t, cs, w)
  BY <1>1, <1>2, <1>3, <1>5, Zenon DEF Pipeline
<1>7. ASSUME NEW b \in InQueue(t, cs, w) PROVE Before(h, b)
  <2>1. b \in ToSet(t) \/ b \in ToSet(w) \/ \E i \in 1 .. Len(cs) : b \in ToSet(cs[i])
    BY <1>1, <1>7, InQueueIs
  <2> QED
    BY <1>1, <1>3, <2>1, Zenon DEF Precedes
<1> QED
  BY <1>3, <1>4, <1>6, <1>7 DEF h, t

\* Taking the next chunk of the queue changes nothing of what is under way.
LEMMA NextChunk ==
    ASSUME NEW cs, NEW w, Pipeline(<<>>, cs, w), cs # <<>>
    PROVE  /\ Pipeline(Head(cs), Tail(cs), w) /\ Head(cs) # <<>> /\ Head(cs) = cs[1]
           /\ InQueue(Head(cs), Tail(cs), w) = InQueue(<<>>, cs, w)
           /\ Tail(cs) \in Seq(Seq(Tags)) /\ Len(Tail(cs)) = Len(cs) - 1
           /\ 1 \in 1 .. Len(cs)
           /\ \A i \in 1 .. Len(cs) - 1 : Tail(cs)[i] = cs[i + 1] /\ i + 1 \in 1 .. Len(cs)
<1> DEFINE e == <<>>
           S == Seq(Tags)
           h == Head(cs)
           t == Tail(cs)
           n == Len(cs)
<1>1. /\ w \in S /\ cs \in Seq(S) /\ Sorted(w)
      /\ \A i \in 1 .. n : cs[i] # <<>> /\ Sorted(cs[i]) /\ Precedes(e, cs[i]) /\ Precedes(cs[i], w)
      /\ \A i, j \in 1 .. n : i < j => Precedes(cs[i], cs[j])
  BY Zenon DEF Pipeline
<1>2. \A x : x \notin ToSet(e)
  BY DEF ToSet
<1> HIDE DEF S, e
<1>3. n \in Nat /\ n >= 1 /\ n = Len(cs) /\ h = cs[1]
  BY <1>1, EmptySeq
<1>4. h \in S /\ t \in Seq(S) /\ Len(t) = n - 1 /\ \A i \in 1 .. Len(t) : t[i] = cs[i + 1]
  BY <1>1, HeadTailProperties
<1> HIDE DEF h, t, n
<1>5. 1 \in 1 .. n /\ \A i \in 1 .. n - 1 : t[i] = cs[i + 1] /\ i + 1 \in 1 .. n /\ 1 < i + 1
  BY <1>3, <1>4
<1>6. h # <<>> /\ Sorted(h) /\ Precedes(h, w)
  BY <1>1, <1>3, <1>5
<1>7. \A i \in 1 .. n - 1 :
        t[i] # <<>> /\ Sorted(t[i]) /\ Precedes(h, t[i]) /\ Precedes(t[i], w)
  BY <1>1, <1>3, <1>5
<1>8. \A i, j \in 1 .. n - 1 : i < j => Precedes(t[i], t[j])
  <2> SUFFICES ASSUME NEW i \in 1 .. n - 1, NEW j \in 1 .. n - 1, i < j
               PROVE  Precedes(t[i], t[j])
    OBVIOUS
  <2>1. i + 1 < j + 1
    OBVIOUS
  <2> QED
    BY <2>1, <1>1, <1>5
<1>9. Pipeline(h, t, w)
  BY <1>1, <1>4, <1>6, <1>7, <1>8 DEF Pipeline, S
<1>10. \A b \in InQueue(h, t, w) : b \in InQueue(e, cs, w)
  <2> SUFFICES ASSUME NEW b \in InQueue(h, t, w) PROVE b \in InQueue(e, cs, w)
    OBVIOUS
  <2>1. b \in ToSet(h) \/ b \in ToSet(w) \/ \E i \in 1 .. Len(t) : b \in ToSet(t[i])
    BY <1>4, InQueueIs DEF S
  <2>2. /\ \A i \in 1 .. n : ToSet(cs[i]) \subseteq InQueue(e, cs, w)
        /\ ToSet(w) \subseteq InQueue(e, cs, w)
    BY <1>1, <1>3, InQueueIs DEF S
  <2> QED
    BY <2>1, <2>2, <1>3, <1>4, <1>5
<1>11. \A b \in InQueue(e, cs, w) : b \in InQueue(h, t, w)
  <2> SUFFICES ASSUME NEW b \in InQueue(e, cs, w) PROVE b \in InQueue(h, t, w)
    OBVIOUS
  <2>1. b \in ToSet(w) \/ \E i \in 1 .. n : b \in ToSet(cs[i])
    BY <1>1, <1>2, <1>3, InQueueIs DEF S
  <2>2. /\ \A i \in 1 .. Len(t) : ToSet(t[i]) \subseteq InQueue(h, t, w)
        /\ ToSet(h) \subseteq InQueue(h, t, w) /\ ToSet(w) \subseteq InQueue(h, t, w)
    BY <1>4, InQueueIs DEF S
  <2>3. ASSUME NEW i \in 1 .. n, b \in ToSet(cs[i]) PROVE b \in InQueue(h, t, w)
    <3>1. i = 1 \/ (i - 1 \in 1 .. n - 1 /\ (i - 1) + 1 = i)
      BY <1>3
    <3> QED
      BY <3>1, <2>2, <2>3, <1>3, <1>4, <1>5
  <2> QED
    BY <2>1, <2>2, <2>3
<1> QED
  BY <1>3, <1>4, <1>5, <1>6, <1>9, <1>10, <1>11 DEF h, t, n, S, e

\* Losing bytes of the wire keeps the order of the others.
LEMMA Narrower ==
    ASSUME NEW c, NEW cs, NEW w, Pipeline(c, cs, w), NEW u \in Seq(Tags),
           Sorted(u), ToSet(u) \subseteq ToSet(w)
    PROVE  Pipeline(c, cs, u) /\ InQueue(c, cs, u) \subseteq InQueue(c, cs, w)
<1>1. /\ c \in Seq(Tags) /\ w \in Seq(Tags) /\ cs \in Seq(Seq(Tags))
      /\ Sorted(c) /\ Sorted(w) /\ Precedes(c, w)
      /\ \A i \in 1 .. Len(cs) :
            cs[i] # <<>> /\ Sorted(cs[i]) /\ Precedes(c, cs[i]) /\ Precedes(cs[i], w)
      /\ \A i, j \in 1 .. Len(cs) : i < j => Precedes(cs[i], cs[j])
  BY Zenon DEF Pipeline
<1>2. Precedes(c, u) /\ \A i \in 1 .. Len(cs) : Precedes(cs[i], u)
  BY <1>1, Zenon DEF Precedes
<1>3. Pipeline(c, cs, u)
  BY <1>1, <1>2, Zenon DEF Pipeline
<1> QED
  BY <1>3 DEF InQueue

\* Append, by its elements.
LEMMA Appended ==
    ASSUME NEW S, NEW s \in Seq(S), NEW x \in S
    PROVE  /\ Append(s, x) \in Seq(S) /\ Len(s) \in Nat /\ Len(Append(s, x)) = Len(s) + 1
           /\ \A i \in 1 .. Len(s) : Append(s, x)[i] = s[i] /\ i \in 1 .. Len(s) + 1
           /\ Append(s, x)[Len(s) + 1] = x /\ Len(s) + 1 \in 1 .. Len(s) + 1
           /\ \A i \in 1 .. Len(s) + 1 : i \in 1 .. Len(s) \/ i = Len(s) + 1
           /\ \A i \in 1 .. Len(s) + 1, j \in 1 .. Len(s) + 1 : i < j => i \in 1 .. Len(s)
<1> DEFINE n == Len(s)
           t == Append(s, x)
<1>1. /\ t \in Seq(S) /\ Len(t) = n + 1 /\ (\A i \in 1 .. n : t[i] = s[i]) /\ t[n + 1] = x
      /\ n \in Nat
  BY AppendProperties
<1> HIDE DEF n, t
<1>2. /\ n + 1 \in 1 .. n + 1
      /\ \A i \in 1 .. n : i \in 1 .. n + 1
      /\ \A i \in 1 .. n + 1 : i \in 1 .. n \/ i = n + 1
      /\ \A i \in 1 .. n + 1, j \in 1 .. n + 1 : i < j => i \in 1 .. n
  BY <1>1
<1> QED
  BY <1>1, <1>2 DEF n, t

\* Append, as a set.
LEMMA AppendSet ==
    ASSUME NEW S, NEW s \in Seq(S), NEW x \in S
    PROVE  ToSet(Append(s, x)) = ToSet(s) \cup {x}
<1> DEFINE t == Append(s, x)
           n == Len(s)
<1>1. /\ t \in Seq(S) /\ Len(t) = n + 1
      /\ \A i \in 1 .. n : t[i] = s[i] /\ i \in 1 .. n + 1
      /\ t[n + 1] = x /\ n + 1 \in 1 .. n + 1
      /\ \A i \in 1 .. n + 1 : i \in 1 .. n \/ i = n + 1
  BY Appended
<1>2. /\ \A i \in 1 .. n : s[i] \in ToSet(s)
      /\ \A y \in ToSet(s) : \E i \in 1 .. n : y = s[i]
  BY InSet
<1> HIDE DEF t, n
<1>3. /\ \A i \in 1 .. n + 1 : t[i] \in ToSet(t)
      /\ \A y \in ToSet(t) : \E i \in 1 .. n + 1 : y = t[i]
  BY <1>1, InSet
<1>4. ASSUME NEW y \in ToSet(t) PROVE y \in ToSet(s) \cup {x}
  <2>1. PICK i \in 1 .. n + 1 : y = t[i]
    BY <1>3
  <2>2. CASE i \in 1 .. n
    BY <2>1, <2>2, <1>1, <1>2
  <2>3. CASE i = n + 1
    BY <2>1, <2>3, <1>1
  <2> QED
    BY <2>2, <2>3, <1>1
<1>5. ASSUME NEW y \in ToSet(s) PROVE y \in ToSet(t)
  BY <1>1, <1>2, <1>3
<1>6. x \in ToSet(t)
  BY <1>1, <1>3
<1> QED
  BY <1>4, <1>5, <1>6 DEF t

\* A chunk goes from the wire to the end of the queue.
LEMMA Arrive ==
    ASSUME NEW c, NEW cs, NEW w, Pipeline(c, cs, w),
           NEW u \in Seq(Tags), NEW v \in Seq(Tags), u # <<>>, Halved(w, u, v)
    PROVE  /\ Pipeline(c, Append(cs, u), v)
           /\ InQueue(c, Append(cs, u), v) = InQueue(c, cs, w)
<1> DEFINE S == Seq(Tags)
           n == Len(cs)
           t == Append(cs, u)
<1>1. /\ c \in S /\ w \in S /\ cs \in Seq(S)
      /\ Sorted(c) /\ Sorted(w) /\ Precedes(c, w)
      /\ \A i \in 1 .. n :
            cs[i] # <<>> /\ Sorted(cs[i]) /\ Precedes(c, cs[i]) /\ Precedes(cs[i], w)
      /\ \A i, j \in 1 .. n : i < j => Precedes(cs[i], cs[j])
  BY Zenon DEF Pipeline
<1>2. ToSet(w) = ToSet(u) \cup ToSet(v) /\ Sorted(u) /\ Sorted(v) /\ Precedes(u, v)
  BY DEF Halved
<1>3. ToSet(t) = ToSet(cs) \cup {u}
  <2> HIDE DEF S
  <2>1. cs \in Seq(S) /\ u \in S
    BY <1>1 DEF S
  <2> QED
    BY <2>1, AppendSet
<1>4. InQueue(c, t, v) = InQueue(c, cs, w)
  <2> HIDE DEF t
  <2>1. ASSUME NEW b \in InQueue(c, t, v) PROVE b \in InQueue(c, cs, w)
    BY <2>1, <1>2, <1>3, Zenon DEF InQueue
  <2>2. ASSUME NEW b \in InQueue(c, cs, w) PROVE b \in InQueue(c, t, v)
    BY <2>2, <1>2, <1>3, Zenon DEF InQueue
  <2> QED
    BY <2>1, <2>2
<1>5. /\ t \in Seq(S) /\ Len(t) = n + 1
      /\ \A i \in 1 .. n : t[i] = cs[i] /\ i \in 1 .. n + 1
      /\ t[n + 1] = u /\ n + 1 \in 1 .. n + 1
      /\ \A i \in 1 .. n + 1 : i \in 1 .. n \/ i = n + 1
      /\ \A i \in 1 .. n + 1, j \in 1 .. n + 1 : i < j => i \in 1 .. n
  <2> HIDE DEF S
  <2>1. cs \in Seq(S) /\ u \in S
    BY <1>1 DEF S
  <2> QED
    BY <2>1, Appended
<1>6. Precedes(c, u) /\ Precedes(c, v)
  BY <1>1, <1>2, Zenon DEF Precedes
<1>7. \A i \in 1 .. n : Precedes(cs[i], u) /\ Precedes(cs[i], v)
  BY <1>1, <1>2, Zenon DEF Precedes
<1> HIDE DEF S, n, t
<1>8. ASSUME NEW i \in 1 .. n + 1
      PROVE  t[i] # <<>> /\ Sorted(t[i]) /\ Precedes(c, t[i]) /\ Precedes(t[i], v)
  BY <1>1, <1>2, <1>5, <1>6, <1>7
<1>9. ASSUME NEW i \in 1 .. n + 1, NEW j \in 1 .. n + 1, i < j PROVE Precedes(t[i], t[j])
  <2>1. i \in 1 .. n /\ (j \in 1 .. n \/ j = n + 1)
    BY <1>5, <1>9
  <2> QED
    BY <2>1, <1>1, <1>5, <1>7, <1>9
<1>10. Pipeline(c, t, v)
  <2>1. v \in S
    BY DEF S
  <2> QED
    BY <2>1, <1>1, <1>2, <1>5, <1>6, <1>8, <1>9 DEF Pipeline, S
<1> QED
  BY <1>4, <1>10 DEF t

\* Bytes that come after all others go to the end of the wire.
LEMMA WriteOn ==
    ASSUME NEW c, NEW cs, NEW w, Pipeline(c, cs, w), NEW t \in Seq(Tags), Sorted(t),
           \A b \in InQueue(c, cs, w), x \in ToSet(t) : Before(b, x)
    PROVE  /\ Pipeline(c, cs, w \o t)
           /\ InQueue(c, cs, w \o t) = InQueue(c, cs, w) \cup ToSet(t)
<1> DEFINE u == w \o t
<1>1. /\ c \in Seq(Tags) /\ w \in Seq(Tags) /\ cs \in Seq(Seq(Tags))
      /\ Sorted(c) /\ Sorted(w) /\ Precedes(c, w)
      /\ \A i \in 1 .. Len(cs) :
            cs[i] # <<>> /\ Sorted(cs[i]) /\ Precedes(c, cs[i]) /\ Precedes(cs[i], w)
      /\ \A i, j \in 1 .. Len(cs) : i < j => Precedes(cs[i], cs[j])
  BY Zenon DEF Pipeline
<1>2. /\ \A i \in 1 .. Len(cs) : ToSet(cs[i]) \subseteq InQueue(c, cs, w)
      /\ ToSet(c) \subseteq InQueue(c, cs, w) /\ ToSet(w) \subseteq InQueue(c, cs, w)
  BY <1>1, InQueueIs
<1>3. Precedes(c, t) /\ Precedes(w, t) /\ \A i \in 1 .. Len(cs) : Precedes(cs[i], t)
  <2>1. \A i \in 1 .. Len(cs) : \A b \in ToSet(cs[i]) : b \in InQueue(c, cs, w)
    BY <1>2
  <2>2. (\A b \in ToSet(c) : b \in InQueue(c, cs, w)) /\ \A b \in ToSet(w) : b \in InQueue(c, cs, w)
    BY <1>2
  <2> QED
    BY <2>1, <2>2, Zenon DEF Precedes
<1>4. u \in Seq(Tags) /\ Halved(u, w, t) /\ Sorted(u)
  BY <1>1, <1>3, JoinSorted
<1> HIDE DEF u
<1>5. ToSet(u) = ToSet(w) \cup ToSet(t)
  BY <1>4 DEF Halved
<1>6. Precedes(c, u) /\ \A i \in 1 .. Len(cs) : Precedes(cs[i], u)
  <2>1. \A x : x \in ToSet(u) <=> x \in ToSet(w) \/ x \in ToSet(t)
    BY <1>5
  <2> QED
    BY <2>1, <1>1, <1>3, Zenon DEF Precedes
<1>7. Pipeline(c, cs, u)
  BY <1>1, <1>4, <1>6, Zenon DEF Pipeline
<1>8. InQueue(c, cs, u) = InQueue(c, cs, w) \cup ToSet(t)
  BY <1>5, Zenon DEF InQueue
<1> QED
  BY <1>7, <1>8 DEF u

Queue == InQueue(chunk, chunks, wire)

\* What is under way is in the order it was written in; it was written, and after all
\* that has been looked at.
InboundInv ==
    /\ Pipeline(chunk, chunks, wire)
    /\ \A i \in 1 .. Len(chunks) : Len(chunks[i]) <= ChunkMax
    /\ Queue \subseteq Written /\ dropped \subseteq Written
    /\ \A b \in Written \ (dropped \cup Queue), q \in Queue : Before(b, q)

\* The bytes that never arrived, or not yet.
LEMMA MissingIs == Missing = dropped \cup Queue
<1>1. UNION {ToSet(c) : c \in {wire, chunk} \cup ToSet(chunks)} = Queue
  BY Zenon DEF Queue, InQueue
<1> QED
  BY <1>1 DEF Missing

\* The decoder has taken the first byte of all that are under way.
Taken(h) ==
    /\ h \in Queue /\ Queue = {h} \cup Queue' /\ \A b \in Queue' : Before(h, b)
    /\ dropped' = dropped /\ requests' = requests

DecodeOf(h) ==
    LET byte == ByteOf(h)
        record == IF byte = 0 THEN UsbDecode(encoded) ELSE <<>>
    IN
    /\ encoded' = IF byte = 0 THEN Rest(encoded) ELSE Collected(encoded, byte)
    /\ IF record # <<>>
       THEN handled' = Append(handled, record) /\ Handle(record)
       ELSE UNCHANGED <<returns, peer, handled, torn, faults>>
    /\ UNCHANGED host

\* Decode takes the first byte under way, wherever it is.
LEMMA DecodeTakes ==
    ASSUME TypeOK, InboundInv, Decode
    PROVE  /\ \E h : Taken(h) /\ DecodeOf(h)
           /\ Pipeline(chunk', chunks', wire')
           /\ \A i \in 1 .. Len(chunks') : Len(chunks'[i]) <= ChunkMax
           /\ Len(chunks') <= ChunkQueue /\ Len(chunk') <= ChunkMax
<1> DEFINE current == IF chunk = <<>> THEN Head(chunks) ELSE chunk
           rest == IF chunk = <<>> THEN Tail(chunks) ELSE chunks
           h == Head(current)
<1>1. /\ chunk # <<>> \/ chunks # <<>>
      /\ chunks' = rest /\ chunk' = Tail(current)
      /\ wire' = wire /\ requests' = requests /\ dropped' = dropped
  BY Zenon DEF Decode
<1>2. DecodeOf(h)
  BY Zenon DEF Decode, DecodeOf
<1>3. /\ Pipeline(current, rest, wire) /\ current # <<>>
      /\ InQueue(current, rest, wire) = Queue
      /\ Len(current) <= ChunkMax /\ Len(rest) <= ChunkQueue
      /\ \A i \in 1 .. Len(rest) : Len(rest[i]) <= ChunkMax
  <2>1. CASE chunk = <<>>
    <3>1. Pipeline(<<>>, chunks, wire) /\ chunks # <<>>
      BY <1>1, <2>1, Zenon DEF InboundInv
    <3>2. /\ Pipeline(Head(chunks), Tail(chunks), wire) /\ Head(chunks) # <<>>
          /\ Head(chunks) = chunks[1]
          /\ InQueue(Head(chunks), Tail(chunks), wire) = InQueue(<<>>, chunks, wire)
          /\ Len(Tail(chunks)) = Len(chunks) - 1 /\ 1 \in 1 .. Len(chunks)
          /\ \A i \in 1 .. Len(chunks) - 1 :
                Tail(chunks)[i] = chunks[i + 1] /\ i + 1 \in 1 .. Len(chunks)
      BY <3>1, NextChunk
    <3>3. current = Head(chunks) /\ rest = Tail(chunks)
      BY <2>1
    <3>4. \A i \in 1 .. Len(chunks) : Len(chunks[i]) <= ChunkMax
      BY DEF InboundInv
    <3> DEFINE n == Len(chunks)
    <3>5. n \in Nat /\ n <= ChunkQueue /\ ChunkQueue \in Nat
      BY UsbAssumption DEF TypeOK
    <3> HIDE DEF current, rest, n
    <3>6. n - 1 <= ChunkQueue
      BY <3>5
    <3>7. \A i \in 1 .. Len(rest) : Len(rest[i]) <= ChunkMax
      BY <3>2, <3>3, <3>4
    <3>8. Len(current) <= ChunkMax
      BY <3>2, <3>3, <3>4
    <3>9. InQueue(current, rest, wire) = Queue
      BY <2>1, <3>2, <3>3, Zenon DEF Queue
    <3> QED
      BY <3>2, <3>3, <3>6, <3>7, <3>8, <3>9 DEF n
  <2>2. CASE chunk # <<>>
    <3>1. current = chunk /\ rest = chunks
      BY <2>2
    <3>2. Len(chunk) <= ChunkMax /\ Len(chunks) <= ChunkQueue
      BY DEF TypeOK
    <3> HIDE DEF current, rest
    <3> QED
      BY <2>2, <3>1, <3>2 DEF InboundInv, Queue
  <2> QED
    BY <2>1, <2>2
<1> HIDE DEF current, rest
<1>4. /\ Pipeline(Tail(current), rest, wire) /\ h \in Queue
      /\ Queue = {h} \cup InQueue(Tail(current), rest, wire)
      /\ \A b \in InQueue(Tail(current), rest, wire) : Before(h, b)
  BY <1>3, TakeHere
<1>5. Queue' = InQueue(Tail(current), rest, wire)
  BY <1>1 DEF Queue
<1>6. Taken(h)
  BY <1>1, <1>4, <1>5, Zenon DEF Taken
<1>7. Pipeline(chunk', chunks', wire')
  BY <1>1, <1>4
<1>8. Len(Tail(current)) <= ChunkMax
  <2>1. current \in Seq(Tags)
    BY <1>3 DEF Pipeline
  <2>2. Len(Tail(current)) = Len(current) - 1 /\ Len(current) \in Nat
    BY <1>3, <2>1, HeadTailProperties
  <2> DEFINE n == Len(current)
             m == Len(Tail(current))
  <2>3. m = n - 1 /\ n \in Nat /\ n <= ChunkMax /\ ChunkMax \in Nat
    BY <1>3, <2>2, UsbAssumption
  <2> HIDE DEF m, n
  <2>4. m <= ChunkMax
    BY <2>3
  <2> QED
    BY <2>4 DEF m
<1> QED
  BY <1>1, <1>2, <1>3, <1>6, <1>7, <1>8

\* Taking it keeps the order of what is under way.
LEMMA TakenIs ==
    ASSUME InboundInv, NEW h, Taken(h), Pipeline(chunk', chunks', wire'),
           \A i \in 1 .. Len(chunks') : Len(chunks'[i]) <= ChunkMax
    PROVE  InboundInv'
<1>1. /\ h \in Queue /\ Queue = {h} \cup Queue' /\ (\A b \in Queue' : Before(h, b))
      /\ dropped' = dropped /\ requests' = requests
  BY DEF Taken
<1>2. Written' = Written
  BY <1>1 DEF Written, E
<1>3. Queue \subseteq Written /\ dropped \subseteq Written
      /\ \A b \in Written \ (dropped \cup Queue), q \in Queue : Before(b, q)
  BY DEF InboundInv
<1>4. Queue' \subseteq Written /\ dropped' \subseteq Written
  BY <1>1, <1>3
<1>5. ASSUME NEW b \in Written \ (dropped \cup Queue'), NEW q \in Queue' PROVE Before(b, q)
  <2>1. b = h \/ b \in Written \ (dropped \cup Queue)
    BY <1>1, <1>5
  <2>2. q \in Queue
    BY <1>1
  <2> QED
    BY <2>1, <2>2, <1>1, <1>3
<1> QED
  BY <1>1, <1>2, <1>4, <1>5 DEF InboundInv

\* rx_callback keeps it too, and loses no byte from the books.
LEMMA ReceptionKeeps ==
    ASSUME TypeOK, InboundInv, RxCallback
    PROVE  /\ InboundInv' /\ Len(chunks') <= ChunkQueue
           /\ Queue' \subseteq Queue /\ dropped' \cup Queue' = dropped \cup Queue
           /\ dropped \subseteq dropped' /\ faults' \in 0 .. MaxFaults
           /\ UNCHANGED <<chunk, encoded, returns, peer, host, requests, handled>>
<1>1. PICK n \in 1 .. ChunkMax :
        /\ n <= Len(wire)
        /\ wire' = SubSeq(wire, n + 1, Len(wire))
        /\ \/ /\ Len(chunks) < ChunkQueue
              /\ chunks' = Append(chunks, SubSeq(wire, 1, n)) /\ UNCHANGED <<dropped, faults>>
           \/ /\ Len(chunks) = ChunkQueue /\ faults < MaxFaults /\ faults' = faults + 1
              /\ dropped' = dropped \cup ToSet(SubSeq(wire, 1, n)) /\ UNCHANGED chunks
  BY DEF RxCallback
<1>2. UNCHANGED <<chunk, encoded, returns, peer, host, requests, handled>>
  BY DEF RxCallback
<1> DEFINE u == SubSeq(wire, 1, n)
           v == SubSeq(wire, n + 1, Len(wire))
<1>3. /\ Pipeline(chunk, chunks, wire) /\ wire \in Seq(Tags) /\ Sorted(wire) /\ chunk \in Seq(Tags)
      /\ chunks \in Seq(Seq(Tags))
  BY DEF InboundInv, Pipeline
<1>4. u \in Seq(Tags) /\ Len(u) = n /\ v \in Seq(Tags) /\ Halved(wire, u, v) /\ n \in Nat /\ n >= 1
      /\ n <= ChunkMax
  <2>1. n \in Nat /\ n >= 1 /\ n <= ChunkMax
    BY UsbAssumption
  <2> QED
    BY <2>1, <1>1, <1>3, SplitSorted
<1>5. wire' = v /\ chunk' = chunk
  BY <1>1, <1>2
<1> HIDE DEF u, v
<1>6. u # <<>>
  BY <1>4
<1>7. ToSet(wire) = ToSet(u) \cup ToSet(v) /\ Sorted(v)
  BY <1>4 DEF Halved
<1>8. \A i \in 1 .. Len(chunks) : Len(chunks[i]) <= ChunkMax
  BY DEF InboundInv
<1>q. Queue' = InQueue(chunk', chunks', wire') /\ Queue = InQueue(chunk, chunks, wire)
  BY DEF Queue
<1>t. Len(chunks) \in Nat /\ Len(chunks) <= ChunkQueue /\ ChunkQueue \in Nat /\ MaxFaults \in Nat
      /\ faults \in 0 .. MaxFaults
  BY UsbAssumption, <1>3 DEF TypeOK
<1>9. /\ Pipeline(chunk', chunks', wire') /\ Queue' \subseteq Queue
      /\ dropped' \cup Queue' = dropped \cup Queue /\ dropped \subseteq dropped'
      /\ \A i \in 1 .. Len(chunks') : Len(chunks'[i]) <= ChunkMax
      /\ Len(chunks') <= ChunkQueue /\ faults' \in 0 .. MaxFaults
  <2>1. CASE /\ Len(chunks) < ChunkQueue
             /\ chunks' = Append(chunks, u) /\ UNCHANGED <<dropped, faults>>
    <3>1. /\ Pipeline(chunk, Append(chunks, u), v)
          /\ InQueue(chunk, Append(chunks, u), v) = InQueue(chunk, chunks, wire)
      BY <1>3, <1>4, <1>6, Arrive
    <3>2. Queue' = Queue
      BY <1>5, <1>q, <2>1, <3>1
    <3> DEFINE S == Seq(Tags)
               m == Len(chunks)
    <3>3. u \in S /\ chunks \in Seq(S)
      BY <1>3, <1>4
    <3> HIDE DEF S
    <3>4. /\ Len(chunks') = m + 1 /\ chunks'[m + 1] = u
          /\ \A i \in 1 .. m : chunks'[i] = chunks[i]
          /\ \A i \in 1 .. m + 1 : i \in 1 .. m \/ i = m + 1
      BY <2>1, <3>3, Appended
    <3> HIDE DEF m
    <3>5. \A i \in 1 .. m : Len(chunks[i]) <= ChunkMax
      BY <1>8 DEF m
    <3>6. \A i \in 1 .. m + 1 : Len(chunks'[i]) <= ChunkMax
      BY <3>4, <3>5, <1>4
    <3>7. m + 1 <= ChunkQueue
      BY <1>t, <2>1 DEF m
    <3> QED
      BY <1>5, <1>t, <2>1, <3>1, <3>2, <3>4, <3>6, <3>7
  <2>2. CASE /\ faults < MaxFaults /\ faults' = faults + 1
             /\ dropped' = dropped \cup ToSet(u) /\ UNCHANGED chunks
    <3>1. Pipeline(chunk, chunks, v) /\ InQueue(chunk, chunks, v) \subseteq InQueue(chunk, chunks, wire)
      BY <1>3, <1>4, <1>7, Narrower
    <3>2. InQueue(chunk, chunks, wire) = InQueue(chunk, chunks, v) \cup ToSet(u)
      BY <1>7, Zenon DEF InQueue
    <3>3. faults' \in 0 .. MaxFaults
      BY <1>t, <2>2
    <3>4. Queue' = InQueue(chunk, chunks, v)
      BY <1>5, <1>q, <2>2
    <3>5. Pipeline(chunk', chunks', wire')
      BY <1>5, <2>2, <3>1
    <3>6. /\ \A i \in 1 .. Len(chunks') : Len(chunks'[i]) <= ChunkMax
          /\ Len(chunks') <= ChunkQueue
      BY <1>8, <1>t, <2>2
    <3> QED
      BY <1>q, <2>2, <3>1, <3>2, <3>3, <3>4, <3>5, <3>6
  <2> QED
    BY <1>1, <2>1, <2>2 DEF u
<1>10. Written' = Written
  BY <1>2 DEF Written, E
<1>11. /\ Queue \subseteq Written /\ dropped \subseteq Written
       /\ \A b \in Written \ (dropped \cup Queue), q \in Queue : Before(b, q)
  BY DEF InboundInv
<1>12. InboundInv'
  <2>1. Queue' \subseteq Written /\ dropped' \subseteq Written
    BY <1>9, <1>11
  <2>2. \A b \in Written \ (dropped' \cup Queue'), q \in Queue' : Before(b, q)
    BY <1>9, <1>11
  <2> QED
    BY <1>9, <1>10, <2>1, <2>2 DEF InboundInv
<1> QED
  BY <1>2, <1>9, <1>12

\* The bytes of a request are in order.
LEMMA BytesAre ==
    ASSUME NEW kind \in Kind, NEW id \in Id
    PROVE  /\ Bytes(id, kind) \in Seq(Tags) /\ Sorted(Bytes(id, kind))
           /\ ToSet(Bytes(id, kind)) = {<<id, i>> : i \in 1 .. Len(Encoding[kind][id])}
           /\ Len(Encoding[kind][id]) \in Nat /\ Len(Encoding[kind][id]) >= 2
<1> DEFINE e == Encoding[kind][id]
           t == Bytes(id, kind)
           n == Len(e)
<1>1. e \in Seq(Nat) /\ n \in 2 .. EncodedMax
  BY EncodingIs DEF IsEncoding
<1>2. n \in Nat /\ n >= 2 /\ DOMAIN e = 1 .. n /\ id \in Nat /\ id \in Id
  <2>1. n \in Nat /\ DOMAIN e = 1 .. n
    BY <1>1
  <2>2. n >= 2
    <3> HIDE DEF n
    <3> QED
      BY <1>1, <2>1
  <2> QED
    BY <2>1, <2>2, UsbAssumption DEF Id
<1>3. t = [i \in 1 .. n |-> <<id, i>>]
  BY <1>2, Zenon DEF Bytes
<1> HIDE DEF t, n, e
<1>4. t \in Seq(Tags) /\ Len(t) = n /\ DOMAIN t = 1 .. n /\ \A i \in 1 .. n : t[i] = <<id, i>>
  <2>1. \A i \in 1 .. n : <<id, i>> \in Tags
    BY <1>2 DEF Tags
  <2> HIDE DEF Tags
  <2> QED
    BY <1>2, <1>3, <2>1
<1>5. Sorted(t)
  <2> SUFFICES ASSUME NEW i \in 1 .. n, NEW j \in 1 .. n, i < j PROVE Before(t[i], t[j])
    BY <1>4 DEF Sorted
  <2>1. t[i] = <<id, i>> /\ t[j] = <<id, j>>
    BY <1>4
  <2> QED
    BY <2>1 DEF Before
<1>6. ToSet(t) = {<<id, i>> : i \in 1 .. n}
  BY <1>4 DEF ToSet
<1> QED
  BY <1>2, <1>4, <1>5, <1>6 DEF e, t, n

\* A request is written: its bytes are under way, and last.
Wrote(k) ==
    /\ k = Len(requests) + 1 /\ k \in Id
    /\ Len(requests') = k /\ \A j \in 1 .. Len(requests) : requests'[j] = requests[j]
    /\ requests'[k] \in Kind /\ dropped' = dropped
    /\ Queue' = Queue \cup {<<k, i>> : i \in 1 .. Len(E(k)')}

\* A request adds its bytes to those written.
LEMMA WrittenGrows ==
    ASSUME requests \in Seq(Kind), NEW k, Wrote(k)
    PROVE  /\ Len(requests) \in Nat /\ k \in Nat
           /\ \A j \in 1 .. k : j \in 1 .. Len(requests) \/ j = k
           /\ \A j \in 1 .. Len(requests) : j \in 1 .. k /\ j < k /\ E(j)' = E(j)
           /\ \A b \in Written' : b \in Written \/ b \in {<<k, i>> : i \in 1 .. Len(E(k)')}
           /\ \A b \in Written : b \in Written' /\ b[1] < k /\ b[1] \in 1 .. Len(requests)
<1> DEFINE n == Len(requests)
<1>1. n \in Nat /\ k = n + 1 /\ k \in Id /\ Len(requests') = k
      /\ \A j \in 1 .. n : requests'[j] = requests[j]
  BY DEF Wrote
<1> HIDE DEF n
<1>2. /\ k \in Nat /\ \A j \in 1 .. k : j \in 1 .. n \/ j = k
      /\ \A j \in 1 .. n : j \in 1 .. k /\ j < k
  BY <1>1
<1>3. \A j \in 1 .. n : E(j)' = E(j)
  BY <1>1 DEF E
<1>4. ASSUME NEW b \in Written' PROVE b \in Written \/ b \in {<<k, i>> : i \in 1 .. Len(E(k)')}
  <2>1. b \in Id \X Nat /\ b[1] \in 1 .. k /\ b[2] \in 1 .. Len(E(b[1])')
    BY <1>1 DEF Written
  <2>2. CASE b[1] \in 1 .. n
    <3>1. E(b[1])' = E(b[1])
      BY <1>3, <2>2
    <3> QED
      BY <2>1, <2>2, <3>1 DEF Written, n
  <2>3. CASE b[1] = k
    <3>1. b = <<k, b[2]>> /\ b[2] \in 1 .. Len(E(k)')
      BY <2>1, <2>3
    <3> QED
      BY <3>1
  <2> QED
    BY <1>2, <2>1, <2>2, <2>3
<1>5. ASSUME NEW b \in Written PROVE b \in Written' /\ b[1] < k /\ b[1] \in 1 .. n
  <2>1. b \in Id \X Nat /\ b[1] \in 1 .. n /\ b[2] \in 1 .. Len(E(b[1]))
    BY DEF Written, n
  <2>2. E(b[1])' = E(b[1]) /\ b[1] \in 1 .. k /\ b[1] < k
    BY <1>2, <1>3, <2>1
  <2> QED
    BY <1>1, <2>1, <2>2 DEF Written
<1> QED
  BY <1>1, <1>2, <1>3, <1>4, <1>5 DEF n

\* They come after all others.
LEMMA RequestKeeps ==
    ASSUME TypeOK, InboundInv, NEW kind \in Kind, HostRequest(kind)
    PROVE  /\ InboundInv' /\ \E k : Wrote(k)
           /\ requests' \in Seq(Kind) /\ Len(requests') <= MaxRequests
           /\ UNCHANGED <<chunks, chunk, encoded, returns, peer, handled, dropped, faults>>
<1> DEFINE n == Len(requests)
<1>0. requests \in Seq(Kind)
  BY DEF TypeOK
<1>k. PICK k : k = n + 1
  OBVIOUS
<1> DEFINE t == Bytes(k, kind)
<1>1. /\ n \in Nat /\ n < MaxRequests /\ requests' = Append(requests, kind) /\ wire' = wire \o t
      /\ UNCHANGED <<chunks, chunk, encoded, returns, peer, handled, dropped, faults>>
      /\ MaxRequests \in Nat
  BY <1>0, <1>k, UsbAssumption DEF HostRequest
<1>2. k \in Id /\ k \in Nat /\ k <= MaxRequests
  <2> HIDE DEF n
  <2> QED
    BY <1>k, <1>1 DEF Id
<1>3. /\ requests' \in Seq(Kind) /\ Len(requests') = k
      /\ (\A j \in 1 .. n : requests'[j] = requests[j]) /\ requests'[k] = kind
  BY <1>0, <1>k, <1>1, Appended
<1>4. /\ t \in Seq(Tags) /\ Sorted(t)
      /\ ToSet(t) = {<<k, i>> : i \in 1 .. Len(Encoding[kind][k])}
  BY <1>2, BytesAre
<1> HIDE DEF t
<1>5. E(k)' = Encoding[kind][k]
  BY <1>3, Zenon DEF E
<1> HIDE DEF n
<1>6. Pipeline(chunk, chunks, wire) /\ Queue \subseteq Written /\ dropped \subseteq Written
      /\ \A b \in Written \ (dropped \cup Queue), q \in Queue : Before(b, q)
  BY DEF InboundInv
<1>7. \A b \in Written : b[1] < k
  <2>1. ASSUME NEW b \in Written PROVE b[1] < n + 1
    <3>1. b[1] \in 1 .. n
      BY DEF Written, n
    <3> QED
      BY <3>1, <1>1
  <2> QED
    BY <2>1, <1>k
<1>8. \A b \in Written, x \in ToSet(t) : Before(b, x)
  <2> SUFFICES ASSUME NEW b \in Written, NEW i \in 1 .. Len(Encoding[kind][k])
               PROVE  Before(b, <<k, i>>)
    BY <1>4
  <2> QED
    BY <1>7 DEF Before
<1>9. Pipeline(chunk, chunks, wire \o t) /\ InQueue(chunk, chunks, wire \o t) = Queue \cup ToSet(t)
  <2>1. \A b \in InQueue(chunk, chunks, wire), x \in ToSet(t) : Before(b, x)
    BY <1>6, <1>8 DEF Queue
  <2> QED
    BY <1>4, <1>6, <2>1, WriteOn DEF Queue
<1>10. Queue' = Queue \cup ToSet(t)
  <2>1. Queue' = InQueue(chunk', chunks', wire')
    BY DEF Queue
  <2> QED
    BY <1>1, <1>9, <2>1
<1>11. Wrote(k)
  <2>1. Queue' = Queue \cup {<<k, i>> : i \in 1 .. Len(E(k)')}
    BY <1>4, <1>5, <1>10
  <2>2. k = Len(requests) + 1 /\ n = Len(requests) /\ requests'[k] \in Kind /\ dropped' = dropped
    BY <1>k, <1>1, <1>3 DEF n
  <2> QED
    BY <1>2, <1>3, <2>1, <2>2, Zenon DEF Wrote
<1>12. /\ \A b \in Written' : b \in Written \/ b \in {<<k, i>> : i \in 1 .. Len(E(k)')}
       /\ \A b \in Written : b \in Written'
  BY <1>0, <1>11, WrittenGrows
<1>13. InboundInv'
  <2>1. Pipeline(chunk', chunks', wire')
    BY <1>1, <1>9
  <2>2. \A i \in 1 .. Len(chunks') : Len(chunks'[i]) <= ChunkMax
    BY <1>1 DEF InboundInv
  <2>3. ToSet(t) \subseteq Written'
    <3> SUFFICES ASSUME NEW i \in 1 .. Len(E(k)') PROVE <<k, i>> \in Written'
      BY <1>4, <1>5
    <3>1. Len(E(k)') \in Nat
      BY <1>2, <1>5, BytesAre
    <3>2. <<k, i>> \in Id \X Nat /\ k \in 1 .. Len(requests')
      BY <1>2, <1>3, <3>1 DEF Id
    <3> QED
      BY <3>2 DEF Written
  <2>4. Queue' \subseteq Written' /\ dropped' \subseteq Written'
    BY <1>1, <1>6, <1>10, <1>12, <2>3
  <2>5. ASSUME NEW b \in Written' \ (dropped' \cup Queue'), NEW q \in Queue' PROVE Before(b, q)
    <3>1. b \in Written \ (dropped \cup Queue)
      BY <1>1, <1>4, <1>5, <1>10, <1>12, <2>5
    <3>2. q \in Queue \/ q \in ToSet(t)
      BY <1>10
    <3> QED
      BY <3>1, <3>2, <1>6, <1>8
  <2> QED
    BY <2>1, <2>2, <2>4, <2>5 DEF InboundInv
<1> QED
  BY <1>1, <1>2, <1>3, <1>11, <1>13

\* A record is that of a request, and has its number.
LEMMA RecordIs ==
    ASSUME NEW r \in Record
    PROVE  /\ \E kind \in Kind, id \in Id : r = RecordOf(kind, id)
           /\ r[3] \in Id /\ r # <<>>
<1>1. PICK kind \in Kind, id \in Id : r = RecordOf(kind, id)
  BY RecordAssumption
<1>2. r[3] = id
  BY <1>1, RecordShape
<1>3. r # <<>>
  <2>1. r \in Seq(Nat) /\ Len(r) \in 1 .. RawMax
    BY CobsAssumption
  <2>2. Len(r) # 0
    BY <2>1, CobsAssumption
  <2> QED
    BY <2>1, <2>2, EmptySeq
<1> QED
  BY <1>1, <1>2, <1>3

\* What is decoded, if anything, is a record.
LEMMA DecodedIs ==
    ASSUME encoded \in Seq(Nat), UsbDecode(encoded) # <<>>
    PROVE  UsbDecode(encoded) \in Record
  BY DecodeIn

\* usb_handler keeps the types.
LEMMA HandleOK ==
    ASSUME NEW r \in Record, Handle(r), returns \in Seq(Frame \X {1, 2}), faults \in 0 .. MaxFaults,
           peer \in PeerType
    PROVE  returns' \in Seq(Frame \X {1, 2}) /\ faults' \in 0 .. MaxFaults /\ peer' \in PeerType
<1>1. PICK ok \in BOOLEAN :
        /\ Sends(Response(r[3], ok))
        /\ peer' = IF r[1] = Type("BACKUP") /\ ok THEN [peer EXCEPT !.asked = Append(@, r[3])]
                   ELSE peer
  BY DEF Handle
<1>2. r[3] \in Id
  BY RecordIs
<1>3. Response(r[3], ok) \in Frame
  BY <1>2, FrameIs
<1>4. returns' \in Seq(Frame \X {1, 2}) /\ faults' \in 0 .. MaxFaults
  <2> DEFINE f == Response(r[3], ok)
  <2>1. f \in Frame /\ Sends(f)
    BY <1>1, <1>3
  <2> HIDE DEF f
  <2> QED
    BY <2>1, SendsOK
<1>5. peer' \in PeerType
  <2> DEFINE a == Append(peer.asked, r[3])
  <2>1. a \in Seq(Id)
    <3>1. peer.asked \in Seq(Id)
      BY DEF PeerType
    <3> QED
      BY <3>1, <1>2, AppendProperties
  <2>2. peer' = peer \/ peer' = [peer EXCEPT !.asked = a]
    BY <1>1
  <2> HIDE DEF a
  <2> QED
    BY <2>1, <2>2 DEF PeerType
<1> QED
  BY <1>4, <1>5

\* So does the decoder, with a byte that was written.
LEMMA DecodeOK ==
    ASSUME TypeOK, InboundInv, NEW h \in Queue, DecodeOf(h)
    PROVE  /\ ByteOf(h) \in Nat
           /\ encoded' \in Seq(Nat) /\ Len(encoded') <= EncodedMax
           /\ handled' \in Seq(Record) /\ returns' \in Seq(Frame \X {1, 2})
           /\ faults' \in 0 .. MaxFaults /\ peer' \in PeerType /\ host' = host
<1> DEFINE byte == ByteOf(h)
           record == IF byte = 0 THEN UsbDecode(encoded) ELSE <<>>
<1>1. /\ encoded' = IF byte = 0 THEN Rest(encoded) ELSE Collected(encoded, byte)
      /\ IF record # <<>>
         THEN handled' = Append(handled, record) /\ Handle(record)
         ELSE UNCHANGED <<returns, peer, handled, torn, faults>>
      /\ host' = host
  BY Zenon DEF DecodeOf
<1>2. /\ requests \in Seq(Kind) /\ Len(requests) <= MaxRequests
      /\ encoded \in Seq(Nat) /\ Len(encoded) <= EncodedMax /\ handled \in Seq(Record)
      /\ returns \in Seq(Frame \X {1, 2}) /\ faults \in 0 .. MaxFaults /\ peer \in PeerType
  BY DEF TypeOK, PeerType
<1>3. byte \in Nat /\ EncodedMax \in Nat
  <2>1. h \in Written
    BY DEF InboundInv
  <2>2. h \in Id \X Nat /\ h[1] \in 1 .. Len(requests) /\ h[2] \in 1 .. Len(E(h[1]))
    BY <2>1 DEF Written
  <2>3. ByteOf(<<h[1], h[2]>>) \in Nat /\ EncodedMax \in Nat
    BY <1>2, <2>2, ByteIs
  <2>4. h = <<h[1], h[2]>>
    BY <2>2
  <2> QED
    BY <2>3, <2>4
<1> HIDE DEF byte
<1>4. encoded' \in Seq(Nat) /\ Len(encoded') <= EncodedMax
  <2>1. CASE byte = 0
    <3>1. encoded' = <<>>
      BY <1>1, <2>1 DEF Rest
    <3> QED
      BY <3>1, <1>3
  <2>2. CASE byte # 0 /\ Len(encoded) < EncodedMax
    <3>1. encoded' = Append(encoded, byte)
      BY <1>1, <2>2, Zenon DEF Collected
    <3>2. encoded' \in Seq(Nat) /\ Len(encoded') = Len(encoded) + 1
      BY <1>2, <1>3, <3>1, AppendProperties
    <3> QED
      BY <1>2, <1>3, <2>2, <3>2
  <2>3. CASE byte # 0 /\ ~(Len(encoded) < EncodedMax)
    <3>1. encoded' = <<>>
      BY <1>1, <2>3, Zenon DEF Collected
    <3> QED
      BY <3>1, <1>3
  <2> QED
    BY <2>1, <2>2, <2>3
<1>5. record # <<>> => record \in Record
  BY <1>2, DecodedIs
<1> HIDE DEF record
<1>6. CASE record # <<>>
  <2>1. handled' \in Seq(Record)
    <3>1. handled' = Append(handled, record)
      BY <1>1, <1>6, Zenon
    <3>2. record \in Record
      BY <1>5, <1>6
    <3> QED
      BY <1>2, <3>1, <3>2, AppendProperties
  <2>2. returns' \in Seq(Frame \X {1, 2}) /\ faults' \in 0 .. MaxFaults /\ peer' \in PeerType
    BY <1>1, <1>2, <1>5, <1>6, HandleOK
  <2> QED
    BY <1>1, <1>3, <1>4, <2>1, <2>2 DEF byte
<1>7. CASE record = <<>>
  BY <1>1, <1>2, <1>3, <1>4, <1>7 DEF byte
<1> QED
  BY <1>6, <1>7

\* The properties of the parts that TypeOK has.
LEMMA TypeParts ==
    TypeOK <=>
        /\ wire \in Seq(Id \X Nat) /\ chunks \in Seq(Seq(Id \X Nat)) /\ Len(chunks) <= ChunkQueue
        /\ chunk \in Seq(Id \X Nat) /\ Len(chunk) <= ChunkMax
        /\ dropped \subseteq Id \X Nat
        /\ encoded \in Seq(Nat) /\ Len(encoded) <= EncodedMax
        /\ returns \in Seq(Frame \X {1, 2}) /\ peer \in PeerType /\ host \in HostType
        /\ requests \in Seq(Kind) /\ Len(requests) <= MaxRequests
        /\ handled \in Seq(Record) /\ torn \in BOOLEAN /\ faults \in 0 .. MaxFaults
  BY Zenon DEF TypeOK, PeerType, HostType

\* The Probe keeps the types and touches nothing of the reception.
LEMMA PeerOK ==
    ASSUME TypeOK, PeerStart \/ PeerBlock \/ PeerRepeat \/ PeerResult
    PROVE  /\ returns' \in Seq(Frame \X {1, 2}) /\ faults' \in 0 .. MaxFaults /\ peer' \in PeerType
           /\ UNCHANGED <<inbound, host, history>>
<1>1. /\ returns \in Seq(Frame \X {1, 2}) /\ faults \in 0 .. MaxFaults /\ peer \in PeerType
      /\ Blocks \in Nat
  BY UsbAssumption, TypeParts
<1>2. /\ peer.asked \in Seq(Id) /\ peer.op \in {0} \cup Id /\ peer.next \in 1 .. Blocks + 1
  BY <1>1 DEF PeerType
<1>3. CASE PeerStart
  <2> DEFINE a == Tail(peer.asked)
             o == Head(peer.asked)
             rest == [peer EXCEPT !.asked = a]
  <2>1. a \in Seq(Id) /\ o \in Id
    BY <1>2, <1>3, HeadTailProperties DEF PeerStart
  <2>2. \/ peer' = [rest EXCEPT !.op = o, !.next = 1] /\ UNCHANGED <<returns, torn, faults>>
        \/ peer' = rest /\ Sends(<<"ERROR">>)
    BY <1>3, Zenon DEF PeerStart
  <2>3. UNCHANGED <<inbound, host, history>>
    BY <1>3 DEF PeerStart, PeerQuiet
  <2> HIDE DEF a, o
  <2>4. rest \in PeerType
    BY <1>1, <2>1 DEF PeerType
  <2>5. 1 \in 1 .. Blocks + 1
    BY <1>1
  <2> HIDE DEF rest
  <2>6. CASE peer' = [rest EXCEPT !.op = o, !.next = 1] /\ UNCHANGED <<returns, torn, faults>>
    <3>1. peer' \in PeerType
      BY <2>1, <2>4, <2>5, <2>6 DEF PeerType
    <3> QED
      BY <1>1, <2>3, <2>6, <3>1
  <2>7. CASE peer' = rest /\ Sends(<<"ERROR">>)
    <3>1. returns' \in Seq(Frame \X {1, 2}) /\ faults' \in 0 .. MaxFaults
      BY <1>1, <2>7, FrameIs, SendsOK
    <3> QED
      BY <2>3, <2>4, <2>7, <3>1
  <2> QED
    BY <2>2, <2>6, <2>7
<1>4. CASE PeerBlock
  <2>1. /\ peer.op # 0 /\ peer.next <= Blocks
        /\ Sends(<<"BLOCK", peer.op, peer.next>>)
        /\ UNCHANGED <<inbound, host, history>>
    BY <1>4, Zenon DEF PeerBlock, PeerQuiet
  <2>n. peer' = [peer EXCEPT !.next = @ + 1]
    BY <1>4, Zenon DEF PeerBlock
  <2> DEFINE f == <<"BLOCK", peer.op, peer.next>>
             n == peer.next + 1
  <2>2. peer.op \in Id /\ peer.next \in 1 .. Blocks /\ n \in 1 .. Blocks + 1
    BY <1>1, <1>2, <2>1
  <2>3. f \in Frame
    BY <2>2, FrameIs
  <2> HIDE DEF f
  <2>4. returns' \in Seq(Frame \X {1, 2}) /\ faults' \in 0 .. MaxFaults
    BY <1>1, <2>1, <2>3, SendsOK DEF f
  <2>5. peer' = [peer EXCEPT !.next = n]
    BY <2>n
  <2> HIDE DEF n
  <2>6. peer' \in PeerType
    BY <1>1, <2>2, <2>5 DEF PeerType
  <2> QED
    BY <2>1, <2>4, <2>6
<1>5. CASE PeerResult
  <2>1. /\ peer.op # 0 /\ peer' = [peer EXCEPT !.op = 0]
        /\ UNCHANGED <<inbound, host, history>>
    BY <1>5, Zenon DEF PeerResult, PeerQuiet
  <2>2. PICK ok \in {peer.next > Blocks, FALSE} : Sends(<<"RESULT", peer.op, ok>>)
    BY <1>5, Zenon DEF PeerResult
  <2> DEFINE f == <<"RESULT", peer.op, ok>>
  <2>3. ok \in BOOLEAN /\ peer.op \in Id
    <3>1. (peer.next > Blocks) \in BOOLEAN
      OBVIOUS
    <3>2. peer.op \in Id
      BY <1>2, <2>1
    <3> QED
      BY <3>1, <3>2, Zenon
  <2>4. f \in Frame
    BY <2>3, FrameIs
  <2> HIDE DEF f
  <2>5. returns' \in Seq(Frame \X {1, 2}) /\ faults' \in 0 .. MaxFaults
    BY <1>1, <2>2, <2>4, SendsOK DEF f
  <2>6. peer' \in PeerType
    BY <1>1, <2>1 DEF PeerType
  <2> QED
    BY <2>1, <2>5, <2>6
<1>6. CASE PeerRepeat
  <2>1. /\ peer.op # 0 /\ peer.next > 1 /\ faults < MaxFaults /\ faults' = faults + 1
        /\ returns' = returns \o Pieces(<<"BLOCK", peer.op, peer.next - 1>>) /\ peer' = peer
        /\ UNCHANGED <<inbound, host, history>>
    BY <1>6, Zenon DEF PeerRepeat, PeerQuiet
  <2> DEFINE f == <<"BLOCK", peer.op, peer.next - 1>>
             S == Frame \X {1, 2}
             x == <<f, 1>>
             y == <<f, 2>>
             t == <<x, y>>
  <2>2. f \in Frame
    BY <1>1, <1>2, <2>1, FrameIs
  <2> HIDE DEF f
  <2>3. x \in S /\ y \in S
    BY <2>2
  <2> HIDE DEF x, y, S
  <2>4. t \in Seq(S)
    BY <2>3
  <2>5. returns' = returns \o t
    BY <2>1, Zenon DEF Pieces, t, x, y, f
  <2> HIDE DEF t
  <2>6. returns' \in Seq(S)
    BY <1>1, <2>4, <2>5, ConcatProperties DEF S
  <2>7. faults' \in 0 .. MaxFaults
    BY <1>1, <2>1, UsbAssumption
  <2> QED
    BY <1>1, <2>1, <2>6, <2>7 DEF S
<1> QED
  BY <1>3, <1>4, <1>5, <1>6

\* So does the host, requests apart.
LEMMA HostOK ==
    ASSUME TypeOK, HostOpen \/ HostEnds \/ HostPending \/ HostRead \/ HostPoll
    PROVE  /\ returns' \in Seq(Frame \X {1, 2}) /\ host' \in HostType
           /\ UNCHANGED <<inbound, peer, requests, handled, dropped, faults>>
<1> DEFINE S == Frame \X {1, 2}
<1>1. returns \in Seq(S) /\ host \in HostType
  BY TypeParts
<1>2. CASE HostOpen
  <2>1. host' = [Process EXCEPT !.at = "IDLE"] /\ UNCHANGED <<inbound, peer, requests, handled, dropped, faults>>
    BY <1>2, Zenon DEF HostOpen, HostQuiet, history
  <2>2. host' \in HostType
    BY <2>1, ProcessOK DEF HostType
  <2>3. PICK n \in 0 .. Len(returns) : returns' = SubSeq(returns, n + 1, Len(returns))
    BY <1>2 DEF HostOpen
  <2> HIDE DEF S
  <2>4. returns' \in Seq(S)
    <3>1. n + 1 \in Int /\ Len(returns) \in Int /\ \A i \in n + 1 .. Len(returns) : returns[i] \in S
      BY <1>1
    <3>2. SubSeq(returns, n + 1, Len(returns)) \in Seq(S)
      BY <3>1, SubSeqProperties
    <3> QED
      BY <2>3, <3>2
  <2> QED
    BY <2>1, <2>2, <2>4 DEF S
<1>3. CASE HostEnds
  BY <1>1, <1>3, ProcessOK DEF HostEnds, HostQuiet, history
<1>4. CASE HostPending
  <2>1. /\ host.pending # <<>> /\ UNCHANGED returns
        /\ UNCHANGED <<inbound, peer, requests, handled, dropped, faults>>
    BY <1>4, Zenon DEF HostPending, HostQuiet, history
  <2> DEFINE f == Head(host.pending)
             after == InBackup(f)
             rest == [after EXCEPT !.pending = Tail(@)]
  <2>2. host' = after \/ host' = rest
    BY <1>4, Zenon DEF HostPending
  <2>3. f \in Frame
    BY <1>1, <2>1, HostFields, HeadTailProperties
  <2>4. after \in HostType
    BY <1>1, <2>3, InBackupOK
  <2> HIDE DEF after
  <2>5. CASE host' = after
    BY <1>1, <2>1, <2>4, <2>5
  <2>6. CASE host' = rest
    <3>1. after.pending # <<>> \/ after.pending = <<>>
      OBVIOUS
    <3> DEFINE p == Tail(after.pending)
    <3>2. after.pending \in Seq(Frame)
      BY <2>4 DEF HostType
    <3>p. Stopped(after) \/ after.pending = host.pending
      <4> DEFINE I(x) == [host EXCEPT !.image = x]
                 z == [host EXCEPT !.at = "IDLE"]
      <4>1. after = host \/ after = Process \/ after = Broken \/ (\E x : after = I(x)) \/ after = z
        BY <1>1, <2>3, InBackupIs DEF after
      <4>2. \A x : I(x).pending = host.pending
        BY <1>1 DEF HostType
      <4>3. z.pending = host.pending
        BY <1>1 DEF HostType
      <4> HIDE DEF I, z
      <4> QED
        BY <4>1, <4>2, <4>3, StoppedIs
    <3>3. CASE Stopped(after)
      <4>1. host' = after
        BY <1>4, <3>3, Zenon DEF HostPending, after
      <4> QED
        BY <1>1, <2>1, <2>4, <4>1
    <3>4. CASE after.pending = host.pending
      <4>1. p \in Seq(Frame)
        BY <2>1, <3>2, <3>4, HeadTailProperties
      <4>2. rest = [after EXCEPT !.pending = p]
        OBVIOUS
      <4> HIDE DEF p, rest
      <4>3. rest \in HostType
        BY <2>4, <4>1, <4>2 DEF HostType
      <4> QED
        BY <1>1, <2>1, <2>6, <4>3
    <3> QED
      BY <3>p, <3>3, <3>4
  <2> QED
    BY <2>2, <2>5, <2>6
<1>5. CASE HostRead
  <2>1. /\ returns # <<>> /\ returns' = Tail(returns)
        /\ UNCHANGED <<inbound, peer, requests, handled, dropped, faults>>
    BY <1>5, Zenon DEF HostRead, HostQuiet, history
  <2> DEFINE f == Head(returns)[1]
             p == Append(host.partial, f)
             after == IF host.at = "REQUEST" THEN InRequest(f) ELSE InBackup(f)
             z == <<>>
             rest == [after EXCEPT !.partial = z]
  <2>2. returns' \in Seq(S) /\ Head(returns) \in S
    <3> HIDE DEF S
    <3> QED
      BY <1>1, <2>1, HeadTailProperties
  <2>3. f \in Frame
    BY <2>2
  <2>4. \/ host' = [host EXCEPT !.partial = p]
        \/ host' = Broken \/ host' = after
        \/ host' = rest
    BY <1>5, Zenon DEF HostRead
  <2>5. after \in HostType
    BY <1>1, <2>3, InRequestOK, InBackupOK
  <2>6. p \in Seq(Frame)
    BY <1>1, <2>3, HostFields, AppendProperties
  <2>7. z \in Seq(Frame)
    OBVIOUS
  <2> HIDE DEF after, p, z
  <2>8. [host EXCEPT !.partial = p] \in HostType
    BY <1>1, <2>6 DEF HostType
  <2>9. rest \in HostType
    BY <2>5, <2>7 DEF HostType
  <2> QED
    BY <2>1, <2>2, <2>4, <2>5, <2>8, <2>9, ProcessOK
<1>6. CASE HostPoll
  <2> DEFINE z == <<>>
  <2>1. /\ host' = [host EXCEPT !.partial = z] /\ UNCHANGED returns
        /\ UNCHANGED <<inbound, peer, requests, handled, dropped, faults>>
    BY <1>6, Zenon DEF HostPoll, HostQuiet, history
  <2>2. z \in Seq(Frame)
    OBVIOUS
  <2> HIDE DEF z
  <2>3. host' \in HostType
    BY <1>1, <2>1, <2>2 DEF HostType
  <2> QED
    BY <1>1, <2>1, <2>3
<1> QED
  BY <1>2, <1>3, <1>4, <1>5, <1>6

\* What nothing touches stays as it is.
LEMMA InboundSame ==
    ASSUME InboundInv, UNCHANGED <<inbound, requests, dropped>>
    PROVE  InboundInv' /\ Queue' = Queue
<1>1. /\ chunk' = chunk /\ chunks' = chunks /\ wire' = wire
      /\ requests' = requests /\ dropped' = dropped
  BY DEF inbound
<1>2. Queue' = Queue
  BY <1>1 DEF Queue
<1>3. Written' = Written
  BY <1>1 DEF Written, E
<1> QED
  BY <1>1, <1>2, <1>3 DEF InboundInv

\* The types and the order hold at first.
LEMMA TypeInit ==
    ASSUME Init
    PROVE  TypeOK /\ InboundInv
<1> DEFINE z == <<>>
<1>1. /\ wire = z /\ chunks = z /\ chunk = z /\ encoded = z /\ returns = z
      /\ peer = [asked |-> z, op |-> 0, next |-> 1] /\ host = Process
      /\ requests = z /\ handled = z /\ dropped = {} /\ torn = FALSE /\ faults = 0
  BY Zenon DEF Init
<1>2. /\ \A S : z \in Seq(S)
      /\ Len(z) = 0 /\ \A b : b \notin ToSet(z)
  BY DEF ToSet
<1>3. EncodedMax \in Nat
  <2>1. z \in Seq(Nat) /\ Len(z) <= RawMax
    BY CobsAssumption
  <2> QED
    BY <2>1, EncodeIs
<1>4. {ChunkMax, ChunkQueue, Blocks, MaxFaults, MaxRequests} \subseteq Nat
      /\ Blocks >= 1
  BY UsbAssumption
<1> HIDE DEF z
<1>5. Queue = {}
  BY <1>1, <1>2 DEF Queue, InQueue
<1>6. peer \in PeerType
  <2>1. 1 \in 1 .. Blocks + 1
    BY <1>4
  <2> QED
    BY <1>1, <1>2, <2>1 DEF PeerType
<1>7. TypeOK
  <2>1. /\ Len(encoded) <= EncodedMax /\ Len(chunk) <= ChunkMax /\ Len(chunks) <= ChunkQueue
        /\ Len(requests) <= MaxRequests /\ faults \in 0 .. MaxFaults
    BY <1>1, <1>2, <1>3, <1>4
  <2>4. torn \in BOOLEAN
    BY <1>1
  <2>2. /\ wire \in Seq(Id \X Nat) /\ chunks \in Seq(Seq(Id \X Nat)) /\ chunk \in Seq(Id \X Nat)
        /\ encoded \in Seq(Nat) /\ returns \in Seq(Frame \X {1, 2})
        /\ requests \in Seq(Kind) /\ handled \in Seq(Record) /\ dropped \subseteq Id \X Nat
    BY <1>1, <1>2
  <2>3. host \in HostType
    BY <1>1, ProcessOK
  <2> QED
    BY <2>1, <2>2, <2>3, <2>4, <1>6, TypeParts
<1>8. InboundInv
  <2>1. \A i : i \notin 1 .. 0
    OBVIOUS
  <2>2. Sorted(z) /\ Precedes(z, z)
    BY <1>2, <2>1 DEF Sorted, Precedes
  <2>3. Pipeline(z, z, z)
    BY <1>2, <2>1, <2>2 DEF Pipeline
  <2>4. /\ Pipeline(chunk, chunks, wire) /\ \A i : i \notin 1 .. Len(chunks)
    BY <1>1, <1>2, <2>1, <2>3
  <2> QED
    BY <1>1, <1>5, <2>4 DEF InboundInv
<1> QED
  BY <1>7, <1>8

\* torn is a Boolean.
LEMMA TornOK ==
    ASSUME torn \in BOOLEAN, [Next]_vars
    PROVE  torn' \in BOOLEAN
<1>1. CASE torn' = torn \/ torn' = TRUE
  BY <1>1
<1>2. ASSUME NEW f, Sends(f) PROVE torn' \in BOOLEAN
  BY <1>2 DEF Sends
<1>3. CASE Decode
  <2>1. torn' = torn \/ \E r : Handle(r)
    BY <1>3, Zenon DEF Decode
  <2> QED
    BY <1>1, <1>2, <2>1, Zenon DEF Handle
<1>4. CASE PeerStart \/ PeerBlock \/ PeerRepeat \/ PeerResult
  BY <1>1, <1>2, <1>4, Zenon DEF PeerStart, PeerBlock, PeerRepeat, PeerResult
<1>5. CASE HostOpen
  <2>1. torn' = ~WholeFrames(returns')
    BY <1>5, Zenon DEF HostOpen
  <2> QED
    BY <2>1
<1>6. CASE RxCallback \/ (\E kind \in Kind : HostRequest(kind)) \/ HostEnds \/ HostPending
           \/ HostRead \/ HostPoll \/ UNCHANGED vars
  BY <1>1, <1>6, Zenon DEF RxCallback, HostRequest, HostEnds, HostPending, HostRead, HostPoll, vars
<1> QED
  BY <1>3, <1>4, <1>5, <1>6, Zenon DEF Next

\* Every step keeps the types and the order of what is under way.
LEMMA TypeStep ==
    ASSUME TypeOK, InboundInv, [Next]_vars
    PROVE  TypeOK' /\ InboundInv'
<1>0. /\ wire \in Seq(Id \X Nat) /\ chunks \in Seq(Seq(Id \X Nat)) /\ Len(chunks) <= ChunkQueue
      /\ chunk \in Seq(Id \X Nat) /\ Len(chunk) <= ChunkMax
      /\ dropped \subseteq Id \X Nat
      /\ encoded \in Seq(Nat) /\ Len(encoded) <= EncodedMax
      /\ returns \in Seq(Frame \X {1, 2}) /\ peer \in PeerType /\ host \in HostType
      /\ requests \in Seq(Kind) /\ Len(requests) <= MaxRequests
      /\ handled \in Seq(Record) /\ torn \in BOOLEAN /\ faults \in 0 .. MaxFaults
  BY TypeParts
<1>t. torn' \in BOOLEAN
  BY <1>0, TornOK
<1>1. ASSUME InboundInv', Len(chunk') <= ChunkMax, Len(chunks') <= ChunkQueue,
             encoded' \in Seq(Nat), Len(encoded') <= EncodedMax,
             returns' \in Seq(Frame \X {1, 2}), peer' \in PeerType, host' \in HostType,
             requests' \in Seq(Kind), Len(requests') <= MaxRequests,
             handled' \in Seq(Record), faults' \in 0 .. MaxFaults
      PROVE  TypeOK'
  <2>1. Pipeline(chunk', chunks', wire') /\ dropped' \subseteq Written'
    BY <1>1 DEF InboundInv
  <2>2. wire' \in Seq(Tags) /\ chunks' \in Seq(Seq(Tags)) /\ chunk' \in Seq(Tags)
    BY <2>1 DEF Pipeline
  <2>3. dropped' \subseteq Id \X Nat
    BY <2>1 DEF Written
  <2> QED
    BY <1>1, <1>t, <2>2, <2>3, Zenon DEF TypeOK, PeerType, HostType, Tags
<1>2. CASE RxCallback
  <2>1. /\ InboundInv' /\ Len(chunks') <= ChunkQueue /\ faults' \in 0 .. MaxFaults
        /\ UNCHANGED <<chunk, encoded, returns, peer, host, requests, handled>>
    BY <1>2, ReceptionKeeps
  <2> QED
    BY <1>0, <1>1, <2>1
<1>3. CASE Decode
  <2>1. /\ \E h : Taken(h) /\ DecodeOf(h)
        /\ Pipeline(chunk', chunks', wire')
        /\ \A i \in 1 .. Len(chunks') : Len(chunks'[i]) <= ChunkMax
        /\ Len(chunks') <= ChunkQueue /\ Len(chunk') <= ChunkMax
    BY <1>3, DecodeTakes
  <2>2. PICK h : Taken(h) /\ DecodeOf(h)
    BY <2>1
  <2>3. InboundInv'
    BY <2>1, <2>2, TakenIs
  <2>4. h \in Queue /\ requests' = requests
    BY <2>2 DEF Taken
  <2>5. /\ encoded' \in Seq(Nat) /\ Len(encoded') <= EncodedMax
        /\ handled' \in Seq(Record) /\ returns' \in Seq(Frame \X {1, 2})
        /\ faults' \in 0 .. MaxFaults /\ peer' \in PeerType /\ host' = host
    BY <2>2, <2>4, DecodeOK
  <2> QED
    BY <1>0, <1>1, <2>1, <2>3, <2>4, <2>5
<1>4. CASE PeerStart \/ PeerBlock \/ PeerRepeat \/ PeerResult
  <2>1. /\ returns' \in Seq(Frame \X {1, 2}) /\ faults' \in 0 .. MaxFaults /\ peer' \in PeerType
        /\ UNCHANGED <<inbound, host, history>>
    BY <1>4, PeerOK
  <2>2. UNCHANGED <<wire, chunks, chunk, encoded, host, requests, handled, dropped>>
    BY <2>1 DEF inbound, history
  <2>3. InboundInv'
    BY <2>1, <2>2, InboundSame
  <2> QED
    BY <1>0, <1>1, <2>1, <2>2, <2>3
<1>5. CASE \E kind \in Kind : HostRequest(kind)
  <2>1. PICK kind \in Kind : HostRequest(kind)
    BY <1>5
  <2>2. /\ InboundInv' /\ requests' \in Seq(Kind) /\ Len(requests') <= MaxRequests
        /\ UNCHANGED <<chunks, chunk, encoded, returns, peer, handled, dropped, faults>>
    BY <2>1, RequestKeeps
  <2>3. host' \in HostType
    <3> DEFINE id == Len(requests) + 1
               z == <<>>
    <3>1. host' = [host EXCEPT !.at = "REQUEST", !.id = id, !.image = z]
          /\ Len(requests) < MaxRequests
      BY <2>1, Zenon DEF HostRequest
    <3>2. id \in Id
      BY <1>0, <3>1, UsbAssumption DEF Id
    <3>3. z \in Seq(Id \X (1 .. Blocks))
      OBVIOUS
    <3> HIDE DEF id, z
    <3> QED
      BY <1>0, <3>1, <3>2, <3>3 DEF HostType
  <2> QED
    BY <1>0, <1>1, <2>2, <2>3
<1>6. CASE HostOpen \/ HostEnds \/ HostPending \/ HostRead \/ HostPoll
  <2>1. /\ returns' \in Seq(Frame \X {1, 2}) /\ host' \in HostType
        /\ UNCHANGED <<inbound, peer, requests, handled, dropped, faults>>
    BY <1>6, HostOK
  <2>2. UNCHANGED <<wire, chunks, chunk, encoded>>
    BY <2>1 DEF inbound
  <2>3. InboundInv'
    BY <2>1, InboundSame
  <2> QED
    BY <1>0, <1>1, <2>1, <2>2, <2>3
<1>7. CASE UNCHANGED vars
  <2>1. /\ UNCHANGED <<inbound, requests, dropped>>
        /\ UNCHANGED <<wire, chunks, chunk, encoded, returns, peer, host, handled, faults>>
    BY <1>7 DEF vars, inbound, history
  <2>2. InboundInv'
    BY <2>1, InboundSame
  <2> QED
    BY <1>0, <1>1, <2>1, <2>2
<1> QED
  BY <1>2, <1>3, <1>4, <1>5, <1>6, <1>7, Zenon DEF Next
-----------------------------------------------------------------------------
(***************************************************************************)
(* What is handled was sent, and in that order.                            *)
(***************************************************************************)
\* All that was handled came of requests before k.
Later(k) == \A j \in 1 .. Len(handled) : handled[j][3] < k

\* A CRC that the decoder holds or has before it is that of a request nothing was
\* handled of yet, nor of a later one.
HeldCrc(x, k) ==
    /\ k \in 1 .. Len(requests) /\ x = Crc(requests[k], k) /\ Later(k)
    /\ \A b \in Queue : ByteOf(b) > 100 => k < b[1]
CrcInv ==
    /\ \A b \in Queue : ByteOf(b) > 100 => Later(b[1])
    /\ \A i \in 1 .. Len(encoded) : encoded[i] > 100 => \E k : HeldCrc(encoded[i], k)
HandledInv ==
    /\ \A j \in 1 .. Len(handled) :
          handled[j][3] \in 1 .. Len(requests) /\ handled[j] = Sent(handled[j][3])
    /\ \A i, j \in 1 .. Len(handled) : i < j => handled[i][3] < handled[j][3]

\* A large byte is the CRC of its request, and the only one.
LEMMA LargeByte ==
    ASSUME requests \in Seq(Kind), Len(requests) <= MaxRequests, NEW k \in 1 .. Len(requests),
           NEW j \in 1 .. Len(E(k)), ByteOf(<<k, j>>) > 100
    PROVE  /\ ByteOf(<<k, j>>) = Crc(requests[k], k)
           /\ \A i \in 1 .. Len(E(k)) : ByteOf(<<k, i>>) > 100 => i = j
<1>1. /\ IsEncoding(requests[k], k, E(k))
      /\ \A i \in 1 .. Len(E(k)) : ByteOf(<<k, i>>) = E(k)[i] /\ E(k)[i] \in Nat
  BY ByteIs
<1> DEFINE e == E(k)
           c == Crc(requests[k], k)
<1>2. PICK p \in 1 .. Len(e) - 1 : e[p] = c /\ \A i \in 1 .. Len(e) : i # p => e[i] <= 100
  BY <1>1 DEF IsEncoding
<1>3. \A i \in 1 .. Len(e) : ByteOf(<<k, i>>) = e[i] /\ e[i] \in Nat
  BY <1>1
<1>4. \A i \in 1 .. Len(e) : ByteOf(<<k, i>>) > 100 => i = p
  <2> SUFFICES ASSUME NEW i \in 1 .. Len(e), ByteOf(<<k, i>>) > 100, i # p PROVE FALSE
    OBVIOUS
  <2>1. e[i] > 100 /\ e[i] <= 100 /\ e[i] \in Nat
    BY <1>2, <1>3
  <2> HIDE DEF e
  <2> QED
    BY <2>1
<1> HIDE DEF e, c
<1>5. j = p
  BY <1>4 DEF e
<1>6. ByteOf(<<k, j>>) = c
  BY <1>2, <1>3, <1>5 DEF e
<1> QED
  BY <1>4, <1>5, <1>6 DEF e, c

\* The number and the position of a byte that was written.
LEMMA WrittenIs ==
    ASSUME NEW b \in Written
    PROVE  b[1] \in 1 .. Len(requests) /\ b[2] \in 1 .. Len(E(b[1])) /\ b = <<b[1], b[2]>>
           /\ b \in Id \X Nat
  BY DEF Written

\* Nothing the decoder holds has changed, and no more is under way.
LEMMA HandledQuiet ==
    ASSUME HandledInv, CrcInv, Queue' \subseteq Queue, UNCHANGED <<requests, handled, encoded>>
    PROVE  HandledInv' /\ CrcInv'
<1>1. HandledInv'
  BY DEF HandledInv, Sent
<1>2. \A b : ByteOf(b)' = ByteOf(b)
  BY DEF ByteOf
<1>3. \A k : Later(k)' <=> Later(k)
  BY DEF Later
<1>4. \A x, k : HeldCrc(x, k) => HeldCrc(x, k)'
  BY <1>2, <1>3 DEF HeldCrc
<1>5. CrcInv'
  BY <1>2, <1>3, <1>4 DEF CrcInv
<1> QED
  BY <1>1, <1>5

\* The number of a request is in its record.
LEMMA SentIs ==
    ASSUME requests \in Seq(Kind), Len(requests) <= MaxRequests, NEW k \in 1 .. Len(requests)
    PROVE  Sent(k)[3] = k /\ k \in Nat
  BY SMTT(30), ByteIs, RecordShape, UsbAssumption DEF Sent, Id

\* A new request comes after all that was handled.
LEMMA HandledRequest ==
    ASSUME TypeOK, InboundInv, HandledInv, CrcInv, NEW k, Wrote(k),
           UNCHANGED <<handled, encoded>>
    PROVE  HandledInv' /\ CrcInv'
<1> DEFINE n == Len(requests)
<1>0. requests \in Seq(Kind)
  BY DEF TypeOK
<1>1. /\ n \in Nat /\ k \in Nat
      /\ \A j \in 1 .. n : j \in 1 .. k /\ j < k /\ E(j)' = E(j)
      /\ \A b \in Written : b \in Written' /\ b[1] < k /\ b[1] \in 1 .. n
  BY <1>0, WrittenGrows
<1>2. /\ Len(requests') = k /\ \A j \in 1 .. n : requests'[j] = requests[j]
  BY DEF Wrote
<1>3. \A b \in Queue' : b \in Queue \/ b[1] = k
  <2>1. Queue' = Queue \cup {<<k, i>> : i \in 1 .. Len(E(k)')}
    BY DEF Wrote
  <2> QED
    BY <2>1
<1>4. Queue \subseteq Written
  BY DEF InboundInv
<1> HIDE DEF n
<1>5. HandledInv'
  <2>1. /\ \A j \in 1 .. Len(handled) : handled[j][3] \in 1 .. n /\ handled[j] = Sent(handled[j][3])
        /\ \A i, j \in 1 .. Len(handled) : i < j => handled[i][3] < handled[j][3]
    BY DEF HandledInv, n
  <2>2. \A j \in 1 .. n : Sent(j)' = Sent(j)
    BY <1>2 DEF Sent
  <2> QED
    BY <1>1, <1>2, <2>1, <2>2 DEF HandledInv
<1>6. \A b \in Queue : ByteOf(b)' = ByteOf(b)
  <2> SUFFICES ASSUME NEW b \in Queue PROVE ByteOf(b)' = ByteOf(b)
    OBVIOUS
  <2>1. b[1] \in 1 .. n
    BY <1>1, <1>4
  <2> QED
    BY <2>1, <1>2 DEF ByteOf
<1>7. Later(k)
  <2>1. ASSUME NEW j \in 1 .. Len(handled) PROVE handled[j][3] < k
    <3>1. handled[j][3] \in 1 .. n
      BY DEF HandledInv, n
    <3> QED
      BY <3>1, <1>1
  <2> QED
    BY <2>1 DEF Later
<1>8. \A j : Later(j)' <=> Later(j)
  BY DEF Later
<1>9. ASSUME NEW x, NEW j, HeldCrc(x, j) PROVE HeldCrc(x, j)'
  <2>1. j \in 1 .. n /\ x = Crc(requests[j], j) /\ Later(j)
        /\ \A b \in Queue : ByteOf(b) > 100 => j < b[1]
    BY <1>9 DEF HeldCrc, n
  <2>2. j \in 1 .. Len(requests') /\ x = Crc(requests'[j], j) /\ Later(j)' /\ j < k
    BY <1>1, <1>2, <1>8, <2>1
  <2>3. \A b \in Queue' : ByteOf(b)' > 100 => j < b[1]
    BY <1>3, <1>6, <2>1, <2>2
  <2> QED
    BY <2>2, <2>3 DEF HeldCrc
<1>10. \A b \in Queue' : ByteOf(b)' > 100 => Later(b[1])'
  BY <1>3, <1>6, <1>7, <1>8 DEF CrcInv
<1>11. \A i \in 1 .. Len(encoded) : encoded[i] > 100 => \E j : HeldCrc(encoded[i], j)'
  BY <1>9 DEF CrcInv
<1>12. CrcInv'
  BY <1>10, <1>11 DEF CrcInv
<1> QED
  BY <1>5, <1>12

\* What the decoder holds of a request gives that request's record, or none.
LEMMA DecodedWasHeld ==
    ASSUME TypeOK, CrcInv, UsbDecode(encoded) # <<>>
    PROVE  \E k \in 1 .. Len(requests) :
              /\ UsbDecode(encoded) = Sent(k) /\ Later(k)
              /\ \A b \in Queue : ByteOf(b) > 100 => k < b[1]
<1> DEFINE r == UsbDecode(encoded)
<1>0. encoded \in Seq(Nat) /\ requests \in Seq(Kind) /\ Len(requests) <= MaxRequests
  BY DEF TypeOK
<1>1. /\ r \in Record
      /\ \A j \in 1 .. Len(r) : r[j] # 0 => \E i \in 1 .. Len(encoded) : encoded[i] = r[j]
  BY <1>0, DecodeIn
<1> HIDE DEF r
<1>2. PICK kind \in Kind, id \in Id : r = RecordOf(kind, id)
  BY <1>1, RecordIs
<1>3. r \in Seq(Nat) /\ EndsLarge(r) /\ r[Len(r)] = Crc(kind, id) /\ id \in Nat
  BY <1>2, RecordShape, UsbAssumption DEF Id
<1>4. Len(r) \in 1 .. Len(r) /\ r[Len(r)] > 100
  <2>1. r[Len(r)] > 100 /\ Len(r) \in 1 .. 99
    BY <1>3, Zenon DEF EndsLarge
  <2> DEFINE n == Len(r)
  <2>2. n \in 1 .. n
    <3>1. n \in 1 .. 99
      BY <2>1
    <3> HIDE DEF n
    <3> QED
      BY <3>1
  <2> QED
    BY <2>1, <2>2
<1>5. PICK i \in 1 .. Len(encoded) : encoded[i] = Crc(kind, id)
  <2> DEFINE c == Crc(kind, id)
             n == Len(r)
  <2>1. n \in 1 .. n /\ r[n] = c /\ c > 100
    BY <1>3, <1>4
  <2>2. c # 0
    <3>1. c \in Nat
      BY <1>3, <1>4
    <3> HIDE DEF c
    <3> QED
      BY <2>1, <3>1
  <2> HIDE DEF c, n
  <2> QED
    BY <1>1, <2>1, <2>2 DEF c, n
<1>6. encoded[i] > 100
  BY <1>3, <1>4, <1>5
<1>7. PICK k : HeldCrc(encoded[i], k)
  BY <1>6 DEF CrcInv
<1>8. /\ k \in 1 .. Len(requests) /\ Crc(kind, id) = Crc(requests[k], k) /\ Later(k)
      /\ \A b \in Queue : ByteOf(b) > 100 => k < b[1]
  BY <1>5, <1>7 DEF HeldCrc
<1>9. requests[k] \in Kind /\ k \in Nat
  BY <1>0, <1>8
<1>10. id = k
  BY <1>3, <1>8, <1>9, CrcDistinct
<1>11. kind = requests[k]
  <2> DEFINE s == Type(kind)
             t == Type(requests[k])
  <2>1. s \in 1 .. 25 /\ t \in 1 .. 25
    BY <1>9, Types
  <2>2. 100 * k + s = 100 * k + t
    BY <1>8, <1>10 DEF Crc
  <2> HIDE DEF s, t
  <2>3. s = t
    BY <1>9, <2>1, <2>2
  <2> QED
    BY <1>9, <2>3, Types DEF s, t
<1>12. r = Sent(k)
  BY <1>2, <1>10, <1>11 DEF Sent
<1> QED
  BY <1>8, <1>12 DEF r

\* A byte that is decoded keeps what is handled in order.
LEMMA HandledDecode ==
    ASSUME TypeOK, InboundInv, HandledInv, CrcInv, NEW h, Taken(h), DecodeOf(h)
    PROVE  HandledInv' /\ CrcInv'
<1> DEFINE byte == ByteOf(h)
           record == IF byte = 0 THEN UsbDecode(encoded) ELSE <<>>
<1>1. /\ encoded' = IF byte = 0 THEN Rest(encoded) ELSE Collected(encoded, byte)
      /\ record # <<>> => handled' = Append(handled, record)
      /\ record = <<>> => handled' = handled
  BY Zenon DEF DecodeOf
<1>2. /\ h \in Queue /\ Queue' \subseteq Queue /\ (\A b \in Queue' : Before(h, b))
      /\ requests' = requests /\ Queue \subseteq Written
  BY DEF Taken, InboundInv
<1>3. /\ requests \in Seq(Kind) /\ Len(requests) <= MaxRequests /\ encoded \in Seq(Nat)
      /\ handled \in Seq(Record)
  BY DEF TypeOK
<1>4. \A b : ByteOf(b)' = ByteOf(b)
  BY <1>2 DEF ByteOf
<1>5. \A j : Sent(j)' = Sent(j)
  BY <1>2 DEF Sent
<1>6. CASE byte = 0 /\ record # <<>>
  <2>1. encoded' = <<>> /\ handled' = Append(handled, UsbDecode(encoded)) /\ UsbDecode(encoded) # <<>>
    BY <1>1, <1>6 DEF Rest
  <2>2. PICK k \in 1 .. Len(requests) :
          /\ UsbDecode(encoded) = Sent(k) /\ Later(k)
          /\ \A b \in Queue : ByteOf(b) > 100 => k < b[1]
    BY <2>1, DecodedWasHeld
  <2>3. Sent(k)[3] = k /\ k \in Nat
    BY <1>3, SentIs
  <2>4. Sent(k) \in Record
    BY <1>3, <2>1, <2>2, DecodedIs
  <2> DEFINE s == Sent(k)
             n == Len(handled)
  <2>5. s[3] = k /\ s \in Record /\ handled' = Append(handled, s) /\ s = Sent(k)
    BY <2>1, <2>2, <2>3, <2>4
  <2> HIDE DEF s
  <2>6. /\ Len(handled') = n + 1
        /\ \A j \in 1 .. n : handled'[j] = handled[j] /\ j \in 1 .. n + 1
        /\ handled'[n + 1] = s
        /\ \A j \in 1 .. n + 1 : j \in 1 .. n \/ j = n + 1
        /\ \A i \in 1 .. n + 1, j \in 1 .. n + 1 : i < j => i \in 1 .. n
    BY <1>3, <2>5, Appended
  <2>7. /\ \A j \in 1 .. n : handled[j][3] < k
    BY <2>2 DEF Later
  <2>8. /\ \A j \in 1 .. n : handled[j][3] \in 1 .. Len(requests) /\ handled[j] = Sent(handled[j][3])
        /\ \A i, j \in 1 .. n : i < j => handled[i][3] < handled[j][3]
    BY DEF HandledInv
  <2> HIDE DEF n
  <2>9. \A j \in 1 .. n + 1 :
          handled'[j][3] \in 1 .. Len(requests) /\ handled'[j] = Sent(handled'[j][3])
    BY <2>5, <2>6, <2>8
  <2>10. ASSUME NEW i \in 1 .. n + 1, NEW j \in 1 .. n + 1, i < j
         PROVE  handled'[i][3] < handled'[j][3]
    <3>1. i \in 1 .. n /\ (j \in 1 .. n \/ j = n + 1)
      BY <2>6, <2>10
    <3> QED
      BY <3>1, <2>5, <2>6, <2>7, <2>8, <2>10
  <2>11. HandledInv'
    BY <1>2, <1>5, <2>6, <2>9, <2>10 DEF HandledInv
  <2>12. \A b \in Queue' : ByteOf(b)' > 100 => Later(b[1])'
    <3> SUFFICES ASSUME NEW b \in Queue', ByteOf(b) > 100 PROVE Later(b[1])'
      BY <1>4
    <3>1. k < b[1] /\ Later(b[1])
      BY <1>2, <2>2 DEF CrcInv
    <3>2. \A j \in 1 .. n : handled[j][3] < b[1]
      BY <3>1 DEF Later, n
    <3>3. \A j \in 1 .. n + 1 : handled'[j][3] < b[1]
      BY <2>5, <2>6, <3>1, <3>2
    <3> QED
      BY <2>6, <3>3 DEF Later
  <2>13. \A i : i \notin 1 .. Len(encoded')
    <3>1. Len(encoded') = 0
      BY <2>1
    <3> QED
      BY <3>1
  <2>14. CrcInv'
    BY <2>12, <2>13 DEF CrcInv
  <2> QED
    BY <2>11, <2>14
<1>7. ASSUME record = <<>> PROVE HandledInv' /\ \A j : Later(j)' <=> Later(j)
  BY <1>1, <1>2, <1>5, <1>7 DEF HandledInv, Later
<1>8. ASSUME record = <<>>, NEW x, NEW k, HeldCrc(x, k) PROVE HeldCrc(x, k)'
  <2>1. /\ k \in 1 .. Len(requests) /\ x = Crc(requests[k], k) /\ Later(k)
        /\ \A b \in Queue : ByteOf(b) > 100 => k < b[1]
    BY <1>8 DEF HeldCrc
  <2>2. Later(k)'
    BY <1>7, <1>8, <2>1
  <2>3. \A b \in Queue' : ByteOf(b)' > 100 => k < b[1]
    BY <1>2, <1>4, <2>1
  <2> QED
    BY <1>2, <2>1, <2>2, <2>3 DEF HeldCrc
<1>9. ASSUME record = <<>> PROVE \A b \in Queue' : ByteOf(b)' > 100 => Later(b[1])'
  BY <1>2, <1>4, <1>7, <1>9 DEF CrcInv
<1>10. CASE record = <<>> /\ encoded' = <<>>
  <2>1. \A i : i \notin 1 .. Len(encoded')
    <3>1. Len(encoded') = 0
      BY <1>10
    <3> QED
      BY <3>1
  <2>2. CrcInv'
    BY <1>9, <1>10, <2>1 DEF CrcInv
  <2> QED
    BY <1>7, <1>10, <2>2
<1>11. ASSUME record = <<>>, encoded' = Append(encoded, byte) PROVE CrcInv'
  <2> DEFINE n == Len(encoded)
  <2>x. PICK x : x = byte
    OBVIOUS
  <2>k. PICK k : k = h[1]
    OBVIOUS
  <2>1. h \in Written /\ byte \in Nat
    BY <1>2, DecodeOK
  <2>2. /\ Len(encoded') = n + 1
        /\ \A j \in 1 .. n : encoded'[j] = encoded[j]
        /\ encoded'[n + 1] = x
        /\ \A j \in 1 .. n + 1 : j \in 1 .. n \/ j = n + 1
    <3>1. x \in Nat /\ encoded' = Append(encoded, x)
      BY <1>11, <2>x, <2>1
    <3> QED
      BY <1>3, <3>1, Appended
  <2>3. ASSUME x > 100 PROVE HeldCrc(x, k)'
    <3>1. /\ h[1] \in 1 .. Len(requests) /\ h[2] \in 1 .. Len(E(h[1])) /\ h = <<h[1], h[2]>>
          /\ h \in Id \X Nat
      BY <2>1, WrittenIs
    <3>2. ByteOf(<<h[1], h[2]>>) > 100 /\ x = ByteOf(<<h[1], h[2]>>)
      BY <2>3, <2>x, <3>1
    <3>3. /\ x = Crc(requests[h[1]], h[1])
          /\ \A i \in 1 .. Len(E(h[1])) : ByteOf(<<h[1], i>>) > 100 => i = h[2]
      BY <1>3, <3>1, <3>2, LargeByte
    <3>4. Later(h[1])
      BY <1>2, <2>3, <2>x DEF CrcInv
    <3>5. ASSUME NEW b \in Queue', ByteOf(b) > 100 PROVE h[1] < b[1]
      <4>1. b \in Written /\ Before(h, b)
        BY <1>2
      <4>2. /\ b[1] \in 1 .. Len(requests) /\ b[2] \in 1 .. Len(E(b[1])) /\ b = <<b[1], b[2]>>
            /\ b \in Id \X Nat
        BY <4>1, WrittenIs
      <4>3. CASE h[1] = b[1] /\ h[2] < b[2]
        <5>1. ByteOf(<<h[1], b[2]>>) > 100 /\ b[2] \in 1 .. Len(E(h[1]))
          BY <3>5, <4>2, <4>3
        <5>2. b[2] = h[2]
          BY <3>3, <5>1
        <5> QED
          BY <3>1, <4>3, <5>2
      <4> QED
        BY <4>1, <4>3 DEF Before
    <3>6. Later(k)
      BY <2>k, <3>4
    <3>7. Later(k)'
      BY <1>7, <1>11, <3>6
    <3>8. \A b \in Queue' : ByteOf(b)' > 100 => k < b[1]
      BY <1>4, <3>5, <2>k
    <3>9. k \in 1 .. Len(requests') /\ x = Crc(requests'[k], k)
      BY <1>2, <2>k, <3>1, <3>3
    <3> QED
      BY <3>7, <3>8, <3>9, Zenon DEF HeldCrc
  <2>4. ASSUME NEW i \in 1 .. n + 1, NEW y, y = encoded'[i], y > 100 PROVE \E j : HeldCrc(y, j)'
    <3>1. CASE i = n + 1
      <4>1. x > 100 /\ y = x
        BY <2>2, <2>4, <3>1
      <4>2. HeldCrc(x, k)'
        BY <4>1, <2>3
      <4> QED
        BY <4>1, <4>2
    <3>2. CASE i \in 1 .. n
      <4>1. y = encoded[i]
        BY <2>2, <2>4, <3>2
      <4>2. PICK j : HeldCrc(y, j)
        BY <2>4, <3>2, <4>1 DEF CrcInv
      <4>3. HeldCrc(y, j)'
        BY <1>8, <1>11, <4>2
      <4> QED
        BY <4>3
    <3> QED
      BY <2>2, <3>1, <3>2
  <2>5. \A i \in 1 .. Len(encoded') : encoded'[i] > 100 => (\E j : HeldCrc(encoded[i], j))'
    <3> SUFFICES ASSUME NEW i \in 1 .. n + 1, encoded'[i] > 100
                 PROVE  (\E j : HeldCrc(encoded[i], j))'
      BY <2>2
    <3>1. PICK y : y = encoded'[i]
      OBVIOUS
    <3>2. PICK j : HeldCrc(y, j)'
      BY <2>4, <3>1
    <3>3. HeldCrc(encoded[i], j)'
      BY <3>1, <3>2
    <3> QED
      BY <3>3
  <2>6. (\A b \in Queue : ByteOf(b) > 100 => Later(b[1]))'
    BY <1>9, <1>11
  <2>7. (\A i \in 1 .. Len(encoded) : encoded[i] > 100 => \E j : HeldCrc(encoded[i], j))'
    BY <2>5
  <2> QED
    BY <2>6, <2>7 DEF CrcInv
<1>12. record = <<>> => encoded' = <<>> \/ encoded' = Append(encoded, byte)
  BY <1>1, Zenon DEF Rest, Collected
<1>13. record # <<>> => byte = 0
  OBVIOUS
<1> QED
  BY <1>6, <1>7, <1>10, <1>11, <1>12, <1>13

\* Nothing is handled, under way or held at first.
LEMMA HandledInit ==
    ASSUME Init
    PROVE  HandledInv /\ CrcInv
<1> DEFINE z == <<>>
<1>1. encoded = z /\ handled = z /\ wire = z /\ chunks = z /\ chunk = z
  BY Zenon DEF Init
<1>2. Len(z) = 0 /\ \A b : b \notin ToSet(z)
  BY DEF ToSet
<1> HIDE DEF z
<1>3. \A i : i \notin 1 .. 0
  OBVIOUS
<1>4. Queue = {}
  BY <1>1, <1>2 DEF Queue, InQueue
<1> QED
  BY <1>1, <1>2, <1>3, <1>4 DEF HandledInv, CrcInv

\* No step hands usb_handler a frame that was not sent, or one of before the last.
LEMMA HandledStep ==
    ASSUME TypeOK, InboundInv, HandledInv, CrcInv, [Next]_vars
    PROVE  HandledInv' /\ CrcInv'
<1>1. CASE RxCallback
  <2>1. Queue' \subseteq Queue /\ UNCHANGED <<requests, handled, encoded>>
    BY <1>1, ReceptionKeeps
  <2> QED
    BY <2>1, HandledQuiet
<1>2. CASE Decode
  <2>1. PICK h : Taken(h) /\ DecodeOf(h)
    BY <1>2, DecodeTakes
  <2> QED
    BY <2>1, HandledDecode
<1>3. CASE \E kind \in Kind : HostRequest(kind)
  <2>1. PICK kind \in Kind : HostRequest(kind)
    BY <1>3
  <2>2. (\E k : Wrote(k)) /\ UNCHANGED <<handled, encoded>>
    BY <2>1, RequestKeeps
  <2>3. PICK k : Wrote(k)
    BY <2>2
  <2> QED
    BY <2>2, <2>3, HandledRequest
<1>4. ASSUME UNCHANGED <<inbound, requests, handled, dropped>> PROVE HandledInv' /\ CrcInv'
  <2>1. Queue' = Queue /\ UNCHANGED <<requests, handled, encoded>>
    BY <1>4, InboundSame DEF inbound
  <2> QED
    BY <2>1, HandledQuiet
<1>5. CASE PeerStart \/ PeerBlock \/ PeerRepeat \/ PeerResult
  BY <1>4, <1>5, PeerOK DEF history
<1>6. CASE HostOpen \/ HostEnds \/ HostPending \/ HostRead \/ HostPoll
  BY <1>4, <1>6, HostOK
<1>7. CASE UNCHANGED vars
  BY <1>4, <1>7 DEF vars, history
<1> QED
  BY <1>1, <1>2, <1>3, <1>5, <1>6, <1>7, Zenon DEF Next

\* HandledWereSent follows.
LEMMA HandledImplies ==
    ASSUME TypeOK, HandledInv
    PROVE  HandledWereSent
<1>1. handled \in Seq(Record) /\ requests \in Seq(Kind)
  BY DEF TypeOK
<1>2. DOMAIN handled = 1 .. Len(handled) /\ DOMAIN requests = 1 .. Len(requests)
  BY <1>1
<1>3. /\ \A j \in 1 .. Len(handled) :
            handled[j][3] \in 1 .. Len(requests) /\ handled[j] = Sent(handled[j][3])
      /\ \A i, j \in 1 .. Len(handled) : i < j => handled[i][3] < handled[j][3]
  BY DEF HandledInv
<1> QED
  BY <1>2, <1>3 DEF HandledWereSent

\* The requests and the history the decoder writes: what a step leaves of them.
LEMMA HistoryGrows ==
    ASSUME TypeOK, InboundInv, [Next]_vars
    PROVE  /\ Len(handled) \in Nat /\ Len(handled') \in Nat /\ Len(handled) <= Len(handled')
           /\ \A j \in 1 .. Len(handled) : j \in 1 .. Len(handled') /\ handled'[j] = handled[j]
<1>1. handled \in Seq(Record)
  BY DEF TypeOK
<1>2. CASE handled' = handled
  BY <1>1, <1>2
<1>3. CASE \E r \in Record : handled' = Append(handled, r)
  <2>1. PICK r \in Record : handled' = Append(handled, r)
    BY <1>3
  <2> DEFINE n == Len(handled)
  <2>2. /\ Len(handled') = n + 1 /\ n \in Nat
        /\ \A j \in 1 .. n : handled'[j] = handled[j]
    BY <1>1, <2>1, Appended
  <2> HIDE DEF n
  <2>3. n <= n + 1 /\ n + 1 \in Nat /\ \A j \in 1 .. n : j \in 1 .. n + 1
    BY <2>2
  <2> QED
    BY <2>2, <2>3 DEF n
<1>4. CASE Decode
  <2>1. PICK h : Taken(h) /\ DecodeOf(h)
    BY <1>4, DecodeTakes
  <2> DEFINE record == IF ByteOf(h) = 0 THEN UsbDecode(encoded) ELSE <<>>
  <2>r. /\ record # <<>> => handled' = Append(handled, record)
        /\ record = <<>> => handled' = handled
    BY <2>1, Zenon DEF DecodeOf
  <2>2. handled' = handled \/ (handled' = Append(handled, UsbDecode(encoded)) /\ UsbDecode(encoded) # <<>>)
    BY <2>r
  <2>3. UsbDecode(encoded) # <<>> => UsbDecode(encoded) \in Record
    BY DecodedIs DEF TypeOK
  <2> QED
    BY <1>2, <1>3, <2>2, <2>3
<1>5. CASE ~Decode
  <2>1. handled' = handled
    BY <1>5, Zenon DEF Next, RxCallback, PeerStart, PeerBlock, PeerRepeat, PeerResult, PeerQuiet, HostRequest, HostOpen,
       HostEnds, HostPending, HostRead, HostPoll, HostQuiet, history, vars
  <2> QED
    BY <1>2, <2>1
<1> QED
  BY <1>4, <1>5
-----------------------------------------------------------------------------
(***************************************************************************)
(* Responses are those to requests that were handled.                      *)
(***************************************************************************)
Answers(f) == f[1] = "RESPONSE" => \E j \in 1 .. Len(handled) : handled[j][3] = f[2]
AnsweredInv == \A i \in 1 .. Len(returns) : Answers(returns[i][1])

\* What is under way to the host is what was, or pieces of the frame that is sent.
LEMMA SendsAdd ==
    ASSUME NEW S, returns \in Seq(S), NEW f, Sends(f) \/ returns' = returns \o Pieces(f)
    PROVE  \A i \in 1 .. Len(returns') :
              (\E j \in 1 .. Len(returns) : returns'[i] = returns[j]) \/ returns'[i][1] = f
<1> DEFINE n == Len(returns)
           x == <<f, 1>>
           y == <<f, 2>>
           T == S \cup {x, y}
<1>1. x[1] = f /\ y[1] = f
  OBVIOUS
<1>2. \/ returns' = returns \o <<x, y>>
      \/ returns' = returns
      \/ returns' = Append(returns, x)
  BY DEF Sends, Pieces
<1>3. x \in T /\ y \in T /\ returns \in Seq(T) /\ n \in Nat
  <2>1. S \subseteq T
    OBVIOUS
  <2>2. x \in T /\ y \in T
    OBVIOUS
  <2> HIDE DEF T
  <2> QED
    BY <2>1, <2>2
<1> HIDE DEF T, x, y
<1>4. CASE returns' = returns
  BY <1>4
<1>5. CASE returns' = Append(returns, x)
  <2>1. /\ Len(returns') = n + 1 /\ returns'[n + 1] = x
        /\ \A i \in 1 .. n : returns'[i] = returns[i]
        /\ \A i \in 1 .. n + 1 : i \in 1 .. n \/ i = n + 1
    BY <1>3, <1>5, Appended
  <2> HIDE DEF n
  <2>2. ASSUME NEW i \in 1 .. n + 1
        PROVE  (\E j \in 1 .. n : returns'[i] = returns[j]) \/ returns'[i][1] = f
    BY <1>1, <2>1
  <2> QED
    BY <2>1, <2>2 DEF n
<1>6. CASE returns' = returns \o <<x, y>>
  <2> DEFINE t == <<x, y>>
  <2>1. t \in Seq(T) /\ Len(t) = 2 /\ t[1] = x /\ t[2] = y
    BY <1>3
  <2> HIDE DEF t
  <2>2. /\ Len(returns') = n + 2
        /\ \A i \in 1 .. n + 2 : returns'[i] = IF i <= n THEN returns[i] ELSE t[i - n]
    BY <1>3, <1>6, <2>1, ConcatProperties DEF t
  <2> HIDE DEF n
  <2>3. \A i \in 1 .. n + 2 : i \in 1 .. n \/ (~(i <= n) /\ i - n \in {1, 2})
    BY <1>3
  <2>4. \A i \in 1 .. n : i <= n /\ i \in 1 .. n + 2
    BY <1>3
  <2>5. ASSUME NEW i \in 1 .. n + 2
        PROVE  (\E j \in 1 .. n : returns'[i] = returns[j]) \/ returns'[i][1] = f
    <3>1. CASE i \in 1 .. n
      BY <2>2, <2>4, <3>1
    <3>2. CASE ~(i <= n) /\ i - n \in {1, 2}
      <4>1. returns'[i] = t[i - n]
        BY <2>2, <3>2
      <4>2. returns'[i] = x \/ returns'[i] = y
        BY <2>1, <3>2, <4>1
      <4> QED
        BY <1>1, <4>2
    <3> QED
      BY <2>3, <3>1, <3>2
  <2> QED
    BY <2>2, <2>5 DEF n
<1> QED
  BY <1>2, <1>4, <1>5, <1>6

\* Frames that nobody sent are not among those under way.
LEMMA AnsweredKept ==
    ASSUME AnsweredInv, NEW f, Answers(f)',
           Len(handled) <= Len(handled'), Len(handled) \in Nat, Len(handled') \in Nat,
           \A j \in 1 .. Len(handled) : handled'[j] = handled[j],
           \A i \in 1 .. Len(returns') :
              (\E j \in 1 .. Len(returns) : returns'[i] = returns[j]) \/ returns'[i][1] = f
    PROVE  AnsweredInv'
<1>1. ASSUME NEW g, Answers(g) PROVE Answers(g)'
  <2>1. \A j \in 1 .. Len(handled) : j \in 1 .. Len(handled') /\ handled'[j] = handled[j]
    OBVIOUS
  <2> QED
    BY <1>1, <2>1 DEF Answers
<1>2. ASSUME NEW i \in 1 .. Len(returns') PROVE Answers(returns[i][1])'
  <2>1. PICK g : g = returns'[i][1]
    OBVIOUS
  <2>2. CASE g = f
    <3>1. Answers(g)'
      BY <2>2
    <3> QED
      BY <2>1, <3>1
  <2>3. CASE \E j \in 1 .. Len(returns) : returns'[i] = returns[j]
    <3>1. Answers(g)
      BY <2>1, <2>3 DEF AnsweredInv
    <3>2. Answers(g)'
      BY <1>1, <3>1
    <3> QED
      BY <2>1, <3>2
  <2> QED
    BY <2>1, <2>2, <2>3
<1> QED
  BY <1>2 DEF AnsweredInv

\* A part of what was under way is under way.
LEMMA ReturnsLess ==
    ASSUME NEW S, returns \in Seq(S), NEW n \in 0 .. Len(returns),
           returns' = SubSeq(returns, n + 1, Len(returns))
    PROVE  \A i \in 1 .. Len(returns') : \E j \in 1 .. Len(returns) : returns'[i] = returns[j]
<1> DEFINE m == Len(returns)
<1>1. m \in Nat /\ n \in Nat /\ n <= m
  BY DEF m
<1>2. \A i \in n + 1 .. m : returns[i] \in S
  <2>1. \A i \in 1 .. m : returns[i] \in S
    OBVIOUS
  <2> HIDE DEF m
  <2> QED
    BY <1>1, <2>1
<1>3. /\ Len(returns') = IF n + 1 <= m THEN m - n ELSE 0
      /\ \A i \in 1 .. m - n : returns'[i] = returns[n + i]
  <2>1. n + 1 \in Int /\ m \in Int
    BY <1>1
  <2>2. /\ Len(returns') = IF n + 1 <= m THEN m - (n + 1) + 1 ELSE 0
        /\ \A i \in 1 .. m - (n + 1) + 1 : returns'[i] = returns[n + 1 + i - 1]
    BY <1>2, <2>1, SubSeqProperties
  <2> HIDE DEF m
  <2>3. m - (n + 1) + 1 = m - n /\ \A i \in 1 .. m - n : n + 1 + i - 1 = n + i
    BY <1>1
  <2> QED
    BY <2>2, <2>3
<1> HIDE DEF m
<1>4. ASSUME NEW i \in 1 .. Len(returns') PROVE \E j \in 1 .. m : returns'[i] = returns[j]
  <2>1. i \in 1 .. m - n
    BY <1>1, <1>3
  <2>2. n + i \in 1 .. m
    BY <1>1, <2>1
  <2> QED
    BY <1>3, <2>1, <2>2
<1> QED
  BY <1>4 DEF m

\* No response is under way at first.
LEMMA AnsweredInit ==
    ASSUME Init
    PROVE  AnsweredInv
<1>1. returns = <<>>
  BY Zenon DEF Init
<1>2. \A i : i \notin 1 .. Len(returns)
  <2>1. Len(returns) = 0
    BY <1>1
  <2> QED
    BY <2>1
<1> QED
  BY <1>2 DEF AnsweredInv

\* Only the handling of a request sends a response.
LEMMA AnsweredStep ==
    ASSUME TypeOK, InboundInv, AnsweredInv, [Next]_vars
    PROVE  AnsweredInv'
<1> DEFINE S == Frame \X {1, 2}
           error == <<"ERROR">>
<1>0. returns \in Seq(S)
  BY TypeParts
<1>1. /\ Len(handled) <= Len(handled') /\ Len(handled) \in Nat /\ Len(handled') \in Nat
      /\ \A j \in 1 .. Len(handled) : handled'[j] = handled[j]
  BY HistoryGrows
<1> HIDE DEF S
<1>2. ASSUME NEW f, f[1] # "RESPONSE", Sends(f) \/ returns' = returns \o Pieces(f)
      PROVE  AnsweredInv'
  <2>1. Answers(f)'
    BY <1>2 DEF Answers
  <2> QED
    BY <1>0, <1>1, <1>2, <2>1, SendsAdd, AnsweredKept
<1>3. error[1] # "RESPONSE"
  OBVIOUS
<1> HIDE DEF error
<1>4. ASSUME \A i \in 1 .. Len(returns') : \E j \in 1 .. Len(returns) : returns'[i] = returns[j]
      PROVE  AnsweredInv'
  <2>1. Answers(error)'
    BY <1>3 DEF Answers
  <2> QED
    BY <1>1, <1>4, <2>1, AnsweredKept
<1>5. CASE returns' = returns
  BY <1>4, <1>5
<1>6. CASE Decode
  <2>1. PICK h : Taken(h) /\ DecodeOf(h)
    BY <1>6, DecodeTakes
  <2> DEFINE record == IF ByteOf(h) = 0 THEN UsbDecode(encoded) ELSE <<>>
  <2>2. /\ record # <<>> => handled' = Append(handled, record) /\ Handle(record)
        /\ record = <<>> => returns' = returns
    BY <2>1, Zenon DEF DecodeOf
  <2>3. record # <<>> => record \in Record
    BY DecodedIs DEF TypeOK
  <2> HIDE DEF record
  <2>4. CASE record # <<>>
    <3>1. PICK ok \in BOOLEAN : Sends(Response(record[3], ok))
      BY <2>2, <2>4 DEF Handle
    <3> DEFINE f == Response(record[3], ok)
    <3>2. f[2] = record[3]
      BY DEF Response
    <3> HIDE DEF f
    <3>3. PICK g : g = f
      OBVIOUS
    <3>4. PICK n : n = Len(handled) + 1
      OBVIOUS
    <3>5. PICK id : id = record[3]
      OBVIOUS
    <3>6. handled'[n] = record /\ n \in 1 .. Len(handled')
      <4>1. handled \in Seq(Record) /\ record \in Record /\ handled' = Append(handled, record)
        BY <2>2, <2>3, <2>4 DEF TypeOK
      <4> QED
        BY <3>4, <4>1, Appended
    <3>7. Answers(g)'
      BY <3>2, <3>3, <3>5, <3>6 DEF Answers
    <3>8. Sends(g)
      BY <3>1, <3>3 DEF f
    <3> QED
      BY <1>0, <1>1, <3>7, <3>8, SendsAdd, AnsweredKept
  <2> QED
    BY <1>5, <2>2, <2>4
<1>7. CASE PeerStart
  <2>1. Sends(error) \/ returns' = returns
    BY <1>7, Zenon DEF PeerStart, error
  <2> QED
    BY <1>2, <1>3, <1>5, <2>1
<1>8. CASE PeerBlock
  <2> DEFINE f == <<"BLOCK", peer.op, peer.next>>
  <2>1. Sends(f)
    BY <1>8, Zenon DEF PeerBlock
  <2>2. f[1] # "RESPONSE"
    OBVIOUS
  <2>3. PICK g : g = f
    OBVIOUS
  <2> HIDE DEF f
  <2>4. Sends(g) /\ g[1] # "RESPONSE"
    BY <2>1, <2>2, <2>3
  <2> QED
    BY <1>2, <2>4
<1>9. CASE PeerResult
  <2>1. PICK ok : Sends(<<"RESULT", peer.op, ok>>)
    BY <1>9, Zenon DEF PeerResult
  <2> DEFINE f == <<"RESULT", peer.op, ok>>
  <2>2. f[1] # "RESPONSE"
    OBVIOUS
  <2>3. PICK g : g = f
    OBVIOUS
  <2>4. Sends(f)
    BY <2>1
  <2> HIDE DEF f
  <2>5. Sends(g) /\ g[1] # "RESPONSE"
    BY <2>2, <2>3, <2>4
  <2> QED
    BY <1>2, <2>5
<1>13. CASE PeerRepeat
  <2> DEFINE f == <<"BLOCK", peer.op, peer.next - 1>>
  <2>1. returns' = returns \o Pieces(f)
    BY <1>13, Zenon DEF PeerRepeat
  <2>2. f[1] # "RESPONSE"
    OBVIOUS
  <2>3. PICK g : g = f
    OBVIOUS
  <2> HIDE DEF f
  <2>4. returns' = returns \o Pieces(g) /\ g[1] # "RESPONSE"
    BY <2>1, <2>2, <2>3
  <2> QED
    BY <1>2, <2>4
<1>10. CASE HostOpen
  <2>1. PICK n \in 0 .. Len(returns) : returns' = SubSeq(returns, n + 1, Len(returns))
    BY <1>10, Zenon DEF HostOpen
  <2> QED
    BY <1>0, <1>4, <2>1, ReturnsLess
<1>11. CASE HostRead
  <2>1. returns # <<>> /\ returns' = Tail(returns)
    BY <1>11, Zenon DEF HostRead
  <2>2. /\ Len(Tail(returns)) = Len(returns) - 1 /\ Len(returns) \in Nat
        /\ \A i \in 1 .. Len(Tail(returns)) : Tail(returns)[i] = returns[i + 1]
    BY <1>0, <2>1, HeadTailProperties
  <2> DEFINE n == Len(returns)
  <2>3. \A i \in 1 .. n - 1 : i + 1 \in 1 .. n
    <3>1. n \in Nat
      BY <2>2
    <3> HIDE DEF n
    <3> QED
      BY <3>1
  <2> QED
    BY <1>4, <2>1, <2>2, <2>3
<1>12. CASE RxCallback \/ (\E kind \in Kind : HostRequest(kind)) \/ HostEnds \/ HostPending
            \/ HostPoll \/ UNCHANGED vars
  <2>1. returns' = returns
    BY <1>12, Zenon DEF RxCallback, HostRequest, HostEnds, HostPending, HostPoll, vars
  <2> QED
    BY <1>5, <2>1
<1> QED
  BY <1>6, <1>7, <1>8, <1>9, <1>10, <1>11, <1>12, <1>13, Zenon DEF Next

\* request returns with a response to it, so what it asked for was handled.
LEMMA AnsweredAction ==
    ASSUME TypeOK, InboundInv, HandledInv, AnsweredInv, Next,
           host.at = "REQUEST", host'.at \in {"IDLE", "BACKUP"}
    PROVE  \E j \in DOMAIN handled : handled[j] = Sent(host.id)
<1> DEFINE f == Head(returns)[1]
<1>1. host \in HostType /\ handled \in Seq(Record) /\ returns \in Seq(Frame \X {1, 2})
  BY TypeParts
<1>2. host.at # "CLOSED" /\ host.at # "IDLE" /\ host.at # "BACKUP" /\ host' # host
  <2>1. "REQUEST" \notin {"IDLE", "BACKUP"}
    OBVIOUS
  <2> QED
    BY <2>1
<1>3. CASE HostRead
  <2> DEFINE p == Append(host.partial, f)
             q == Append(host.pending, f)
             after == InRequest(f)
             z == <<>>
  <2>1. /\ \/ host' = [host EXCEPT !.partial = p]
           \/ host' = Broken
           \/ host' = after /\ Stopped(after)
           \/ host' = [after EXCEPT !.partial = z]
        /\ returns # <<>>
    BY <1>3, Zenon DEF HostRead
  <2>2. \/ after = [host EXCEPT !.pending = q]
        \/ after = host
        \/ f[1] = "RESPONSE" /\ Mine(f)
        \/ after = Process
    BY InRequestIs
  <2> HIDE DEF p, q, z, after
  <2>3. ASSUME NEW x, NEW v, x = [host EXCEPT !.partial = v] PROVE host' # x
    <3>1. x.at = "REQUEST"
      BY <1>1, <2>3 DEF HostType
    <3> QED
      BY <3>1
  <2>4. /\ host' # Process /\ host' # Broken /\ host' # [Process EXCEPT !.partial = z]
        /\ ~(host' = after /\ Stopped(after))
    BY DEF Process, Broken, Stopped
  <2>5. host' # [[host EXCEPT !.pending = q] EXCEPT !.partial = z]
    <3>1. [[host EXCEPT !.pending = q] EXCEPT !.partial = z].at = "REQUEST"
      BY <1>1 DEF HostType
    <3> QED
      BY <3>1
  <2>6. f[1] = "RESPONSE" /\ f[2] = host.id
    BY <2>1, <2>2, <2>3, <2>4, <2>5, Zenon DEF Mine
  <2>7. f = returns[1][1] /\ 1 \in 1 .. Len(returns)
    BY <1>1, <2>1, HeadTailProperties
  <2>8. PICK j \in 1 .. Len(handled) : handled[j][3] = host.id
    <3>1. Answers(f)
      BY <2>7 DEF AnsweredInv
    <3> QED
      BY <2>6, <3>1 DEF Answers
  <2>9. handled[j] = Sent(host.id)
    BY <2>8 DEF HandledInv
  <2> QED
    BY <1>1, <2>9
<1>4. CASE HostEnds
  <2>1. host' = Process
    BY <1>4, Zenon DEF HostEnds
  <2> QED
    BY <2>1 DEF Process
<1>5. CASE HostPoll
  <2> DEFINE z == <<>>
  <2>1. host' = [host EXCEPT !.partial = z]
    BY <1>5, Zenon DEF HostPoll
  <2> HIDE DEF z
  <2>2. host'.at = "REQUEST"
    BY <1>1, <2>1 DEF HostType
  <2> QED
    BY <2>2
<1>6. CASE HostOpen \/ HostPending \/ \E kind \in Kind : HostRequest(kind)
  BY <1>2, <1>6, Zenon DEF HostOpen, HostPending, HostRequest
<1>7. CASE RxCallback \/ Decode \/ PeerStart \/ PeerBlock \/ PeerRepeat \/ PeerResult
  BY <1>2, <1>7, Zenon DEF RxCallback, Decode, PeerStart, PeerBlock, PeerRepeat, PeerResult, PeerQuiet
<1> QED
  BY <1>3, <1>4, <1>5, <1>6, <1>7, Zenon DEF Next
-----------------------------------------------------------------------------
(***************************************************************************)
(* What the process reads fits together.                                   *)
(***************************************************************************)
\* A block, and a good result, of an operation, read to their end.
Block(id, k) == <<<<"BLOCK", id, k>>, 2>>
GoodResult(id) == <<<<"RESULT", id, TRUE>>, 2>>
Piece == Frame \X {1, 2}

\* Among the first n of u are the blocks from lo + 1 to hi; every block of u, and a good
\* result, comes after all the blocks before it.
Covers(u, n, id, lo, hi) == \A j \in lo + 1 .. hi : \E q \in 1 .. n : u[q] = Block(id, j)
OrderedAt(u, p, id, lo) ==
    /\ \A k \in 1 .. Blocks : u[p] = Block(id, k) => Covers(u, p - 1, id, lo, k - 1)
    /\ u[p] = GoodResult(id) => Covers(u, p - 1, id, lo, Blocks)
Ordered(u, id, lo) == \A p \in 1 .. Len(u) : OrderedAt(u, p, id, lo)

\* What a process has yet to look at: the events set aside, then what is under way.
Upcoming(p, r) ==
    [i \in 1 .. Len(p) + Len(r) |-> IF i <= Len(p) THEN <<p[i], 2>> ELSE r[i - Len(p)]]

\* The pieces from the k-th on are whole frames; the process is between two frames, or has
\* read the first piece of one.
WholeFrom(r, k) ==
    \A i \in k .. Len(r) :
        /\ r[i][2] = 1 => i < Len(r) /\ r[i + 1] = <<r[i][1], 2>>
        /\ r[i][2] = 2 => i > k /\ r[i - 1] = <<r[i][1], 1>>
Paired(part, r) ==
    \/ part = <<>> /\ WholeFrom(r, 1)
    \/ /\ Len(r) >= 1 /\ part = <<r[1][1]>> /\ r[1][2] = 2 /\ WholeFrom(r, 2)
Received(h) == Len(h.image) <= Blocks /\ \A j \in 1 .. Len(h.image) : h.image[j] = <<h.id, j>>
Consistent(h, r) ==
    Paired(h.partial, r) /\ Received(h) /\ Ordered(Upcoming(h.pending, r), h.id, Len(h.image))
Fed(h, r, p) ==
    p.op # 0 /\ p.op = h.id =>
        Covers(Upcoming(h.pending, r), Len(Upcoming(h.pending, r)), h.id, Len(h.image), p.next - 1)

\* Events are of requests that were made.
Asked(f) == f[1] \in {"BLOCK", "RESULT"} => f[2] \in 1 .. Len(requests)
EventsInv ==
    /\ peer.op \in 0 .. Len(requests)
    /\ \A i \in 1 .. Len(peer.asked) : peer.asked[i] \in 1 .. Len(requests)
    /\ \A i \in 1 .. Len(returns) : Asked(returns[i][1])
    /\ \A i \in 1 .. Len(host.pending) : Asked(host.pending[i])
StreamInv ==
    /\ EventsInv
    /\ host.at = "BROKEN" => torn
    /\ ~torn /\ ~Stopped(host) => Consistent(host, returns) /\ Fed(host, returns, peer)

\* Blocks and results are told from each other and from first pieces.
LEMMA BlockFacts ==
    /\ \A id, k, j : Block(id, k) = Block(id, j) => k = j
    /\ \A id, k : Block(id, k) # GoodResult(id)
    /\ \A f, id, k : <<f, 2>> = Block(id, k) => f = <<"BLOCK", id, k>> /\ f[1] = "BLOCK" /\ f[2] = id /\ f[3] = k
    /\ \A f, id : <<f, 2>> = GoodResult(id) => f = <<"RESULT", id, TRUE>> /\ f[1] = "RESULT" /\ f[2] = id
    /\ \A f, id, k : <<f, 1>> # Block(id, k) /\ <<f, 1>> # GoodResult(id)
<1>1. \A id, k, j : Block(id, k) = Block(id, j) => k = j
  BY DEF Block
<1>2. \A id, k : Block(id, k) # GoodResult(id)
  BY DEF Block, GoodResult
<1>3. \A f, id, k : <<f, 2>> = Block(id, k) => f = <<"BLOCK", id, k>> /\ f[1] = "BLOCK" /\ f[2] = id /\ f[3] = k
  BY DEF Block
<1>4. \A f, id : <<f, 2>> = GoodResult(id) => f = <<"RESULT", id, TRUE>> /\ f[1] = "RESULT" /\ f[2] = id
  BY DEF GoodResult
<1>5. \A f, id, k : <<f, 1>> # Block(id, k) /\ <<f, 1>> # GoodResult(id)
  BY DEF Block, GoodResult
<1> QED
  BY <1>1, <1>2, <1>3, <1>4, <1>5

\* The pieces of a frame, one by one.
LEMMA UpcomingIs ==
    ASSUME NEW p \in Seq(Frame), NEW r \in Seq(Piece)
    PROVE  /\ Upcoming(p, r) \in Seq(Piece) /\ Len(Upcoming(p, r)) = Len(p) + Len(r)
           /\ Len(p) \in Nat /\ Len(r) \in Nat
           /\ \A i \in 1 .. Len(p) : Upcoming(p, r)[i] = <<p[i], 2>>
           /\ \A i \in 1 .. Len(r) : Upcoming(p, r)[Len(p) + i] = r[i]
<1> DEFINE n == Len(p)
           m == Len(r)
           u == Upcoming(p, r)
<1>1. n \in Nat /\ m \in Nat
  OBVIOUS
<1>2. \A i \in 1 .. n : p[i] \in Frame
  OBVIOUS
<1>3. \A i \in 1 .. m : r[i] \in Piece
  OBVIOUS
<1>4. u = [i \in 1 .. n + m |-> IF i <= n THEN <<p[i], 2>> ELSE r[i - n]]
  BY DEF Upcoming
<1> HIDE DEF n, m, u
<1>5. ASSUME NEW i \in 1 .. n + m
      PROVE  (IF i <= n THEN <<p[i], 2>> ELSE r[i - n]) \in Piece
  <2>1. CASE i <= n
    <3>1. p[i] \in Frame
      BY <1>1, <1>2, <2>1
    <3> QED
      BY <2>1, <3>1 DEF Piece
  <2>2. CASE ~(i <= n)
    <3>1. i - n \in 1 .. m
      BY <1>1, <2>2
    <3> QED
      BY <1>3, <2>2, <3>1
  <2> QED
    BY <2>1, <2>2
<1>6. n + m \in Nat
  BY <1>1
<1>7. u \in [1 .. n + m -> Piece]
  BY <1>4, <1>5
<1>8. u \in Seq(Piece) /\ Len(u) = n + m
  BY <1>6, <1>7
<1>9. \A i \in 1 .. n : u[i] = <<p[i], 2>>
  BY <1>1, <1>4
<1>10. \A i \in 1 .. m : u[n + i] = r[i]
  <2>1. \A i \in 1 .. m : n + i \in 1 .. n + m /\ ~(n + i <= n) /\ (n + i) - n = i
    BY <1>1
  <2> QED
    BY <1>4, <2>1
<1> QED
  BY <1>1, <1>8, <1>9, <1>10 DEF n, m, u

\* A piece is added at the end.
LEMMA AddPiece ==
    ASSUME NEW u \in Seq(Piece), NEW v \in Seq(Piece), Len(v) = Len(u) + 1,
           \A i \in 1 .. Len(u) : v[i] = u[i],
           NEW id, NEW lo \in Nat, Ordered(u, id, lo),
           \A k \in 1 .. Blocks : v[Len(v)] = Block(id, k) => Covers(u, Len(u), id, lo, k - 1),
           v[Len(v)] = GoodResult(id) => Covers(u, Len(u), id, lo, Blocks)
    PROVE  /\ Ordered(v, id, lo)
           /\ \A hi : Covers(u, Len(u), id, lo, hi) => Covers(v, Len(v), id, lo, hi)
<1> DEFINE n == Len(u)
<1>1. n \in Nat /\ Len(v) = n + 1
  OBVIOUS
<1> HIDE DEF n
<1>2. ASSUME NEW k \in 0 .. n, NEW m \in Nat, m >= k, NEW hi, Covers(u, k, id, lo, hi)
      PROVE  Covers(v, m, id, lo, hi)
  <2>1. \A q \in 1 .. k : q \in 1 .. m /\ q \in 1 .. n
    BY <1>1, <1>2
  <2>2. \A q \in 1 .. k : v[q] = u[q]
    BY <2>1 DEF n
  <2> QED
    BY <1>2, <2>1, <2>2 DEF Covers
<1>3. ASSUME NEW p \in 1 .. n + 1 PROVE OrderedAt(v, p, id, lo)
  <2>1. CASE p = n + 1
    <3>1. p - 1 = n /\ n \in 0 .. n /\ p - 1 \in Nat
      BY <1>1, <2>1
    <3>2. v[p] = v[Len(v)]
      BY <1>1, <2>1
    <3>3. \A hi : Covers(u, n, id, lo, hi) => Covers(v, p - 1, id, lo, hi)
      BY <1>2, <3>1
    <3> QED
      BY <3>2, <3>3 DEF OrderedAt, n
  <2>2. CASE p # n + 1
    <3>1. p \in 1 .. n /\ p - 1 \in 0 .. n /\ p - 1 \in Nat
      BY <1>1, <2>2
    <3>2. v[p] = u[p] /\ OrderedAt(u, p, id, lo)
      BY <3>1 DEF Ordered, n
    <3>3. \A hi : Covers(u, p - 1, id, lo, hi) => Covers(v, p - 1, id, lo, hi)
      BY <1>2, <3>1
    <3> QED
      BY <3>2, <3>3 DEF OrderedAt
  <2> QED
    BY <2>1, <2>2
<1>4. \A hi : Covers(u, n, id, lo, hi) => Covers(v, n + 1, id, lo, hi)
  <2>1. n \in 0 .. n /\ n + 1 \in Nat /\ n + 1 >= n
    BY <1>1
  <2> QED
    BY <1>2, <2>1
<1> QED
  BY <1>1, <1>3, <1>4 DEF Ordered, n

\* A piece is taken out that is no block beyond lo2.
LEMMA RemovePiece ==
    ASSUME NEW u \in Seq(Piece), NEW v \in Seq(Piece), NEW m \in 1 .. Len(u), Len(v) = Len(u) - 1,
           \A i \in 1 .. m - 1 : v[i] = u[i], \A i \in m .. Len(v) : v[i] = u[i + 1],
           NEW id, NEW lo \in Nat, NEW lo2 \in Nat, lo <= lo2,
           \A j \in lo2 + 1 .. Blocks : u[m] # Block(id, j),
           Ordered(u, id, lo)
    PROVE  /\ Ordered(v, id, lo2)
           /\ \A hi \in 0 .. Blocks : Covers(u, Len(u), id, lo, hi) => Covers(v, Len(v), id, lo2, hi)
<1> DEFINE n == Len(u)
           w == Len(v)
<1>1. n \in Nat /\ m \in 1 .. n /\ Blocks \in Nat /\ w = n - 1 /\ w \in Nat
  BY UsbAssumption
<1>2. (\A i \in 1 .. m - 1 : v[i] = u[i]) /\ (\A i \in m .. w : v[i] = u[i + 1])
  OBVIOUS
<1>3. \A p \in 1 .. n : OrderedAt(u, p, id, lo)
  BY DEF Ordered
<1> HIDE DEF n, w
<1>4. ASSUME NEW k \in 0 .. n, NEW l \in 0 .. w, (k < m /\ l = k) \/ (k >= m /\ l = k - 1),
             NEW hi \in 0 .. Blocks, Covers(u, k, id, lo, hi)
      PROVE  Covers(v, l, id, lo2, hi)
  <2> SUFFICES ASSUME NEW j \in lo2 + 1 .. hi PROVE \E q \in 1 .. l : v[q] = Block(id, j)
    BY DEF Covers
  <2>1. j \in lo + 1 .. hi /\ j \in lo2 + 1 .. Blocks
    BY <1>1
  <2>2. PICK q \in 1 .. k : u[q] = Block(id, j)
    BY <1>4, <2>1 DEF Covers
  <2>3. q # m
    BY <2>1, <2>2
  <2>4. CASE q < m
    <3>1. q \in 1 .. m - 1 /\ q \in 1 .. l
      BY <1>1, <1>4, <2>4
    <3> QED
      BY <1>2, <2>2, <3>1
  <2>5. CASE q > m
    <3>1. q - 1 \in m .. w /\ q - 1 \in 1 .. l /\ (q - 1) + 1 = q
      BY <1>1, <1>4, <2>5
    <3> QED
      BY <1>2, <2>2, <3>1
  <2> QED
    BY <1>1, <2>3, <2>4, <2>5
<1>5. ASSUME NEW p \in 1 .. w PROVE OrderedAt(v, p, id, lo2)
  <2>1. CASE p < m
    <3>1. p \in 1 .. m - 1 /\ p \in 1 .. n /\ p - 1 \in 0 .. n /\ p - 1 \in 0 .. w /\ p - 1 < m
      BY <1>1, <2>1
    <3>2. v[p] = u[p] /\ OrderedAt(u, p, id, lo)
      BY <1>2, <1>3, <3>1
    <3>3. \A hi \in 0 .. Blocks : Covers(u, p - 1, id, lo, hi) => Covers(v, p - 1, id, lo2, hi)
      BY <1>4, <3>1
    <3>4. Blocks \in 0 .. Blocks /\ \A k \in 1 .. Blocks : k - 1 \in 0 .. Blocks
      BY <1>1
    <3> QED
      BY <3>2, <3>3, <3>4 DEF OrderedAt
  <2>2. CASE ~(p < m)
    <3>1. p \in m .. w /\ p + 1 \in 1 .. n /\ p \in 0 .. n /\ p - 1 \in 0 .. w /\ p >= m /\ (p + 1) - 1 = p
      BY <1>1, <2>2
    <3>2. v[p] = u[p + 1] /\ OrderedAt(u, p + 1, id, lo)
      BY <1>2, <1>3, <3>1
    <3>3. \A hi \in 0 .. Blocks : Covers(u, p, id, lo, hi) => Covers(v, p - 1, id, lo2, hi)
      BY <1>4, <3>1
    <3>4. Blocks \in 0 .. Blocks /\ \A k \in 1 .. Blocks : k - 1 \in 0 .. Blocks
      BY <1>1
    <3> QED
      BY <3>1, <3>2, <3>3, <3>4 DEF OrderedAt
  <2> QED
    BY <2>1, <2>2
<1>6. \A hi \in 0 .. Blocks : Covers(u, n, id, lo, hi) => Covers(v, w, id, lo2, hi)
  <2>1. n \in 0 .. n /\ w \in 0 .. w /\ n >= m /\ w = n - 1
    BY <1>1
  <2> QED
    BY <1>4, <2>1
<1> QED
  BY <1>5, <1>6 DEF Ordered, n, w

\* The fields of a result.
LEMMA ResultIs ==
    ASSUME NEW f \in Frame, f[1] = "RESULT"
    PROVE  f[2] \in Id
<1>1. \/ f \in {"RESPONSE"} \X Id \X BOOLEAN
      \/ f \in {"BLOCK"} \X Id \X (1 .. Blocks)
      \/ f \in {"RESULT"} \X Id \X BOOLEAN
      \/ f = <<"ERROR">>
  BY DEF Frame
<1>2. CASE f \in {"RESPONSE"} \X Id \X BOOLEAN
  BY <1>2
<1>3. CASE f \in {"BLOCK"} \X Id \X (1 .. Blocks)
  BY <1>3
<1>4. CASE f \in {"RESULT"} \X Id \X BOOLEAN
  BY <1>4
<1>5. CASE f = <<"ERROR">>
  BY <1>5
<1> QED
  BY <1>1, <1>2, <1>3, <1>4, <1>5

\* A frame that is sent is two pieces at the end.
LEMMA TwoPieces ==
    ASSUME NEW r \in Seq(Piece), NEW f \in Frame
    PROVE  /\ <<f, 1>> \in Piece /\ <<f, 2>> \in Piece
           /\ r \o Pieces(f) \in Seq(Piece) /\ Len(r) \in Nat /\ Len(r \o Pieces(f)) = Len(r) + 2
           /\ \A i \in 1 .. Len(r) : (r \o Pieces(f))[i] = r[i]
           /\ (r \o Pieces(f))[Len(r) + 1] = <<f, 1>> /\ (r \o Pieces(f))[Len(r) + 2] = <<f, 2>>
<1> DEFINE x == <<f, 1>>
           y == <<f, 2>>
           t == <<x, y>>
           n == Len(r)
<1>1. x \in Piece /\ y \in Piece
  BY DEF Piece
<1> HIDE DEF x, y
<1>2. t \in Seq(Piece) /\ Len(t) = 2 /\ t[1] = x /\ t[2] = y
  BY <1>1
<1>3. Pieces(f) = t
  BY DEF Pieces, x, y
<1> HIDE DEF t
<1>4. r \o t \in Seq(Piece) /\ Glued(r, t, r \o t)
  BY <1>2, Glue
<1>5. n \in Nat
  OBVIOUS
<1>6. 1 \in 1 .. 2 /\ 2 \in 1 .. 2
  OBVIOUS
<1> QED
  BY <1>1, <1>2, <1>3, <1>4, <1>5, <1>6 DEF Glued, x, y, n

\* Whole frames stay so when another is sent.
LEMMA PairedAdd ==
    ASSUME NEW r \in Seq(Piece), NEW f \in Frame, NEW part, Paired(part, r)
    PROVE  Paired(part, r \o Pieces(f))
<1> DEFINE t == r \o Pieces(f)
           n == Len(r)
<1>1. /\ n \in Nat /\ Len(t) = n + 2 /\ (\A i \in 1 .. n : t[i] = r[i])
      /\ t[n + 1] = <<f, 1>> /\ t[n + 2] = <<f, 2>>
  BY TwoPieces
<1> HIDE DEF t
<1>2. ASSUME NEW k \in {1, 2}, k <= n + 1, WholeFrom(r, k) PROVE WholeFrom(t, k)
  <2>1. \A i \in k .. n : /\ r[i][2] = 1 => i < n /\ r[i + 1] = <<r[i][1], 2>>
                          /\ r[i][2] = 2 => i > k /\ r[i - 1] = <<r[i][1], 1>>
    BY <1>2 DEF WholeFrom
  <2> HIDE DEF n
  <2> SUFFICES ASSUME NEW i \in k .. n + 2
               PROVE  /\ t[i][2] = 1 => i < n + 2 /\ t[i + 1] = <<t[i][1], 2>>
                      /\ t[i][2] = 2 => i > k /\ t[i - 1] = <<t[i][1], 1>>
    BY <1>1 DEF WholeFrom
  <2>2. CASE i \in k .. n
    <3>1. i \in 1 .. n /\ i < n + 2 /\ (i < n => i + 1 \in 1 .. n) /\ (i > k => i - 1 \in 1 .. n)
      BY <1>1, <1>2, <2>2
    <3> QED
      BY <1>1, <2>1, <2>2, <3>1
  <2>3. CASE i = n + 1
    <3>1. i < n + 2 /\ i + 1 = n + 2
      BY <1>1, <2>3
    <3> QED
      BY <1>1, <2>3, <3>1
  <2>4. CASE i = n + 2
    <3>1. i > k /\ i - 1 = n + 1
      BY <1>1, <1>2, <2>4
    <3> QED
      BY <1>1, <2>4, <3>1
  <2> QED
    BY <1>1, <1>2, <2>2, <2>3, <2>4
<1>3. 1 <= n + 1 /\ (n >= 1 => 2 <= n + 1 /\ Len(t) >= 1 /\ 1 \in 1 .. n)
  BY <1>1
<1>4. CASE part = <<>> /\ WholeFrom(r, 1)
  BY <1>2, <1>3, <1>4 DEF Paired, t
<1>5. CASE n >= 1 /\ part = <<r[1][1]>> /\ r[1][2] = 2 /\ WholeFrom(r, 2)
  <2>1. t[1] = r[1] /\ WholeFrom(t, 2)
    BY <1>1, <1>2, <1>3, <1>5
  <2> QED
    BY <1>3, <1>5, <2>1 DEF Paired, t
<1> QED
  BY <1>4, <1>5 DEF Paired, n

\* What reading one piece leaves.
LEMMA PairedRead ==
    ASSUME NEW r \in Seq(Piece), r # <<>>, NEW part, Paired(part, r)
    PROVE  /\ r[1][2] = 1 => part = <<>> /\ Paired(<<r[1][1]>>, Tail(r))
           /\ r[1][2] = 2 => part = <<r[1][1]>> /\ Paired(<<>>, Tail(r))
<1> DEFINE t == Tail(r)
           n == Len(r)
<1>1. n \in Nat /\ n >= 1 /\ Len(t) = n - 1 /\ \A i \in 1 .. n - 1 : t[i] = r[i + 1]
  <2>1. Len(t) = n - 1 /\ n \in Nat /\ \A i \in 1 .. Len(t) : t[i] = r[i + 1]
    BY HeadTailProperties
  <2>2. n # 0
    BY EmptySeq
  <2> HIDE DEF t, n
  <2> QED
    BY <2>1, <2>2
<1> HIDE DEF t, n
<1>2. ASSUME NEW k \in {1, 2}, NEW l \in {1, 2}, WholeFrom(r, k), k <= l + 1,
             l = 1 \/ r[2][2] # 1, k = 2 \/ l = 2
      PROVE  WholeFrom(t, l)
  <2>1. \A i \in k .. n : /\ r[i][2] = 1 => i < n /\ r[i + 1] = <<r[i][1], 2>>
                          /\ r[i][2] = 2 => i > k /\ r[i - 1] = <<r[i][1], 1>>
    BY <1>2 DEF WholeFrom, n
  <2> SUFFICES ASSUME NEW i \in l .. n - 1
               PROVE  /\ t[i][2] = 1 => i < n - 1 /\ t[i + 1] = <<t[i][1], 2>>
                      /\ t[i][2] = 2 => i > l /\ t[i - 1] = <<t[i][1], 1>>
    BY <1>1 DEF WholeFrom
  <2>2. /\ i \in 1 .. n - 1 /\ i + 1 \in k .. n /\ (i + 1) - 1 = i
        /\ (i + 1 < n => i < n - 1 /\ i + 1 \in 1 .. n - 1)
        /\ (i > l => i - 1 \in 1 .. n - 1 /\ (i - 1) + 1 = i)
    BY <1>1, <1>2
  <2>3. t[i] = r[i + 1] /\ (i + 1 < n => t[i + 1] = r[(i + 1) + 1]) /\ (i > l => t[i - 1] = r[i])
    BY <1>1, <2>2
  <2>4. /\ r[i + 1][2] = 1 => i + 1 < n /\ r[(i + 1) + 1] = <<r[i + 1][1], 2>>
        /\ r[i + 1][2] = 2 => i + 1 > k /\ r[i] = <<r[i + 1][1], 1>>
    BY <2>1, <2>2
  <2>5. ASSUME r[i + 1][2] = 2 PROVE i > l
    <3>1. i + 1 > k /\ r[i][2] = 1
      BY <2>4, <2>5
    <3>2. CASE l = 2
      <4>1. i # 2
        BY <1>2, <3>1, <3>2
      <4> QED
        BY <3>2, <4>1
    <3>3. CASE l = 1
      BY <1>2, <3>1, <3>3
    <3> QED
      BY <3>2, <3>3
  <2> QED
    BY <2>2, <2>3, <2>4, <2>5
<1>3. CASE part = <<>> /\ WholeFrom(r, 1)
  <2>1. 1 \in 1 .. n /\ 1 + 1 = 2 /\ (1 < n => 1 \in 1 .. n - 1 /\ n - 1 >= 1)
    BY <1>1
  <2>2. /\ r[1][2] = 1 => 1 < n /\ r[2] = <<r[1][1], 2>>
        /\ r[1][2] # 2
    BY <1>3, <2>1 DEF WholeFrom, n
  <2>3. ASSUME r[1][2] = 1 PROVE Paired(<<r[1][1]>>, t)
    <3>1. t[1] = <<r[1][1], 2>> /\ Len(t) >= 1 /\ r[2][2] # 1
      BY <1>1, <2>1, <2>2, <2>3
    <3>2. WholeFrom(t, 2)
      BY <1>2, <1>3, <3>1
    <3> QED
      BY <3>1, <3>2 DEF Paired
  <2> QED
    BY <1>3, <2>2, <2>3 DEF t
<1>4. CASE part = <<r[1][1]>> /\ r[1][2] = 2 /\ WholeFrom(r, 2)
  <2>1. WholeFrom(t, 1)
    BY <1>2, <1>4
  <2> QED
    BY <1>4, <2>1 DEF Paired, t
<1> QED
  BY <1>3, <1>4 DEF Paired

\* A frame may follow what is to come.
Fitting(u, id, lo, f) ==
    /\ Ordered(u, id, lo)
    /\ \A k \in 1 .. Blocks : f = <<"BLOCK", id, k>> => Covers(u, Len(u), id, lo, k - 1)
    /\ f = <<"RESULT", id, TRUE>> => Covers(u, Len(u), id, lo, Blocks)

\* It has been added.
Added(u, v, id, lo, f) ==
    /\ Ordered(v, id, lo)
    /\ \A hi : Covers(u, Len(u), id, lo, hi) => Covers(v, Len(v), id, lo, hi)
    /\ \E q \in 1 .. Len(v) : v[q] = <<f, 2>>

\* A frame that is sent is added to what is to come.
LEMMA FrameAdded ==
    ASSUME NEW p \in Seq(Frame), NEW r \in Seq(Piece), NEW f \in Frame, NEW t, t = r \o Pieces(f),
           NEW id, NEW lo \in Nat, NEW u, u = Upcoming(p, r), Fitting(u, id, lo, f)
    PROVE  Added(u, Upcoming(p, t), id, lo, f)
<1> DEFINE v == Upcoming(p, t)
           x == <<f, 1>>
           y == <<f, 2>>
           w == Append(u, x)
           n == Len(u)
           z == Len(r)
           a == Len(p)
<1>1. /\ x \in Piece /\ y \in Piece /\ t \in Seq(Piece) /\ z \in Nat /\ Len(t) = z + 2
      /\ (\A i \in 1 .. z : t[i] = r[i]) /\ t[z + 1] = x /\ t[z + 2] = y
  BY TwoPieces
<1>2. /\ u \in Seq(Piece) /\ n = a + z /\ a \in Nat
      /\ (\A i \in 1 .. a : u[i] = <<p[i], 2>>) /\ (\A i \in 1 .. z : u[a + i] = r[i])
  <2> DEFINE b == Upcoming(p, r)
  <2>1. /\ b \in Seq(Piece) /\ Len(b) = a + z /\ a \in Nat
        /\ (\A i \in 1 .. a : b[i] = <<p[i], 2>>) /\ (\A i \in 1 .. z : b[a + i] = r[i])
    BY UpcomingIs
  <2>2. u = b
    OBVIOUS
  <2> HIDE DEF b, a, z
  <2> QED
    BY <2>1, <2>2
<1>3. /\ v \in Seq(Piece) /\ Len(v) = a + Len(t)
      /\ (\A i \in 1 .. a : v[i] = <<p[i], 2>>) /\ (\A i \in 1 .. Len(t) : v[a + i] = t[i])
  <2>1. t \in Seq(Piece)
    BY <1>1
  <2> QED
    BY <2>1, UpcomingIs
<1>4. /\ w \in Seq(Piece) /\ Len(w) = n + 1 /\ (\A i \in 1 .. n : w[i] = u[i]) /\ w[n + 1] = x
  <2>1. x \in Piece /\ u \in Seq(Piece)
    BY <1>1, <1>2
  <2> HIDE DEF x
  <2> QED
    BY <2>1, AppendProperties
<1>f. /\ \A k \in 1 .. Blocks : x # Block(id, k)
      /\ x # GoodResult(id)
      /\ \A k \in 1 .. Blocks : y = Block(id, k) => f = <<"BLOCK", id, k>>
      /\ y = GoodResult(id) => f = <<"RESULT", id, TRUE>>
  <2>1. \A k : x # Block(id, k)
    BY BlockFacts
  <2>2. x # GoodResult(id)
    BY BlockFacts
  <2>3. \A k : y = Block(id, k) => f = <<"BLOCK", id, k>>
    BY BlockFacts
  <2>4. y = GoodResult(id) => f = <<"RESULT", id, TRUE>>
    BY BlockFacts
  <2> QED
    BY <2>1, <2>2, <2>3, <2>4
<1>g. /\ \A k \in 1 .. Blocks : y = Block(id, k) => Covers(u, n, id, lo, k - 1)
      /\ y = GoodResult(id) => Covers(u, n, id, lo, Blocks)
  BY <1>f DEF Fitting
<1>o. Ordered(u, id, lo)
  BY DEF Fitting
<1> HIDE DEF v, w, n, x, y, z, a
<1>5. Len(v) = n + 2 /\ v[n + 1] = x /\ v[n + 2] = y /\ \A i \in 1 .. n : v[i] = u[i]
  <2>1. n \in Nat /\ Len(v) = n + 2 /\ a + (z + 1) = n + 1 /\ a + (z + 2) = n + 2
        /\ z + 1 \in 1 .. z + 2 /\ z + 2 \in 1 .. z + 2 /\ \A i \in 1 .. z : i \in 1 .. z + 2
    BY <1>1, <1>2, <1>3
  <2>2. v[n + 1] = x /\ v[n + 2] = y
    BY <1>1, <1>3, <2>1
  <2>3. ASSUME NEW i \in 1 .. n PROVE v[i] = u[i]
    <3>1. i \in 1 .. a \/ (i - a \in 1 .. z /\ a + (i - a) = i)
      BY SMTT(30), <1>1, <1>2
    <3>2. CASE i \in 1 .. a
      BY <1>2, <1>3, <3>2
    <3>3. CASE i - a \in 1 .. z /\ a + (i - a) = i
      <4>1. v[a + (i - a)] = t[i - a] /\ t[i - a] = r[i - a] /\ u[a + (i - a)] = r[i - a]
        BY <1>1, <1>2, <1>3, <2>1, <3>3
      <4> QED
        BY <3>3, <4>1
    <3> QED
      BY <3>1, <3>2, <3>3
  <2> QED
    BY <2>1, <2>2, <2>3
<1>6. n \in Nat /\ n = Len(u) /\ (n + 1) + 1 = n + 2 /\ n + 2 \in 1 .. n + 2
  <2>1. n \in Nat
    BY <1>1, <1>2
  <2> QED
    BY <2>1 DEF n
<1>7. /\ Ordered(w, id, lo)
      /\ \A hi : Covers(u, n, id, lo, hi) => Covers(w, n + 1, id, lo, hi)
  <2>1. w[Len(w)] = x
    BY <1>4
  <2>2. /\ \A k \in 1 .. Blocks : w[Len(w)] = Block(id, k) => Covers(u, Len(u), id, lo, k - 1)
        /\ w[Len(w)] = GoodResult(id) => Covers(u, Len(u), id, lo, Blocks)
    BY <1>f, <2>1
  <2>3. Len(w) = Len(u) + 1 /\ \A i \in 1 .. Len(u) : w[i] = u[i]
    BY <1>4, <1>6
  <2>4. /\ Ordered(w, id, lo)
        /\ \A hi : Covers(u, Len(u), id, lo, hi) => Covers(w, Len(w), id, lo, hi)
    BY <1>2, <1>4, <1>o, <2>2, <2>3, AddPiece
  <2> QED
    BY <1>4, <1>6, <2>4
<1>8. /\ Ordered(v, id, lo)
      /\ \A hi : Covers(w, n + 1, id, lo, hi) => Covers(v, Len(v), id, lo, hi)
  <2>1. v[Len(v)] = y /\ Len(v) = Len(w) + 1 /\ Len(w) = n + 1
    BY <1>4, <1>5, <1>6
  <2>2. /\ \A k \in 1 .. Blocks : v[Len(v)] = Block(id, k) => Covers(w, Len(w), id, lo, k - 1)
        /\ v[Len(v)] = GoodResult(id) => Covers(w, Len(w), id, lo, Blocks)
    BY <1>g, <1>7, <2>1
  <2>3. \A i \in 1 .. Len(w) : v[i] = w[i]
    <3>1. ASSUME NEW i \in 1 .. n + 1 PROVE v[i] = w[i]
      <4>1. i \in 1 .. n \/ i = n + 1
        BY <1>6
      <4> QED
        BY <1>4, <1>5, <4>1
    <3> QED
      BY <2>1, <3>1
  <2>4. /\ Ordered(v, id, lo)
        /\ \A hi : Covers(w, Len(w), id, lo, hi) => Covers(v, Len(v), id, lo, hi)
    BY <1>3, <1>4, <1>7, <2>1, <2>2, <2>3, AddPiece
  <2> QED
    BY <2>1, <2>4
<1>9. \E q \in 1 .. Len(v) : v[q] = y
  BY <1>5, <1>6
<1>10. \A hi : Covers(u, n, id, lo, hi) => Covers(v, Len(v), id, lo, hi)
  BY <1>7, <1>8
<1> QED
  BY <1>6, <1>8, <1>9, <1>10 DEF v, y, Added

\* Without an event of its own, what is to come fits.
LEMMA NoneOfIts ==
    ASSUME NEW u, NEW id, NEW lo,
           \A i \in 1 .. Len(u) : (\A k \in 1 .. Blocks : u[i] # Block(id, k)) /\ u[i] # GoodResult(id)
    PROVE  Ordered(u, id, lo)
  BY DEF Ordered, OrderedAt

\* The process goes on after the event at the head of u.
Fits(f, u, at, image) ==
    /\ InBackup(f) = [host EXCEPT !.at = at, !.image = image]
    /\ at # "BROKEN" /\ image \in Seq(Id \X (1 .. Blocks))
    /\ Len(host.image) \in Nat /\ Len(image) \in Nat /\ Len(host.image) <= Len(image)
    /\ Len(image) <= Blocks /\ \A j \in 1 .. Len(image) : image[j] = <<host.id, j>>
    /\ \A j \in Len(image) + 1 .. Blocks : u[1] # Block(host.id, j)

\* The next event of what is to come never breaks the process.
LEMMA HeadFits ==
    ASSUME host \in HostType, host.at # "BROKEN", NEW f \in Frame, NEW u \in Seq(Piece),
           Len(u) >= 1, u[1] = <<f, 2>>, Received(host), Ordered(u, host.id, Len(host.image))
    PROVE  InBackup(f) = Process \/ \E at, image : Fits(f, u, at, image)
<1> DEFINE lo == Len(host.image)
           id == host.id
<1>1. /\ host.image \in Seq(Id \X (1 .. Blocks)) /\ lo \in Nat /\ Blocks \in Nat /\ lo <= Blocks
      /\ \A j \in 1 .. lo : host.image[j] = <<id, j>>
  <2>1. host.image \in Seq(Id \X (1 .. Blocks)) /\ Blocks \in Nat
    BY HostFields, UsbAssumption
  <2>2. lo \in Nat
    BY <2>1
  <2> QED
    BY <2>1, <2>2 DEF Received
<1>2. /\ \A k \in 1 .. Blocks : u[1] = Block(id, k) => Covers(u, 0, id, lo, k - 1)
      /\ u[1] = GoodResult(id) => Covers(u, 0, id, lo, Blocks)
  <2>1. 1 \in 1 .. Len(u) /\ 1 - 1 = 0
    OBVIOUS
  <2>2. OrderedAt(u, 1, id, lo)
    BY <2>1 DEF Ordered
  <2> QED
    BY <2>1, <2>2 DEF OrderedAt
<1>3. ASSUME NEW hi \in Nat, hi > lo PROVE ~Covers(u, 0, id, lo, hi)
  <2> HIDE DEF lo
  <2>1. lo + 1 \in lo + 1 .. hi /\ \A q : q \notin 1 .. 0
    BY <1>1, <1>3
  <2> QED
    BY <2>1 DEF Covers
<1>4. \A k : u[1] = Block(id, k) => f[1] = "BLOCK" /\ f[2] = id /\ f[3] = k
  <2>1. \A k : <<f, 2>> = Block(id, k) => f[1] = "BLOCK" /\ f[2] = id /\ f[3] = k
    BY BlockFacts
  <2> QED
    BY <2>1
<1>5. f[1] = "BLOCK" => f[3] \in 1 .. Blocks
  BY BlockIs
<1>6. /\ f[1] = "BLOCK" /\ Own(f) => u[1] = Block(id, f[3])
      /\ f[1] = "RESULT" /\ Own(f) /\ f[3] => u[1] = GoodResult(id)
  <2>1. \/ f \in {"RESPONSE"} \X Id \X BOOLEAN
        \/ f \in {"BLOCK"} \X Id \X (1 .. Blocks)
        \/ f \in {"RESULT"} \X Id \X BOOLEAN
        \/ f = <<"ERROR">>
    BY DEF Frame
  <2>2. CASE f \in {"RESPONSE"} \X Id \X BOOLEAN
    <3>1. f[1] = "RESPONSE"
      BY <2>2
    <3> QED
      BY <3>1
  <2>3. CASE f \in {"BLOCK"} \X Id \X (1 .. Blocks)
    <3>1. f[1] = "BLOCK" /\ f = <<"BLOCK", f[2], f[3]>>
      BY <2>3
    <3>2. Own(f) => u[1] = Block(id, f[3])
      BY <3>1 DEF Own, Block
    <3> QED
      BY <3>1, <3>2
  <2>4. CASE f \in {"RESULT"} \X Id \X BOOLEAN
    <3>1. f[1] = "RESULT" /\ f = <<"RESULT", f[2], f[3]>> /\ f[3] \in BOOLEAN
      BY <2>4
    <3>2. Own(f) /\ f[3] => u[1] = GoodResult(id)
      <4> SUFFICES ASSUME Own(f), f[3] PROVE u[1] = GoodResult(id)
        OBVIOUS
      <4>1. f[2] = id /\ f[3] = TRUE
        BY <3>1 DEF Own
      <4> QED
        BY <3>1, <4>1 DEF GoodResult
    <3> QED
      BY <3>1, <3>2
  <2>5. CASE f = <<"ERROR">>
    <3>1. f[1] = "ERROR"
      BY <2>5
    <3> QED
      BY <3>1
  <2> QED
    BY <2>1, <2>2, <2>3, <2>4, <2>5
<1>7. CASE InBackup(f) = host /\ ~(f[1] = "BLOCK" /\ Own(f) /\ f[3] > lo)
  <2>1. host = [host EXCEPT !.at = host.at, !.image = host.image]
    BY DEF HostType
  <2>2. \A j \in lo + 1 .. Blocks : u[1] # Block(id, j)
    <3> SUFFICES ASSUME NEW j \in lo + 1 .. Blocks, u[1] = Block(id, j) PROVE FALSE
      OBVIOUS
    <3>1. f[1] = "BLOCK" /\ Own(f) /\ f[3] = j
      BY <1>4 DEF Own
    <3> HIDE DEF lo
    <3> QED
      BY <1>1, <1>7, <3>1
  <2>3. Fits(f, u, host.at, host.image)
    BY <1>1, <1>7, <2>1, <2>2 DEF Fits
  <2> QED
    BY <2>3
<1>8. CASE /\ f[1] = "BLOCK" /\ Own(f) /\ f[3] = lo + 1
           /\ InBackup(f) = [host EXCEPT !.image = Append(@, <<f[2], f[3]>>)]
  <2> DEFINE S == Id \X (1 .. Blocks)
             x == <<f[2], f[3]>>
             image == Append(host.image, x)
  <2>1. x \in S /\ f[3] \in 1 .. Blocks
    BY <1>8, BlockIs
  <2>2. f[2] = id
    BY <1>8 DEF Own
  <2>3. x = <<id, lo + 1>>
    BY <1>8, <2>2
  <2>4. host.image \in Seq(S)
    BY <1>1
  <2> HIDE DEF x, S
  <2>5. /\ image \in Seq(S) /\ Len(image) = lo + 1 /\ (\A j \in 1 .. lo : image[j] = host.image[j])
        /\ image[lo + 1] = x /\ \A j \in 1 .. lo + 1 : j \in 1 .. lo \/ j = lo + 1
    BY <2>1, <2>4, Appended
  <2>6. InBackup(f) = [host EXCEPT !.image = image]
    BY <1>8 DEF x
  <2> HIDE DEF image
  <2>7. InBackup(f) = [host EXCEPT !.at = host.at, !.image = image]
    BY <2>6 DEF HostType
  <2>8. \A j \in 1 .. lo + 1 : image[j] = <<id, j>>
    BY <1>1, <2>3, <2>5
  <2>9. \A j \in Len(image) + 1 .. Blocks : u[1] # Block(id, j)
    <3> SUFFICES ASSUME NEW j \in Len(image) + 1 .. Blocks, u[1] = Block(id, j) PROVE FALSE
      OBVIOUS
    <3>1. lo + 1 = j
      BY <1>4, <1>8
    <3> HIDE DEF lo
    <3> QED
      BY <1>1, <2>5, <3>1
  <2>10. lo + 1 \in Nat /\ lo <= lo + 1 /\ lo + 1 <= Blocks
    <3>1. lo + 1 \in 1 .. Blocks
      BY <1>8, <2>1
    <3> HIDE DEF lo
    <3> QED
      BY <1>1, <3>1
  <2>11. Len(image) \in Nat /\ Len(image) <= Blocks /\ lo <= Len(image)
    BY <2>5, <2>10
  <2>12. Fits(f, u, host.at, image)
    BY <1>1, <2>5, <2>7, <2>8, <2>9, <2>11 DEF Fits, S
  <2> QED
    BY <2>12
<1>9. CASE f[1] = "RESULT" /\ InBackup(f) = [host EXCEPT !.at = "IDLE"]
  <2>1. InBackup(f) = [host EXCEPT !.at = "IDLE", !.image = host.image]
    BY <1>9 DEF HostType
  <2>2. \A j \in lo + 1 .. Blocks : u[1] # Block(id, j)
    BY <1>4, <1>9
  <2>3. "IDLE" # "BROKEN"
    OBVIOUS
  <2>4. Fits(f, u, "IDLE", host.image)
    BY <1>1, <2>1, <2>2, <2>3 DEF Fits
  <2> QED
    BY <2>4
<1>10. CASE /\ f[1] = "BLOCK" /\ Own(f) /\ f[3] # lo + 1
            /\ ~(f[3] <= lo /\ host.image[f[3]] = <<f[2], f[3]>>)
  <2>1. f[2] = id /\ f[3] \in 1 .. Blocks
    BY <1>5, <1>10 DEF Own
  <2> HIDE DEF lo
  <2>2. f[3] > lo
    <3> SUFFICES ASSUME ~(f[3] > lo) PROVE FALSE
      OBVIOUS
    <3>1. f[3] \in 1 .. lo /\ f[3] <= lo
      BY <1>1, <2>1
    <3> QED
      BY <1>1, <1>10, <2>1, <3>1
  <2>3. f[3] - 1 \in Nat /\ f[3] - 1 > lo
    BY SMTT(30), <1>1, <1>10, <2>1, <2>2
  <2> QED
    BY <1>2, <1>3, <1>6, <1>10, <2>1, <2>3 DEF lo
<1>11. CASE f[1] = "RESULT" /\ Own(f) /\ f[3] /\ host.image # Flash(f[2])
  <2>1. Covers(u, 0, id, lo, Blocks) /\ f[2] = id
    BY <1>2, <1>6, <1>11 DEF Own
  <2>2. lo = Blocks
    <3>1. ~(Blocks > lo)
      BY <1>1, <1>3, <2>1
    <3> HIDE DEF lo
    <3> QED
      BY <1>1, <3>1
  <2>3. host.image = [k \in 1 .. Blocks |-> <<id, k>>]
    <3>1. host.image = [k \in 1 .. lo |-> host.image[k]]
      BY <1>1
    <3> HIDE DEF lo
    <3> QED
      BY <1>1, <2>2, <3>1
  <2> QED
    BY <1>11, <2>1, <2>3 DEF Flash
<1> QED
  BY <1>7, <1>8, <1>9, <1>10, <1>11, InBackupIs

\* The first event set aside is taken.
LEMMA UpcomingTail ==
    ASSUME NEW p \in Seq(Frame), p # <<>>, NEW r \in Seq(Piece)
    PROVE  /\ Tail(p) \in Seq(Frame) /\ Len(Upcoming(p, r)) \in Nat /\ 1 \in 1 .. Len(Upcoming(p, r))
           /\ Upcoming(p, r)[1] = <<Head(p), 2>>
           /\ Len(Upcoming(Tail(p), r)) = Len(Upcoming(p, r)) - 1
           /\ \A i \in 1 .. Len(Upcoming(Tail(p), r)) : Upcoming(Tail(p), r)[i] = Upcoming(p, r)[i + 1]
<1> DEFINE q == Tail(p)
           u == Upcoming(p, r)
           v == Upcoming(q, r)
           n == Len(p)
           z == Len(r)
<1>1. /\ q \in Seq(Frame) /\ n \in Nat /\ n >= 1 /\ Len(q) = n - 1 /\ Head(p) = p[1]
      /\ \A i \in 1 .. n - 1 : q[i] = p[i + 1]
  <2>1. /\ q \in Seq(Frame) /\ n \in Nat /\ Len(q) = n - 1 /\ Head(p) = p[1]
        /\ \A i \in 1 .. Len(q) : q[i] = p[i + 1]
    BY HeadTailProperties
  <2>2. n # 0
    BY EmptySeq
  <2> HIDE DEF q, n
  <2> QED
    BY <2>1, <2>2
<1>2. /\ Len(u) = n + z /\ z \in Nat /\ (\A i \in 1 .. n : u[i] = <<p[i], 2>>)
      /\ (\A i \in 1 .. z : u[n + i] = r[i])
  BY UpcomingIs
<1> HIDE DEF q
<1>3. /\ Len(v) = Len(q) + z /\ (\A i \in 1 .. Len(q) : v[i] = <<q[i], 2>>)
      /\ (\A i \in 1 .. z : v[Len(q) + i] = r[i])
  BY <1>1, UpcomingIs
<1> HIDE DEF u, v, n, z
<1>4. /\ Len(u) \in Nat /\ 1 \in 1 .. Len(u) /\ Len(v) = Len(u) - 1 /\ 1 \in 1 .. n
      /\ Len(v) = (n - 1) + z
  BY <1>1, <1>2, <1>3
<1>5. ASSUME NEW i \in 1 .. Len(v) PROVE v[i] = u[i + 1]
  <2>1. \/ i \in 1 .. n - 1 /\ i + 1 \in 1 .. n
        \/ i - (n - 1) \in 1 .. z /\ (n - 1) + (i - (n - 1)) = i /\ n + (i - (n - 1)) = i + 1
    BY <1>1, <1>2, <1>4
  <2>2. CASE i \in 1 .. n - 1 /\ i + 1 \in 1 .. n
    BY ZenonT(60), <1>1, <1>2, <1>3, <2>2
  <2>3. CASE i - (n - 1) \in 1 .. z /\ (n - 1) + (i - (n - 1)) = i /\ n + (i - (n - 1)) = i + 1
    <3>1. v[(n - 1) + (i - (n - 1))] = r[i - (n - 1)] /\ u[n + (i - (n - 1))] = r[i - (n - 1)]
      BY <1>1, <1>2, <1>3, <2>3
    <3> QED
      BY <2>3, <3>1
  <2> QED
    BY <2>1, <2>2, <2>3
<1>6. u[1] = <<Head(p), 2>>
  BY <1>1, <1>2, <1>4
<1> QED
  BY <1>1, <1>4, <1>5, <1>6 DEF q, u, v

\* The first piece under way is taken.
LEMMA UpcomingNext ==
    ASSUME NEW p \in Seq(Frame), NEW r \in Seq(Piece), r # <<>>, NEW m, m = Len(p) + 1
    PROVE  /\ Tail(r) \in Seq(Piece) /\ m \in 1 .. Len(Upcoming(p, r))
           /\ Upcoming(p, r)[m] = r[1]
           /\ Len(Upcoming(p, Tail(r))) = Len(Upcoming(p, r)) - 1
           /\ \A i \in 1 .. m - 1 : Upcoming(p, Tail(r))[i] = Upcoming(p, r)[i]
           /\ \A i \in m .. Len(Upcoming(p, Tail(r))) : Upcoming(p, Tail(r))[i] = Upcoming(p, r)[i + 1]
<1> DEFINE t == Tail(r)
           u == Upcoming(p, r)
           v == Upcoming(p, t)
           n == Len(p)
           z == Len(r)
<1>1. /\ t \in Seq(Piece) /\ z \in Nat /\ z >= 1 /\ Len(t) = z - 1
      /\ \A i \in 1 .. z - 1 : t[i] = r[i + 1]
  <2>1. t \in Seq(Piece) /\ z \in Nat /\ Len(t) = z - 1 /\ \A i \in 1 .. Len(t) : t[i] = r[i + 1]
    BY HeadTailProperties
  <2>2. z # 0
    BY EmptySeq
  <2> HIDE DEF t, z
  <2> QED
    BY <2>1, <2>2
<1>2. /\ Len(u) = n + z /\ n \in Nat /\ (\A i \in 1 .. n : u[i] = <<p[i], 2>>)
      /\ (\A i \in 1 .. z : u[n + i] = r[i])
  BY UpcomingIs
<1> HIDE DEF t
<1>3. /\ Len(v) = n + Len(t) /\ (\A i \in 1 .. n : v[i] = <<p[i], 2>>)
      /\ (\A i \in 1 .. Len(t) : v[n + i] = t[i])
  BY <1>1, UpcomingIs
<1>m. m = n + 1
  OBVIOUS
<1> HIDE DEF u, v, n, z
<1>4. m \in 1 .. Len(u) /\ Len(v) = Len(u) - 1 /\ m - 1 = n /\ 1 \in 1 .. z /\ Len(v) = n + (z - 1)
  BY <1>1, <1>2, <1>3, <1>m
<1>5. ASSUME NEW i \in m .. Len(v) PROVE v[i] = u[i + 1]
  <2>1. i - n \in 1 .. z - 1 /\ n + (i - n) = i /\ (i - n) + 1 \in 1 .. z /\ n + ((i - n) + 1) = i + 1
    BY <1>1, <1>2, <1>4
  <2>2. v[n + (i - n)] = t[i - n] /\ u[n + ((i - n) + 1)] = r[(i - n) + 1] /\ t[i - n] = r[(i - n) + 1]
    BY <1>1, <1>2, <1>3, <2>1
  <2> QED
    BY <2>1, <2>2
<1>6. u[m] = r[1]
  BY <1>2, <1>4, <1>m
<1>7. \A i \in 1 .. m - 1 : v[i] = u[i]
  BY <1>2, <1>3, <1>4
<1> QED
  BY <1>1, <1>4, <1>5, <1>6, <1>7 DEF t, u, v

\* An event that is read and set aside stays to come, at its place.
LEMMA UpcomingKept ==
    ASSUME NEW p \in Seq(Frame), NEW f \in Frame, NEW r \in Seq(Piece), r # <<>>, r[1] = <<f, 2>>
    PROVE  Append(p, f) \in Seq(Frame) /\ Upcoming(Append(p, f), Tail(r)) = Upcoming(p, r)
<1> DEFINE t == Tail(r)
           q == Append(p, f)
           u == Upcoming(p, r)
           v == Upcoming(q, t)
           n == Len(p)
           z == Len(r)
<1>1. /\ t \in Seq(Piece) /\ z \in Nat /\ z >= 1 /\ Len(t) = z - 1
      /\ \A i \in 1 .. z - 1 : t[i] = r[i + 1]
  <2>1. t \in Seq(Piece) /\ z \in Nat /\ Len(t) = z - 1 /\ \A i \in 1 .. Len(t) : t[i] = r[i + 1]
    BY HeadTailProperties
  <2>2. z # 0
    BY EmptySeq
  <2> HIDE DEF t, z
  <2> QED
    BY <2>1, <2>2
<1>2. /\ q \in Seq(Frame) /\ Len(q) = n + 1 /\ q[n + 1] = f /\ \A i \in 1 .. n : q[i] = p[i]
  BY AppendProperties
<1>3. /\ u \in Seq(Piece) /\ Len(u) = n + z /\ n \in Nat /\ (\A i \in 1 .. n : u[i] = <<p[i], 2>>)
      /\ (\A i \in 1 .. z : u[n + i] = r[i])
  BY UpcomingIs
<1> HIDE DEF t, q
<1>4. /\ v \in Seq(Piece) /\ Len(v) = Len(q) + Len(t) /\ (\A i \in 1 .. Len(q) : v[i] = <<q[i], 2>>)
      /\ (\A i \in 1 .. Len(t) : v[Len(q) + i] = t[i])
  BY <1>1, <1>2, UpcomingIs
<1>r. r[1] = <<f, 2>>
  OBVIOUS
<1> HIDE DEF u, v, n, z
<1>5. Len(v) = Len(u) /\ Len(u) \in Nat
  BY <1>1, <1>2, <1>3, <1>4
<1>6. ASSUME NEW i \in 1 .. Len(u) PROVE u[i] = v[i]
  <2>1. \/ i \in 1 .. n /\ i \in 1 .. n + 1
        \/ i = n + 1 /\ 1 \in 1 .. z /\ n + 1 \in 1 .. n + 1
        \/ /\ i - (n + 1) \in 1 .. z - 1 /\ (n + 1) + (i - (n + 1)) = i
           /\ (i - (n + 1)) + 1 \in 1 .. z /\ n + ((i - (n + 1)) + 1) = i
    BY <1>1, <1>3
  <2>2. CASE i \in 1 .. n /\ i \in 1 .. n + 1
    BY ZenonT(60), <1>2, <1>3, <1>4, <2>2
  <2>3. CASE i = n + 1 /\ 1 \in 1 .. z /\ n + 1 \in 1 .. n + 1
    <3>1. u[n + 1] = r[1] /\ v[n + 1] = <<q[n + 1], 2>>
      BY <1>2, <1>3, <1>4, <2>3
    <3> QED
      BY <1>2, <1>r, <2>3, <3>1
  <2>4. CASE /\ i - (n + 1) \in 1 .. z - 1 /\ (n + 1) + (i - (n + 1)) = i
             /\ (i - (n + 1)) + 1 \in 1 .. z /\ n + ((i - (n + 1)) + 1) = i
    <3> DEFINE k == i - (n + 1)
    <3>1. v[(n + 1) + k] = t[k] /\ t[k] = r[k + 1] /\ u[n + (k + 1)] = r[k + 1]
      BY <1>1, <1>2, <1>3, <1>4, <2>4
    <3> QED
      BY <2>4, <3>1
  <2> QED
    BY <2>1, <2>2, <2>3, <2>4
<1>7. v = u
  <2>1. u = [i \in 1 .. Len(u) |-> u[i]] /\ v = [i \in 1 .. Len(v) |-> v[i]]
    BY <1>3, <1>4
  <2> QED
    BY <1>5, <1>6, <2>1
<1> QED
  BY <1>2, <1>7 DEF u, v, q, t

\* v is u without its m-th piece; the process h, as g, goes on without that.
Without(u, v, m) ==
    /\ u \in Seq(Piece) /\ v \in Seq(Piece) /\ m \in 1 .. Len(u) /\ Len(v) = Len(u) - 1
    /\ (\A i \in 1 .. m - 1 : v[i] = u[i]) /\ \A i \in m .. Len(v) : v[i] = u[i + 1]
Passes(h, g, piece) ==
    /\ g.id = h.id /\ Len(h.image) \in Nat /\ Len(g.image) \in Nat /\ Len(h.image) <= Len(g.image)
    /\ \A j \in Len(g.image) + 1 .. Blocks : piece # Block(h.id, j)

\* What a process g has to look at is what h had, without its m-th piece.
LEMMA StreamTaken ==
    ASSUME NEW h, NEW r, NEW g, NEW s, NEW m,
           Without(Upcoming(h.pending, r), Upcoming(g.pending, s), m),
           Passes(h, g, Upcoming(h.pending, r)[m]),
           Consistent(h, r), Paired(g.partial, s), Received(g),
           peer \in PeerType, Fed(h, r, peer)
    PROVE  Consistent(g, s) /\ Fed(g, s, peer)
<1> DEFINE u == Upcoming(h.pending, r)
           v == Upcoming(g.pending, s)
           lo == Len(h.image)
           lo2 == Len(g.image)
           id == h.id
<1>1. Ordered(u, id, lo)
  BY DEF Consistent
<1>w. /\ u \in Seq(Piece) /\ v \in Seq(Piece) /\ m \in 1 .. Len(u) /\ Len(v) = Len(u) - 1
      /\ (\A i \in 1 .. m - 1 : v[i] = u[i]) /\ (\A i \in m .. Len(v) : v[i] = u[i + 1])
      /\ g.id = id /\ lo \in Nat /\ lo2 \in Nat /\ lo <= lo2
      /\ \A j \in lo2 + 1 .. Blocks : u[m] # Block(id, j)
  BY DEF Without, Passes
<1>2. /\ Ordered(v, id, lo2)
      /\ \A hi \in 0 .. Blocks : Covers(u, Len(u), id, lo, hi) => Covers(v, Len(v), id, lo2, hi)
  <2> HIDE DEF lo, lo2, id, u, v
  <2> QED
    BY SMTT(60), <1>1, <1>w, RemovePiece
<1>3. Consistent(g, s)
  BY <1>2, <1>w DEF Consistent
<1>4. peer.next - 1 \in 0 .. Blocks
  <2>1. peer.next \in 1 .. Blocks + 1 /\ Blocks \in Nat
    BY UsbAssumption DEF PeerType
  <2> QED
    BY <2>1
<1>5. Fed(g, s, peer)
  BY <1>2, <1>4, <1>w DEF Fed
<1> QED
  BY <1>3, <1>5

\* Sending a frame, whole, to a process.
LEMMA StreamSent ==
    ASSUME TypeOK, NEW f \in Frame, returns' = returns \o Pieces(f), Consistent(host, returns),
           Fitting(Upcoming(host.pending, returns), host.id, Len(host.image), f)
    PROVE  /\ Consistent(host, returns')
           /\ Added(Upcoming(host.pending, returns), Upcoming(host.pending, returns'), host.id,
                    Len(host.image), f)
<1>1. /\ returns \in Seq(Piece) /\ host.pending \in Seq(Frame) /\ Len(host.image) \in Nat
  <2>1. host \in HostType /\ returns \in Seq(Frame \X {1, 2})
    BY TypeParts
  <2>2. host.pending \in Seq(Frame) /\ host.image \in Seq(Id \X (1 .. Blocks))
    BY <2>1, HostFields
  <2> QED
    BY <2>1, <2>2 DEF Piece
<1>2. Paired(host.partial, returns) /\ Received(host)
  BY DEF Consistent
<1>3. Added(Upcoming(host.pending, returns), Upcoming(host.pending, returns'), host.id,
            Len(host.image), f)
  BY <1>1, FrameAdded
<1>4. Paired(host.partial, returns')
  BY <1>1, <1>2, PairedAdd
<1>5. Consistent(host, returns')
  BY <1>2, <1>3, <1>4 DEF Consistent, Added
<1> QED
  BY <1>3, <1>5

\* A frame that is no event of the process's own, but for failures.
LEMMA StreamOther ==
    ASSUME TypeOK, NEW f \in Frame, returns' = returns \o Pieces(f),
           Consistent(host, returns), Fed(host, returns, peer),
           f[1] # "BLOCK", f[1] # "RESULT" \/ f[2] # host.id \/ f[3] # TRUE,
           peer'.op = 0 \/ (peer'.op = peer.op /\ peer'.next = peer.next)
    PROVE  Consistent(host, returns') /\ Fed(host, returns', peer')
<1> DEFINE id == host.id
<1>1. \A k : f # <<"BLOCK", id, k>>
  <2>1. \A k : <<"BLOCK", id, k>>[1] = "BLOCK"
    OBVIOUS
  <2> QED
    BY <2>1
<1>2. f # <<"RESULT", id, TRUE>>
  <2> DEFINE g == <<"RESULT", id, TRUE>>
  <2>1. g[1] = "RESULT" /\ g[2] = id /\ g[3] = TRUE
    OBVIOUS
  <2> HIDE DEF g, id
  <2>2. f = g => f[1] = "RESULT" /\ f[2] = id /\ f[3] = TRUE
    BY <2>1
  <2>3. f # g
    BY <2>2, Zenon DEF id
  <2> QED
    BY <2>3 DEF g
<1>3. Fitting(Upcoming(host.pending, returns), id, Len(host.image), f)
  BY <1>1, <1>2 DEF Fitting, Consistent
<1>4. /\ Consistent(host, returns')
      /\ Added(Upcoming(host.pending, returns), Upcoming(host.pending, returns'), id,
               Len(host.image), f)
  BY <1>3, StreamSent
<1>5. Fed(host, returns', peer')
  BY <1>4 DEF Fed, Added
<1> QED
  BY <1>4, <1>5

\* What is sent whole is sent as it should be, if nothing else is torn.
LEMMA SendsWhole ==
    ASSUME NEW f, Sends(f), ~torn'
    PROVE  returns' = returns \o Pieces(f)
  BY Zenon DEF Sends

\* The Probe and the Gateway send the blocks of a backup in order, the result at the end.
LEMMA StreamPeer ==
    ASSUME TypeOK, ~torn', PeerStart \/ PeerBlock \/ PeerRepeat \/ PeerResult,
           Consistent(host, returns), Fed(host, returns, peer)
    PROVE  Consistent(host, returns') /\ Fed(host, returns', peer')
<1> DEFINE u == Upcoming(host.pending, returns)
           v == Upcoming(host.pending, returns')
           id == host.id
           lo == Len(host.image)
<1>1. /\ peer \in PeerType /\ peer.op \in {0} \cup Id /\ peer.next \in 1 .. Blocks + 1
      /\ peer.asked \in Seq(Id) /\ Blocks \in Nat /\ peer.next \in Nat
  <2>1. peer \in PeerType /\ Blocks \in Nat
    BY TypeParts, UsbAssumption
  <2>2. peer.op \in {0} \cup Id /\ peer.next \in 1 .. Blocks + 1 /\ peer.asked \in Seq(Id)
    BY <2>1 DEF PeerType
  <2>3. peer.next \in Nat
    BY <2>1, <2>2
  <2> QED
    BY <2>1, <2>2, <2>3
<1>l. lo \in Nat
  <2>1. host.image \in Seq(Id \X (1 .. Blocks))
    BY TypeParts, HostFields
  <2> QED
    BY <2>1
<1>e. <<"ERROR">> \in Frame /\ <<"ERROR">>[1] # "BLOCK" /\ <<"ERROR">>[1] # "RESULT"
  BY FrameIs
<1>m. ASSUME NEW n \in Nat, NEW x \in Nat, x <= n, Covers(u, Len(u), id, lo, n)
      PROVE  Covers(u, Len(u), id, lo, x)
  <2>1. lo + 1 .. x \subseteq lo + 1 .. n
    <3> HIDE DEF lo
    <3> QED
      BY <1>l, <1>m
  <2> QED
    BY <1>m, <2>1 DEF Covers
<1>2. CASE PeerStart
  <2> DEFINE rest == [peer EXCEPT !.asked = Tail(@)]
  <2>1. \/ peer' = [rest EXCEPT !.op = Head(peer.asked), !.next = 1] /\ returns' = returns
        \/ peer' = rest /\ Sends(<<"ERROR">>)
    BY <1>2, Zenon DEF PeerStart
  <2>2. rest.op = peer.op /\ rest.next = peer.next
    BY <1>1 DEF PeerType
  <2>3. [rest EXCEPT !.op = Head(peer.asked), !.next = 1].next = 1
    BY <1>1 DEF PeerType
  <2> HIDE DEF rest
  <2>4. CASE peer'.next = 1 /\ returns' = returns
    <3>1. lo + 1 .. 1 - 1 = {}
      <4> HIDE DEF lo
      <4> QED
        BY <1>l
    <3>2. Covers(u, Len(u), id, lo, 1 - 1)
      BY <3>1 DEF Covers
    <3>3. Fed(host, returns', peer')
      BY <2>4, <3>2 DEF Fed
    <3> QED
      BY <2>4, <3>3
  <2>5. CASE peer' = rest /\ Sends(<<"ERROR">>)
    <3>1. PICK f : f = <<"ERROR">>
      OBVIOUS
    <3>2. f \in Frame /\ f[1] # "BLOCK" /\ f[1] # "RESULT"
      BY <1>e, <3>1
    <3>3. returns' = returns \o Pieces(f)
      BY <2>5, <3>1, SendsWhole
    <3> QED
      BY <2>2, <2>5, <3>2, <3>3, StreamOther
  <2> QED
    BY <2>1, <2>3, <2>4, <2>5
<1>3. CASE PeerBlock \/ PeerRepeat
  <2>1. PICK k \in 1 .. Blocks :
          /\ returns' = returns \o Pieces(<<"BLOCK", peer.op, k>>)
          /\ \/ k = peer.next /\ peer' = [peer EXCEPT !.next = @ + 1]
             \/ k = peer.next - 1 /\ peer' = peer
          /\ peer.op # 0
    <3>1. CASE PeerBlock
      <4>1. /\ Sends(<<"BLOCK", peer.op, peer.next>>) /\ peer.next <= Blocks /\ peer.op # 0
            /\ peer' = [peer EXCEPT !.next = @ + 1]
        BY <3>1, Zenon DEF PeerBlock
      <4>2. returns' = returns \o Pieces(<<"BLOCK", peer.op, peer.next>>)
        BY <4>1, SendsWhole
      <4>3. peer.next \in 1 .. Blocks
        BY <1>1, <4>1
      <4> QED
        BY <4>1, <4>2, <4>3
    <3>2. CASE PeerRepeat
      <4>1. /\ returns' = returns \o Pieces(<<"BLOCK", peer.op, peer.next - 1>>) /\ peer.next > 1
            /\ peer.op # 0 /\ peer' = peer
        BY <3>2, Zenon DEF PeerRepeat
      <4>2. peer.next - 1 \in 1 .. Blocks
        BY <1>1, <4>1
      <4> QED
        BY <4>1, <4>2
    <3> QED
      BY <1>3, <3>1, <3>2
  <2>2. PICK f : f = <<"BLOCK", peer.op, k>>
    OBVIOUS
  <2>3. f \in Frame
    <3>1. peer.op \in Id
      BY <1>1, <2>1
    <3> QED
      BY <2>2, <3>1, FrameIs
  <2>4. f # <<"RESULT", id, TRUE>>
    <3>1. <<"RESULT", id, TRUE>>[1] = "RESULT" /\ f[1] = "BLOCK"
      BY <2>2
    <3> QED
      BY <3>1
  <2>5. /\ k \in Nat /\ k - 1 \in Nat /\ k - 1 <= peer.next - 1 /\ peer.next - 1 \in Nat
    BY <1>1, <2>1
  <2>6. ASSUME peer.op = id PROVE Covers(u, Len(u), id, lo, peer.next - 1) /\ Covers(u, Len(u), id, lo, k - 1)
    <3>1. Covers(u, Len(u), id, lo, peer.next - 1)
      BY <2>1, <2>6 DEF Fed
    <3> QED
      BY <1>m, <2>5, <3>1
  <2>7. \A j \in 1 .. Blocks : f = <<"BLOCK", id, j>> => Covers(u, Len(u), id, lo, j - 1)
    BY <2>2, <2>6
  <2>8. returns' = returns \o Pieces(f)
    BY <2>1, <2>2
  <2>f. Fitting(u, id, lo, f)
    BY <2>4, <2>7 DEF Fitting, Consistent
  <2>9. /\ Consistent(host, returns')
        /\ \A hi : Covers(u, Len(u), id, lo, hi) => Covers(v, Len(v), id, lo, hi)
        /\ \E q \in 1 .. Len(v) : v[q] = <<f, 2>>
    <3>1. Consistent(host, returns') /\ Added(u, v, id, lo, f)
      BY <2>3, <2>8, <2>f, StreamSent
    <3> QED
      BY <3>1 DEF Added
  <2>10. peer'.op = peer.op /\ (peer'.next = peer.next \/ (peer'.next = peer.next + 1 /\ k = peer.next))
    BY <1>1, <2>1 DEF PeerType
  <2>11. ASSUME peer.op = id PROVE Covers(v, Len(v), id, lo, peer'.next - 1)
    <3>1. Covers(v, Len(v), id, lo, peer.next - 1)
      BY <2>6, <2>9, <2>11
    <3>2. CASE peer'.next = peer.next
      BY <3>1, <3>2
    <3>3. CASE peer'.next = peer.next + 1 /\ k = peer.next
      <4>1. \E q \in 1 .. Len(v) : v[q] = Block(id, k)
        BY <2>2, <2>9, <2>11 DEF Block
      <4>2. \A j \in lo + 1 .. peer'.next - 1 : j \in lo + 1 .. peer.next - 1 \/ j = k
        <5> HIDE DEF lo
        <5> QED
          BY <1>1, <1>l, <3>3
      <4> QED
        BY <3>1, <4>1, <4>2 DEF Covers
    <3> QED
      BY <2>10, <3>2, <3>3
  <2>12. Fed(host, returns', peer')
    BY <2>10, <2>11 DEF Fed
  <2> QED
    BY <2>9, <2>12
<1>4. CASE PeerResult
  <2>1. PICK ok \in {peer.next > Blocks, FALSE} : Sends(<<"RESULT", peer.op, ok>>)
    BY <1>4, Zenon DEF PeerResult
  <2>2. peer.op # 0 /\ peer'.op = 0
    <3>1. peer.op # 0 /\ peer' = [peer EXCEPT !.op = 0]
      BY <1>4, Zenon DEF PeerResult
    <3> QED
      BY <1>1, <3>1 DEF PeerType
  <2>3. PICK f : f = <<"RESULT", peer.op, ok>>
    OBVIOUS
  <2>4. f \in Frame /\ f[1] = "RESULT" /\ f[2] = peer.op /\ f[3] = ok
    <3>1. peer.op \in Id
      BY <1>1, <2>2
    <3>2. ok \in BOOLEAN
      <4>1. (peer.next > Blocks) \in BOOLEAN /\ FALSE \in BOOLEAN
        OBVIOUS
      <4> QED
        BY <4>1, Zenon
    <3>3. f \in Frame
      BY <2>3, <3>1, <3>2, FrameIs
    <3> QED
      BY <2>3, <3>3
  <2>5. returns' = returns \o Pieces(f)
    BY <2>1, <2>3, SendsWhole
  <2>6. \A j \in 1 .. Blocks : f # <<"BLOCK", id, j>>
    <3>1. \A j : <<"BLOCK", id, j>>[1] = "BLOCK"
      OBVIOUS
    <3> QED
      BY <2>4, <3>1
  <2>7. f = <<"RESULT", id, TRUE>> => Covers(u, Len(u), id, lo, Blocks)
    <3> SUFFICES ASSUME f = <<"RESULT", id, TRUE>> PROVE Covers(u, Len(u), id, lo, Blocks)
      OBVIOUS
    <3>1. f[2] = id /\ f[3] = TRUE
      OBVIOUS
    <3>2. peer.op = id /\ peer.next > Blocks
      BY <2>1, <2>4, <3>1
    <3>3. peer.next - 1 = Blocks
      BY <1>1, <3>2
    <3> QED
      BY <2>2, <3>2, <3>3 DEF Fed
  <2>f. Fitting(u, id, lo, f)
    BY <2>6, <2>7 DEF Fitting, Consistent
  <2>8. Consistent(host, returns')
    BY <2>4, <2>5, <2>f, StreamSent
  <2>9. Fed(host, returns', peer')
    BY <2>2 DEF Fed
  <2> QED
    BY <2>8, <2>9
<1> QED
  BY <1>2, <1>3, <1>4

\* After a step the process is not broken, and if it runs, what it reads fits.
GoesOn ==
    /\ host'.at # "BROKEN"
    /\ ~Stopped(host') => Consistent(host', returns') /\ Fed(host', returns', peer')

\* A process that opens the port finds whole frames, of no operation of its own.
LEMMA StreamOpen ==
    ASSUME TypeOK, TypeOK', HostOpen, ~torn'
    PROVE  GoesOn
<1>1. /\ host' = [Process EXCEPT !.at = "IDLE"] /\ torn' = ~WholeFrames(returns')
      /\ UNCHANGED <<inbound, peer, history, faults>>
  BY Zenon DEF HostOpen, HostQuiet
<1>2. /\ returns' \in Seq(Piece) /\ Blocks \in Nat /\ peer'.op = peer.op /\ peer.op \in {0} \cup Id
  <2>1. returns' \in Seq(Frame \X {1, 2}) /\ Blocks \in Nat /\ peer \in PeerType
    BY TypeParts, UsbAssumption DEF TypeOK
  <2> QED
    BY <1>1, <2>1 DEF Piece, PeerType
<1>3. /\ host'.at = "IDLE" /\ host'.id = 0 /\ host'.partial = <<>> /\ host'.pending = <<>>
      /\ host'.image = <<>> /\ Len(host'.image) = 0
  BY <1>1 DEF Process
<1>4. Paired(host'.partial, returns')
  <2>1. DOMAIN returns' = 1 .. Len(returns')
    BY <1>2
  <2>2. WholeFrames(returns')
    BY <1>1
  <2>3. WholeFrom(returns', 1)
    BY <2>1, <2>2 DEF WholeFrames, WholeFrom
  <2> QED
    BY <1>3, <2>3 DEF Paired
<1>5. Received(host')
  <2>1. 0 <= Blocks /\ \A j : j \notin 1 .. 0
    BY <1>2
  <2> QED
    BY <1>3, <2>1 DEF Received
<1>6. Ordered(Upcoming(host'.pending, returns'), 0, 0)
  <2> DEFINE u == Upcoming(host'.pending, returns')
  <2>1. host'.pending \in Seq(Frame)
    BY <1>3
  <2>2. u \in Seq(Piece)
    BY <1>2, <2>1, UpcomingIs
  <2> HIDE DEF u
  <2>3. 0 \notin Id
    BY DEF Id
  <2>4. ASSUME NEW i \in 1 .. Len(u)
        PROVE  (\A k \in 1 .. Blocks : u[i] # Block(0, k)) /\ u[i] # GoodResult(0)
    <3>1. PICK f \in Frame, n \in {1, 2} : u[i] = <<f, n>>
      BY <2>2, <2>4 DEF Piece
    <3>2. \A k : <<f, n>> = Block(0, k) => f[1] = "BLOCK" /\ f[2] = 0
      BY DEF Block
    <3>3. <<f, n>> = GoodResult(0) => f[1] = "RESULT" /\ f[2] = 0
      BY DEF GoodResult
    <3>4. f[1] = "BLOCK" => f[2] \in Id
      BY BlockIs
    <3>5. f[1] = "RESULT" => f[2] \in Id
      BY ResultIs
    <3> QED
      BY <2>3, <3>1, <3>2, <3>3, <3>4, <3>5
  <2>5. Ordered(u, 0, 0)
    BY <2>4, NoneOfIts
  <2> QED
    BY <2>5 DEF u
<1>7. Consistent(host', returns')
  BY <1>3, <1>4, <1>5, <1>6 DEF Consistent
<1>8. Fed(host', returns', peer')
  BY <1>3 DEF Fed
<1> QED
  BY <1>3, <1>7, <1>8 DEF GoesOn

\* Nothing is under way of an operation that is only now asked for.
LEMMA StreamRequest ==
    ASSUME TypeOK, EventsInv, Consistent(host, returns), NEW kind, HostRequest(kind)
    PROVE  GoesOn
<1> DEFINE id == Len(requests) + 1
<1>1. /\ host' = [host EXCEPT !.at = "REQUEST", !.id = id, !.image = <<>>]
      /\ returns' = returns /\ peer' = peer
  BY Zenon DEF HostRequest
<1>2. /\ returns \in Seq(Piece) /\ Blocks \in Nat /\ host \in HostType /\ peer \in PeerType
      /\ Len(requests) \in Nat /\ host.pending \in Seq(Frame)
  <2>1. returns \in Seq(Frame \X {1, 2}) /\ Blocks \in Nat /\ host \in HostType /\ peer \in PeerType
        /\ requests \in Seq(Kind)
    BY TypeParts, UsbAssumption
  <2> QED
    BY <2>1, HostFields DEF Piece
<1>3. id \notin 0 .. Len(requests) /\ id \notin 1 .. Len(requests)
  BY <1>2
<1> HIDE DEF id
<1>4. /\ host'.at = "REQUEST" /\ host'.id = id /\ host'.partial = host.partial
      /\ host'.pending = host.pending /\ host'.image = <<>> /\ Len(host'.image) = 0
  BY <1>1, <1>2 DEF HostType
<1>5. Received(host')
  <2>1. 0 <= Blocks /\ \A j : j \notin 1 .. 0
    BY <1>2
  <2> QED
    BY <1>4, <2>1 DEF Received
<1>6. Ordered(Upcoming(host'.pending, returns'), id, 0)
  <2> DEFINE p == host.pending
             u == Upcoming(p, returns)
  <2>1. /\ Len(u) = Len(p) + Len(returns) /\ Len(p) \in Nat /\ Len(returns) \in Nat
        /\ \A i \in 1 .. Len(p) : u[i] = <<p[i], 2>>
        /\ \A i \in 1 .. Len(returns) : u[Len(p) + i] = returns[i]
    BY <1>2, UpcomingIs
  <2>2. /\ \A i \in 1 .. Len(returns) : Asked(returns[i][1])
        /\ \A i \in 1 .. Len(p) : Asked(p[i])
    BY DEF EventsInv
  <2>3. \A i \in 1 .. Len(returns) : returns[i] \in Piece
    BY <1>2
  <2> HIDE DEF p, u
  <2>4. ASSUME NEW i \in 1 .. Len(u)
        PROVE  (\A k \in 1 .. Blocks : u[i] # Block(id, k)) /\ u[i] # GoodResult(id)
    <3>1. \E f, n : u[i] = <<f, n>> /\ Asked(f)
      <4>1. i \in 1 .. Len(p) \/ (i - Len(p) \in 1 .. Len(returns) /\ Len(p) + (i - Len(p)) = i)
        BY <2>1
      <4>2. CASE i \in 1 .. Len(p)
        BY <2>1, <2>2, <4>2
      <4>3. CASE i - Len(p) \in 1 .. Len(returns) /\ Len(p) + (i - Len(p)) = i
        <5>1. u[i] = returns[i - Len(p)]
          BY <2>1, <4>3
        <5>2. PICK f \in Frame, n \in {1, 2} : u[i] = <<f, n>>
          BY <2>3, <4>3, <5>1 DEF Piece
        <5>3. Asked(returns[i - Len(p)][1])
          BY <2>2, <4>3
        <5>4. returns[i - Len(p)][1] = f
          BY <5>1, <5>2
        <5> QED
          BY <5>2, <5>3, <5>4
      <4> QED
        BY <4>1, <4>2, <4>3
    <3>2. PICK f, n : u[i] = <<f, n>> /\ Asked(f)
      BY <3>1
    <3>3. \A k : <<f, n>> = Block(id, k) => f[1] = "BLOCK" /\ f[2] = id
      BY DEF Block
    <3>4. <<f, n>> = GoodResult(id) => f[1] = "RESULT" /\ f[2] = id
      BY DEF GoodResult
    <3>5. f[1] \in {"BLOCK", "RESULT"} => f[2] \in 1 .. Len(requests)
      BY <3>2 DEF Asked
    <3> QED
      BY <1>3, <3>2, <3>3, <3>4, <3>5
  <2>5. Ordered(u, id, 0)
    BY <2>4, NoneOfIts
  <2> QED
    BY <1>1, <1>4, <2>5 DEF u, p
<1>7. Consistent(host', returns')
  BY <1>1, <1>4, <1>5, <1>6 DEF Consistent
<1>8. peer.op # id
  BY <1>3 DEF EventsInv
<1>9. Fed(host', returns', peer')
  BY <1>1, <1>4, <1>8 DEF Fed
<1> QED
  BY <1>4, <1>7, <1>9 DEF GoesOn

\* An event set aside goes on fitting.
LEMMA StreamPending ==
    ASSUME TypeOK, Consistent(host, returns), Fed(host, returns, peer), HostPending
    PROVE  GoesOn
<1> DEFINE f == Head(host.pending)
           p == host.pending
           u == Upcoming(p, returns)
           after == InBackup(f)
<1>1. /\ host.at = "BACKUP" /\ p # <<>> /\ returns' = returns /\ peer' = peer
      /\ host' = IF Stopped(after) THEN after ELSE [after EXCEPT !.pending = Tail(@)]
  BY Zenon DEF HostPending, HostQuiet
<1>2. /\ returns \in Seq(Piece) /\ host \in HostType /\ peer \in PeerType /\ p \in Seq(Frame)
      /\ f \in Frame
  <2>1. returns \in Seq(Frame \X {1, 2}) /\ host \in HostType /\ peer \in PeerType
    BY TypeParts
  <2>2. p \in Seq(Frame)
    BY <2>1, HostFields
  <2>3. f \in Frame
    BY <1>1, <2>2, HeadTailProperties
  <2> QED
    BY <2>1, <2>2, <2>3 DEF Piece
<1>3. /\ Tail(p) \in Seq(Frame) /\ Len(u) \in Nat /\ 1 \in 1 .. Len(u) /\ u[1] = <<f, 2>>
      /\ Len(Upcoming(Tail(p), returns)) = Len(u) - 1
      /\ \A i \in 1 .. Len(Upcoming(Tail(p), returns)) : Upcoming(Tail(p), returns)[i] = u[i + 1]
  BY <1>1, <1>2, UpcomingTail
<1>4. u \in Seq(Piece) /\ Len(u) >= 1
  <2>1. u \in Seq(Piece)
    BY <1>2, UpcomingIs
  <2> HIDE DEF u
  <2> QED
    BY <1>3, <2>1
<1>5. /\ Received(host) /\ Ordered(u, host.id, Len(host.image)) /\ Paired(host.partial, returns)
  BY DEF Consistent
<1>6. after = Process \/ \E at, image : Fits(f, u, at, image)
  <2>1. host.at # "BROKEN"
    BY <1>1
  <2> HIDE DEF u, f
  <2> QED
    BY <1>2, <1>3, <1>4, <1>5, <2>1, HeadFits
<1>7. CASE after = Process
  <2>1. Stopped(after) /\ after.at # "BROKEN"
    BY <1>7, StoppedIs DEF Process
  <2> QED
    BY <1>1, <2>1 DEF GoesOn
<1>8. ASSUME NEW at, NEW image, Fits(f, u, at, image) PROVE GoesOn
  <2>1. /\ after = [host EXCEPT !.at = at, !.image = image] /\ at # "BROKEN"
        /\ Len(host.image) \in Nat /\ Len(image) \in Nat /\ Len(host.image) <= Len(image)
        /\ Len(image) <= Blocks /\ \A j \in 1 .. Len(image) : image[j] = <<host.id, j>>
        /\ \A j \in Len(image) + 1 .. Blocks : u[1] # Block(host.id, j)
    BY <1>8 DEF Fits
  <2>2. /\ after.at = at /\ after.id = host.id /\ after.partial = host.partial
        /\ after.pending = p /\ after.image = image
    BY <1>2, <2>1 DEF HostType
  <2>3. CASE Stopped(after)
    BY <1>1, <2>1, <2>2, <2>3 DEF GoesOn
  <2>4. CASE ~Stopped(after)
    <3>1. /\ host'.at = at /\ host'.id = host.id /\ host'.partial = host.partial
          /\ host'.pending = Tail(p) /\ host'.image = image
      <4> DEFINE q == Tail(p)
      <4> HIDE DEF q, p, after
      <4>1. [host EXCEPT !.at = at, !.image = image] \in [{"at", "id", "partial", "pending", "image"} -> {at, image, host.id, host.partial, host.pending}]
        BY <1>2 DEF HostType
      <4>2. host' = [after EXCEPT !.pending = Tail(@)]
        BY <1>1, <2>4
      <4>3. after.pending = p
        BY <2>2
      <4>4. host' = [after EXCEPT !.pending = q]
        BY <4>2, <4>3 DEF q
      <4> QED
        BY <2>1, <2>2, <4>1, <4>4 DEF q
    <3>2. Received(host')
      BY <2>1, <3>1 DEF Received
    <3> DEFINE v == Upcoming(host'.pending, returns)
    <3>3. /\ Len(v) = Len(u) - 1 /\ (\A i \in 1 .. Len(v) : v[i] = u[i + 1]) /\ v \in Seq(Piece)
      BY <1>2, <1>3, <3>1, UpcomingIs
    <3>4. \A i : i \notin 1 .. 1 - 1
      OBVIOUS
    <3>5. Without(u, v, 1)
      <4> HIDE DEF u, v
      <4> QED
        BY <1>3, <1>4, <3>3, <3>4 DEF Without
    <3>7. Passes(host, host', u[1])
      BY <2>1, <3>1 DEF Passes
    <3>8. Paired(host'.partial, returns)
      BY <1>5, <3>1
    <3>6. Consistent(host', returns) /\ Fed(host', returns, peer)
      BY <1>2, <3>2, <3>5, <3>7, <3>8, StreamTaken
    <3> QED
      BY <1>1, <2>1, <3>1, <3>6 DEF GoesOn
  <2> QED
    BY <2>3, <2>4
<1> QED
  BY <1>6, <1>7, <1>8

\* Taking a piece that is no block the process has not.
LEMMA ReadPasses ==
    ASSUME TypeOK, Consistent(host, returns), Fed(host, returns, peer),
           returns # <<>>, returns' = Tail(returns), peer' = peer, host'.at # "BROKEN",
           host'.pending = host.pending, Received(host'), Paired(host'.partial, returns'),
           Passes(host, host', returns[1])
    PROVE  GoesOn
<1> DEFINE p == host.pending
           m == Len(p) + 1
<1>1. returns \in Seq(Piece) /\ p \in Seq(Frame) /\ peer \in PeerType
  <2>1. returns \in Seq(Frame \X {1, 2}) /\ host \in HostType /\ peer \in PeerType
    BY TypeParts
  <2> QED
    BY <2>1, HostFields DEF Piece
<1>2. /\ Tail(returns) \in Seq(Piece) /\ m \in 1 .. Len(Upcoming(p, returns))
      /\ Upcoming(p, returns)[m] = returns[1]
      /\ Len(Upcoming(p, Tail(returns))) = Len(Upcoming(p, returns)) - 1
      /\ \A i \in 1 .. m - 1 : Upcoming(p, Tail(returns))[i] = Upcoming(p, returns)[i]
      /\ \A i \in m .. Len(Upcoming(p, Tail(returns))) :
            Upcoming(p, Tail(returns))[i] = Upcoming(p, returns)[i + 1]
  BY ZenonT(60), <1>1, UpcomingNext
<1>3. Upcoming(p, returns) \in Seq(Piece) /\ Upcoming(p, Tail(returns)) \in Seq(Piece)
  BY <1>1, <1>2, UpcomingIs
<1> HIDE DEF m
<1>4. Without(Upcoming(host.pending, returns), Upcoming(host'.pending, returns'), m)
  BY <1>2, <1>3 DEF Without
<1>5. Passes(host, host', Upcoming(host.pending, returns)[m])
  BY <1>2
<1>6. Consistent(host', returns') /\ Fed(host', returns', peer)
  BY <1>1, <1>4, <1>5, StreamTaken
<1> QED
  BY <1>6 DEF GoesOn

\* A piece that is read goes on fitting.
LEMMA StreamRead ==
    ASSUME TypeOK, Consistent(host, returns), Fed(host, returns, peer), HostRead
    PROVE  GoesOn
<1> DEFINE f == Head(returns)[1]
           r == returns
           none == <<>>
<1>1. /\ host.at = "REQUEST" \/ (host.at = "BACKUP" /\ host.pending = <<>>)
      /\ r # <<>> /\ returns' = Tail(r) /\ peer' = peer
      /\ IF Head(r)[2] = 1 THEN host' = [host EXCEPT !.partial = Append(@, f)]
         ELSE LET after == IF host.at = "REQUEST" THEN InRequest(f) ELSE InBackup(f)
              IN host' = IF host.partial # <<f>> THEN Broken
                         ELSE IF Stopped(after) THEN after ELSE [after EXCEPT !.partial = none]
  BY Zenon DEF HostRead, Reads, HostQuiet
<1>2. /\ r \in Seq(Piece) /\ host \in HostType /\ host.pending \in Seq(Frame)
      /\ Head(r) = r[1] /\ r[1] \in Piece
  <2>1. returns \in Seq(Frame \X {1, 2}) /\ host \in HostType
    BY TypeParts
  <2>2. r \in Seq(Piece) /\ host.pending \in Seq(Frame)
    BY <2>1, HostFields DEF Piece
  <2>3. Head(r) = r[1] /\ Head(r) \in Piece
    BY <1>1, <2>2, HeadTailProperties
  <2> QED
    BY <2>1, <2>2, <2>3
<1>3. /\ f \in Frame /\ r[1][2] \in {1, 2} /\ r[1] = <<f, r[1][2]>> /\ f = r[1][1]
  BY <1>2 DEF Piece
<1>4. /\ Paired(host.partial, r) /\ Received(host)
      /\ Ordered(Upcoming(host.pending, r), host.id, Len(host.image))
  BY DEF Consistent
<1>5. /\ r[1][2] = 1 => host.partial = <<>> /\ Paired(<<f>>, Tail(r))
      /\ r[1][2] = 2 => host.partial = <<f>> /\ Paired(<<>>, Tail(r))
  BY <1>1, <1>2, <1>3, <1>4, PairedRead
<1>6. Len(host.image) \in Nat
  <2>1. host.image \in Seq(Id \X (1 .. Blocks))
    BY <1>2, HostFields
  <2> QED
    BY <2>1
<1>a. host.at # "BROKEN"
  BY <1>1
<1> HIDE DEF none, f
<1>7. ASSUME NEW g \in HostType, host' = g, g.at # "BROKEN", g.id = host.id,
             g.pending = host.pending, g.image = host.image, Paired(g.partial, returns'),
             \A j : r[1] # Block(host.id, j)
      PROVE  GoesOn
  <2>1. Received(host')
    BY <1>4, <1>7 DEF Received
  <2>2. Passes(host, host', r[1])
    BY <1>6, <1>7 DEF Passes
  <2> QED
    BY <1>1, <1>7, <2>1, <2>2, ReadPasses
<1>8. CASE r[1][2] = 1
  <2>1. host' = [host EXCEPT !.partial = Append(@, f)] /\ host.partial = <<>> /\ Paired(<<f>>, Tail(r))
    BY <1>1, <1>2, <1>5, <1>8
  <2> DEFINE p == <<f>>
  <2>2. Append(host.partial, f) = p /\ p \in Seq(Frame)
    BY <1>3, <2>1
  <2> HIDE DEF p
  <2>3. host' = [host EXCEPT !.partial = p]
    BY <2>1, <2>2
  <2>4. /\ [host EXCEPT !.partial = p] \in HostType
        /\ host'.at = host.at /\ host'.id = host.id /\ host'.pending = host.pending
        /\ host'.image = host.image /\ host'.partial = p
    BY <1>2, <2>2, <2>3 DEF HostType
  <2>5. \A j : r[1] # Block(host.id, j)
    <3>1. \A j : Block(host.id, j)[2] = 2
      BY DEF Block
    <3> QED
      BY <1>8, <3>1
  <2>6. Paired(host'.partial, returns')
    BY <1>1, <2>1, <2>4 DEF p
  <2> QED
    BY <1>7, <1>a, <2>3, <2>4, <2>5, <2>6
<1>9. CASE r[1][2] = 2 /\ host.at = "REQUEST"
  <2> DEFINE after == InRequest(f)
  <2>1. /\ host' = IF Stopped(after) THEN after ELSE [after EXCEPT !.partial = none]
        /\ Paired(none, returns')
    BY <1>1, <1>2, <1>5, <1>9 DEF none
  <2>2. \/ after = [host EXCEPT !.pending = Append(@, f)]
        \/ f[1] = "RESPONSE" /\ after = host
        \/ /\ f[1] = "RESPONSE"
           /\ \E at \in {"BACKUP", "IDLE"} : after = [host EXCEPT !.at = at]
        \/ after = Process
    BY InRequestIs
  <2> HIDE DEF after
  <2>n. none \in Seq(Frame)
    BY DEF none
  <2>3. CASE after = [host EXCEPT !.pending = Append(@, f)]
    <3> DEFINE q == Append(host.pending, f)
    <3>1. q \in Seq(Frame) /\ Upcoming(q, Tail(r)) = Upcoming(host.pending, r)
      BY <1>1, <1>2, <1>3, <1>9, UpcomingKept
    <3>2. after = [host EXCEPT !.pending = q]
      BY <2>3
    <3> HIDE DEF q
    <3>3. /\ after.at = "REQUEST" /\ after.id = host.id /\ after.pending = q /\ after.image = host.image
          /\ after \in HostType
      BY <1>2, <1>9, <3>1, <3>2 DEF HostType
    <3>4. ~Stopped(after)
      BY <3>3 DEF Stopped
    <3>5. host' = [after EXCEPT !.partial = none]
      BY <2>1, <3>4
    <3>6. /\ host'.at = "REQUEST" /\ host'.id = host.id /\ host'.pending = q
          /\ host'.image = host.image /\ host'.partial = none
      BY <3>3, <3>5 DEF HostType
    <3>7. Upcoming(host'.pending, returns') = Upcoming(host.pending, returns)
      BY <1>1, <3>1, <3>6
    <3>8. Received(host')
      BY <1>4, <3>6 DEF Received
    <3>9. Consistent(host', returns')
      BY <1>4, <2>1, <3>6, <3>7, <3>8 DEF Consistent
    <3>10. Fed(host', returns', peer')
      BY <1>1, <3>6, <3>7 DEF Fed
    <3> QED
      BY <3>6, <3>9, <3>10 DEF GoesOn
  <2>4. CASE f[1] = "RESPONSE" /\ \E at \in {"REQUEST", "BACKUP", "IDLE"} : after = [host EXCEPT !.at = at]
    <3>1. PICK at \in {"REQUEST", "BACKUP", "IDLE"} : after = [host EXCEPT !.at = at]
      BY <2>4
    <3>2. /\ after.at = at /\ after.id = host.id /\ after.pending = host.pending
          /\ after.image = host.image /\ after \in HostType
      BY <1>2, <3>1 DEF HostType
    <3>3. ~Stopped(after)
      BY <3>2 DEF Stopped
    <3>4. host' = [after EXCEPT !.partial = none]
      BY <2>1, <3>3
    <3>5. /\ host'.at = at /\ host'.id = host.id /\ host'.pending = host.pending
          /\ host'.image = host.image /\ host'.partial = none /\ host' \in HostType
      BY <2>n, <3>2, <3>4 DEF HostType
    <3>6. \A j : r[1] # Block(host.id, j)
      <4>1. \A j : r[1] = Block(host.id, j) => f[1] = "BLOCK"
        BY <1>3 DEF Block
      <4> QED
        BY <2>4, <4>1
    <3> QED
      BY <1>7, <2>1, <3>5, <3>6
  <2>5. CASE after = Process
    <3>1. Stopped(after) /\ after.at # "BROKEN"
      BY <2>5, StoppedIs DEF Process
    <3> QED
      BY <2>1, <3>1 DEF GoesOn
  <2>6. host = [host EXCEPT !.at = "REQUEST"]
    BY <1>2, <1>9 DEF HostType
  <2> QED
    BY <2>2, <2>3, <2>4, <2>5, <2>6
<1>10. CASE r[1][2] = 2 /\ host.at # "REQUEST"
  <2> DEFINE after == InBackup(f)
             u == Upcoming(host.pending, r)
  <2>1. /\ host' = IF Stopped(after) THEN after ELSE [after EXCEPT !.partial = none]
        /\ Paired(none, returns') /\ host.pending = <<>>
    BY <1>1, <1>2, <1>5, <1>10 DEF none
  <2>n. none \in Seq(Frame)
    BY DEF none
  <2>2. u \in Seq(Piece) /\ Len(u) >= 1 /\ u[1] = <<f, 2>>
    <3>1. /\ u \in Seq(Piece) /\ Len(u) = Len(host.pending) + Len(r) /\ Len(r) \in Nat
          /\ \A i \in 1 .. Len(r) : u[Len(host.pending) + i] = r[i]
      BY <1>2, UpcomingIs
    <3>2. Len(host.pending) = 0
      BY <2>1
    <3>3. Len(r) # 0
      BY <1>1, <1>2, EmptySeq
    <3> HIDE DEF u, r
    <3>4. Len(u) >= 1 /\ 1 \in 1 .. Len(r) /\ 0 + 1 = 1
      BY <3>1, <3>2, <3>3
    <3>5. u[1] = r[1]
      BY <3>1, <3>2, <3>4
    <3> QED
      BY <1>3, <1>10, <3>1, <3>4, <3>5
  <2>3. after = Process \/ \E at, image : Fits(f, u, at, image)
    <3> HIDE DEF u
    <3>1. Ordered(u, host.id, Len(host.image))
      BY <1>4 DEF u
    <3> QED
      BY <1>2, <1>3, <1>4, <1>a, <2>2, <3>1, HeadFits
  <2>4. CASE after = Process
    <3>1. Stopped(after) /\ after.at # "BROKEN"
      BY <2>4, StoppedIs DEF Process
    <3> QED
      BY <2>1, <3>1 DEF GoesOn
  <2>5. ASSUME NEW at, NEW image, Fits(f, u, at, image) PROVE GoesOn
    <3>1. /\ after = [host EXCEPT !.at = at, !.image = image] /\ at # "BROKEN"
          /\ Len(host.image) \in Nat /\ Len(image) \in Nat /\ Len(host.image) <= Len(image)
          /\ Len(image) <= Blocks /\ \A j \in 1 .. Len(image) : image[j] = <<host.id, j>>
          /\ \A j \in Len(image) + 1 .. Blocks : u[1] # Block(host.id, j)
      BY <2>5 DEF Fits
    <3>2. /\ after.at = at /\ after.id = host.id /\ after.pending = host.pending /\ after.image = image
      BY <1>2, <3>1 DEF HostType
    <3>3. CASE Stopped(after)
      BY <2>1, <3>1, <3>2, <3>3 DEF GoesOn
    <3>4. CASE ~Stopped(after)
      <4>1. host' = [after EXCEPT !.partial = none]
        BY <2>1, <3>4
      <4>2. host' = [host EXCEPT !.at = at, !.image = image, !.partial = none]
        BY <3>1, <4>1
      <4>3. /\ host'.at = at /\ host'.id = host.id /\ host'.pending = host.pending
            /\ host'.image = image /\ host'.partial = none
        BY <1>2, <4>2 DEF HostType
      <4>4. Received(host')
        BY <3>1, <4>3 DEF Received
      <4>5. Passes(host, host', r[1])
        <5>1. r[1] = u[1]
          BY <1>3, <1>10, <2>2
        <5> HIDE DEF u
        <5> QED
          BY <3>1, <4>3, <5>1 DEF Passes
      <4>6. Paired(host'.partial, returns')
        BY <2>1, <4>3
      <4> QED
        BY <1>1, <3>1, <4>3, <4>4, <4>5, <4>6, ReadPasses
    <3> QED
      BY <3>3, <3>4
  <2> QED
    BY <2>3, <2>4, <2>5
<1> QED
  BY <1>3, <1>8, <1>9, <1>10

\* What a process sets aside it has read.
LEMMA PendingIs ==
    ASSUME TypeOK, HostOpen \/ HostEnds \/ HostPending \/ HostRead \/ HostPoll
    PROVE  \A i \in 1 .. Len(host'.pending) :
              \/ \E j \in 1 .. Len(host.pending) : host'.pending[i] = host.pending[j]
              \/ 1 \in 1 .. Len(returns) /\ host'.pending[i] = returns[1][1]
<1>1. /\ host \in HostType /\ host.pending \in Seq(Frame) /\ returns \in Seq(Frame \X {1, 2})
  BY TypeParts, HostFields
<1>2. ASSUME NEW p, p = <<>>, host'.pending = p
      PROVE  \A i : i \notin 1 .. Len(host'.pending)
  <2>1. Len(p) = 0 /\ \A i : i \notin 1 .. 0
    BY <1>2
  <2> QED
    BY <1>2, <2>1
<1>3. /\ Process.pending = <<>> /\ Broken.pending = <<>>
      /\ [Process EXCEPT !.at = "IDLE"].pending = <<>>
  BY DEF Process, Broken
<1>4. CASE host'.pending = <<>>
  BY <1>2, <1>4
<1>5. CASE host'.pending = host.pending
  BY <1>5
<1>6. CASE HostOpen \/ HostEnds
  <2>1. host' = [Process EXCEPT !.at = "IDLE"] \/ host' = Process
    BY <1>6, Zenon DEF HostOpen, HostEnds
  <2> QED
    BY <1>3, <1>4, <2>1
<1>7. CASE HostPoll
  <2> DEFINE z == <<>>
  <2>1. host' = [host EXCEPT !.partial = z]
    BY <1>7, Zenon DEF HostPoll
  <2> HIDE DEF z
  <2>2. host'.pending = host.pending
    BY <1>1, <2>1 DEF HostType
  <2> QED
    BY <1>5, <2>2
<1>8. CASE HostPending
  <2> DEFINE f == Head(host.pending)
             after == InBackup(f)
  <2>1. /\ host.pending # <<>>
        /\ host' = IF Stopped(after) THEN after ELSE [after EXCEPT !.pending = Tail(@)]
    BY <1>8, Zenon DEF HostPending
  <2>2. f \in Frame
    BY <1>1, <2>1, HeadTailProperties
  <2>3. after.pending = host.pending \/ after = Process \/ after = Broken
    <3> DEFINE I(x) == [host EXCEPT !.image = x]
               z == [host EXCEPT !.at = "IDLE"]
    <3>1. after = host \/ after = Process \/ after = Broken \/ (\E x : after = I(x)) \/ after = z
      BY <1>1, <2>2, InBackupIs
    <3>2. (\A x : I(x).pending = host.pending) /\ z.pending = host.pending
      BY <1>1 DEF HostType
    <3> HIDE DEF I, z, after
    <3> QED
      BY <3>1, <3>2
  <2>4. after \in HostType
    BY <1>1, <2>2, InBackupOK
  <2> HIDE DEF after
  <2>5. CASE after = Process \/ after = Broken
    <3>1. host' = after
      BY <2>1, <2>5, StoppedIs
    <3> QED
      BY <1>3, <1>4, <2>5, <3>1
  <2>6. CASE after.pending = host.pending
    <3> DEFINE q == Tail(host.pending)
    <3>1. CASE Stopped(after)
      BY <1>5, <2>1, <2>6, <3>1
    <3>2. CASE ~Stopped(after)
      <4>1. host' = [after EXCEPT !.pending = Tail(@)]
        BY <2>1, <3>2
      <4> HIDE DEF q
      <4>2. host' = [after EXCEPT !.pending = q]
        BY <2>6, <4>1 DEF q
      <4>3. host'.pending = q
        BY <2>4, <4>2 DEF HostType
      <4>4. /\ Len(q) = Len(host.pending) - 1 /\ Len(host.pending) \in Nat
            /\ \A i \in 1 .. Len(q) : q[i] = host.pending[i + 1]
        BY <1>1, <2>1, HeadTailProperties DEF q
      <4> DEFINE n == Len(host.pending)
      <4>5. \A i \in 1 .. n - 1 : i + 1 \in 1 .. n
        <5> HIDE DEF n
        <5> QED
          BY <4>4 DEF n
      <4> QED
        BY <4>3, <4>4, <4>5
    <3> QED
      BY <3>1, <3>2
  <2> QED
    BY <2>3, <2>5, <2>6
<1>9. CASE HostRead
  <2> DEFINE f == Head(returns)[1]
             p == Append(host.partial, f)
             q == Append(host.pending, f)
             after == IF host.at = "REQUEST" THEN InRequest(f) ELSE InBackup(f)
             z == <<>>
  <2>1. /\ \/ host' = [host EXCEPT !.partial = p]
           \/ host' = Broken
           \/ host' = after
           \/ host' = [after EXCEPT !.partial = z]
        /\ returns # <<>>
    BY <1>9, Zenon DEF HostRead
  <2>2. /\ f = returns[1][1] /\ 1 \in 1 .. Len(returns) /\ f \in Frame
    <3>1. Head(returns) = returns[1] /\ Head(returns) \in Frame \X {1, 2} /\ Len(returns) \in Nat
      BY <1>1, <2>1, HeadTailProperties
    <3>2. Len(returns) # 0
      BY <1>1, <2>1, EmptySeq
    <3> QED
      BY <3>1, <3>2
  <2>3. after.pending \in {host.pending, q, z} /\ after \in HostType
    <3> DEFINE I(x) == [host EXCEPT !.image = x]
               K(x) == [host EXCEPT !.at = x]
               r == [host EXCEPT !.pending = q]
    <3>1. \/ after = host \/ after = Process \/ after = Broken
          \/ (\E x : after = I(x)) \/ (\E x : after = K(x)) \/ after = r
      <4>1. CASE host.at = "REQUEST"
        <5>1. after = InRequest(f)
          BY <4>1
        <5> HIDE DEF after, I
        <5> QED
          BY <5>1, InRequestIs
      <4>2. CASE host.at # "REQUEST"
        <5>1. after = InBackup(f)
          BY <4>2
        <5> HIDE DEF after, r
        <5> QED
          BY <1>1, <2>2, <5>1, InBackupIs
      <4> QED
        BY <4>1, <4>2
    <3>2. /\ (\A x : I(x).pending = host.pending) /\ (\A x : K(x).pending = host.pending)
      BY <1>1 DEF HostType
    <3>3. r.pending = q
      <4> HIDE DEF q
      <4> QED
        BY <1>1 DEF HostType
    <3>4. after \in HostType
      BY <1>1, <2>2, InRequestOK, InBackupOK
    <3> HIDE DEF I, K, r, after
    <3> QED
      BY <1>3, <3>1, <3>2, <3>3, <3>4
  <2> HIDE DEF after, p, z, f
  <2>4. [host EXCEPT !.partial = p].pending = host.pending
    BY <1>1 DEF HostType
  <2>5. [after EXCEPT !.partial = z].pending = after.pending
    BY <2>3 DEF HostType
  <2>6. host'.pending \in {host.pending, q, z} \/ host' = Broken
    BY <2>1, <2>3, <2>4, <2>5
  <2>7. CASE host'.pending = q
    <3>1. /\ Len(q) = Len(host.pending) + 1 /\ q[Len(host.pending) + 1] = f
          /\ \A i \in 1 .. Len(host.pending) : q[i] = host.pending[i]
          /\ \A i \in 1 .. Len(host.pending) + 1 : i \in 1 .. Len(host.pending) \/ i = Len(host.pending) + 1
      BY <1>1, <2>2, Appended
    <3> HIDE DEF q
    <3> QED
      BY <2>2, <2>7, <3>1
  <2> QED
    BY <1>3, <1>4, <1>5, <2>6, <2>7 DEF z
<1> QED
  BY <1>6, <1>7, <1>8, <1>9

\* Events stay of requests that were made.
LEMMA EventsKept ==
    ASSUME EventsInv, 1 .. Len(requests) \subseteq 1 .. Len(requests'),
           NEW f, Asked(f)',
           \A i \in 1 .. Len(returns') :
              (\E j \in 1 .. Len(returns) : returns'[i] = returns[j]) \/ returns'[i][1] = f,
           \A i \in 1 .. Len(host'.pending) :
              \/ \E j \in 1 .. Len(host.pending) : host'.pending[i] = host.pending[j]
              \/ 1 \in 1 .. Len(returns) /\ host'.pending[i] = returns[1][1],
           peer'.op \in 0 .. Len(requests'),
           \A i \in 1 .. Len(peer'.asked) : peer'.asked[i] \in 1 .. Len(requests')
    PROVE  EventsInv'
<1>1. ASSUME NEW g, Asked(g) PROVE Asked(g)'
  BY <1>1 DEF Asked
<1>2. /\ \A i \in 1 .. Len(returns) : Asked(returns[i][1])
      /\ \A i \in 1 .. Len(host.pending) : Asked(host.pending[i])
  BY DEF EventsInv
<1>3. ASSUME NEW i \in 1 .. Len(returns') PROVE Asked(returns[i][1])'
  <2>1. PICK g : g = returns'[i][1]
    OBVIOUS
  <2>2. CASE g = f
    <3>1. Asked(g)'
      BY <2>2
    <3> QED
      BY <2>1, <3>1
  <2>3. CASE \E j \in 1 .. Len(returns) : returns'[i] = returns[j]
    <3>1. Asked(g)
      BY <1>2, <2>1, <2>3
    <3>2. Asked(g)'
      BY <1>1, <3>1
    <3> QED
      BY <2>1, <3>2
  <2> QED
    BY <2>1, <2>2, <2>3
<1>4. ASSUME NEW i \in 1 .. Len(host'.pending) PROVE Asked(host.pending[i])'
  <2>1. PICK g : g = host'.pending[i]
    OBVIOUS
  <2>2. Asked(g)
    BY <1>2, <2>1
  <2>3. Asked(g)'
    BY <1>1, <2>2
  <2> QED
    BY <2>1, <2>3
<1> QED
  BY <1>3, <1>4 DEF EventsInv
\* decoder_task keeps the host's side, and answers what it handles.
LEMMA DecodeSends ==
    ASSUME TypeOK, InboundInv, Decode
    PROVE  /\ requests' = requests /\ host' = host
           /\ \/ UNCHANGED <<returns, peer, handled, torn>>
              \/ \E record \in Record, ok \in BOOLEAN :
                    /\ handled' = Append(handled, record) /\ Sends(Response(record[3], ok))
                    /\ peer'.op = peer.op /\ peer'.next = peer.next
                    /\ peer'.asked \in {peer.asked, Append(peer.asked, record[3])}
<1>1. PICK h : Taken(h) /\ DecodeOf(h)
  BY DecodeTakes
<1>2. requests' = requests /\ host' = host
  BY <1>1, Zenon DEF Taken, DecodeOf
<1> DEFINE record == IF ByteOf(h) = 0 THEN UsbDecode(encoded) ELSE <<>>
<1>3. /\ record # <<>> => handled' = Append(handled, record) /\ Handle(record)
      /\ record = <<>> => UNCHANGED <<returns, peer, handled, torn>>
  BY <1>1, Zenon DEF DecodeOf
<1>4. record # <<>> => record \in Record
  BY DecodedIs DEF TypeOK
<1> HIDE DEF record
<1>5. CASE record # <<>>
  <2>1. PICK ok \in BOOLEAN :
            /\ Sends(Response(record[3], ok))
            /\ peer' = IF record[1] = Type("BACKUP") /\ ok
                       THEN [peer EXCEPT !.asked = Append(@, record[3])] ELSE peer
    BY <1>3, <1>5, Zenon DEF Handle
  <2> DEFINE q == Append(peer.asked, record[3])
  <2>2. peer' = [peer EXCEPT !.asked = q] \/ peer' = peer
    BY <2>1, Zenon
  <2>3. peer \in PeerType
    BY TypeParts
  <2> HIDE DEF q
  <2>4. /\ peer'.op = peer.op /\ peer'.next = peer.next /\ peer'.asked \in {peer.asked, q}
    BY <2>2, <2>3 DEF PeerType
  <2> QED
    BY <1>2, <1>3, <1>4, <1>5, <2>1, <2>4 DEF q
<1> QED
  BY <1>2, <1>3, <1>5

\* Every step keeps events of requests that were made.
LEMMA EventsStep ==
    ASSUME TypeOK, InboundInv, HandledInv', EventsInv, [Next]_vars
    PROVE  EventsInv'
<1> DEFINE S == Frame \X {1, 2}
           error == <<"ERROR">>
           n == Len(requests)
           InRange(x) == x \in 1 .. Len(requests')
           Kept == \A i \in 1 .. Len(returns') : \E j \in 1 .. Len(returns) : returns'[i] = returns[j]
           Same == \A i \in 1 .. Len(host'.pending) :
                      \E j \in 1 .. Len(host.pending) : host'.pending[i] = host.pending[j]
<1>1. /\ returns \in Seq(S) /\ peer.asked \in Seq(Id) /\ peer \in PeerType /\ n \in Nat
      /\ requests \in Seq(Kind)
  <2>1. returns \in Seq(S) /\ peer \in PeerType /\ requests \in Seq(Kind)
    BY TypeParts
  <2> QED
    BY <2>1 DEF PeerType
<1>2. /\ peer.op \in 0 .. n /\ \A i \in 1 .. Len(peer.asked) : peer.asked[i] \in 1 .. n
  BY DEF EventsInv
<1>3. error[1] = "ERROR"
  OBVIOUS
<1> HIDE DEF S, error
<1>4. Asked(error)'
  BY <1>3 DEF Asked
  \* A step that sends no more than f, of a request that was made.
<1>5. ASSUME NEW f, f[1] \in {"BLOCK", "RESULT"} => f[2] \in 1 .. n, requests' = requests,
             host' = host, Sends(f) \/ returns' = returns \o Pieces(f) \/ returns' = returns,
             peer'.op \in 0 .. n, \A i \in 1 .. Len(peer'.asked) : peer'.asked[i] \in 1 .. n
      PROVE  EventsInv'
  <2>1. Asked(f)'
    BY <1>5 DEF Asked
  <2>2. \A i \in 1 .. Len(returns') :
           (\E j \in 1 .. Len(returns) : returns'[i] = returns[j]) \/ returns'[i][1] = f
    <3>1. CASE returns' = returns
      BY <3>1
    <3>2. CASE returns' # returns
      BY <1>1, <1>5, <3>2, SendsAdd
    <3> QED
      BY <3>1, <3>2
  <2> QED
    BY <1>5, <2>1, <2>2, EventsKept
  \* A step of the process's that asks for nothing.
<1>6. ASSUME requests' = requests, peer' = peer, Kept,
             HostOpen \/ HostEnds \/ HostPending \/ HostRead \/ HostPoll
      PROVE  EventsInv'
  BY <1>2, <1>4, <1>6, PendingIs, EventsKept
<1>7. CASE Decode
  <2>1. requests' = requests /\ host' = host
    BY <1>7, DecodeSends
  <2>2. CASE UNCHANGED <<returns, peer, handled, torn>>
    BY <1>2, <1>3, <1>5, <2>1, <2>2
  <2>3. CASE \E record \in Record, ok \in BOOLEAN :
                    /\ handled' = Append(handled, record) /\ Sends(Response(record[3], ok))
                    /\ peer'.op = peer.op /\ peer'.next = peer.next
                    /\ peer'.asked \in {peer.asked, Append(peer.asked, record[3])}
    <3>1. PICK record \in Record, ok \in BOOLEAN :
                    /\ handled' = Append(handled, record) /\ Sends(Response(record[3], ok))
                    /\ peer'.op = peer.op
                    /\ peer'.asked \in {peer.asked, Append(peer.asked, record[3])}
      BY <2>3
    <3> DEFINE f == Response(record[3], ok)
               q == Append(peer.asked, record[3])
    <3>2. f[1] = "RESPONSE"
      BY DEF Response
    <3> HIDE DEF f
    <3>3. record[3] \in 1 .. n
      <4> DEFINE m == Len(handled) + 1
      <4>1. handled'[m] = record /\ m \in 1 .. Len(handled')
        <5>1. handled \in Seq(Record)
          BY DEF TypeOK
        <5> QED
          BY <3>1, <5>1, Appended
      <4> HIDE DEF m
      <4>2. handled'[m][3] \in 1 .. Len(requests')
        BY <4>1 DEF HandledInv
      <4> QED
        BY <2>1, <4>1, <4>2
    <3>4. \A i \in 1 .. Len(peer'.asked) : peer'.asked[i] \in 1 .. n
      <4>1. CASE peer'.asked = peer.asked
        BY <1>2, <4>1
      <4>2. CASE peer'.asked = q
        <5>1. record[3] \in Id
          <6>1. n <= MaxRequests /\ MaxRequests \in Nat
            BY TypeParts, UsbAssumption
          <6> HIDE DEF n
          <6> QED
            BY <1>1, <3>3, <6>1 DEF Id
        <5>2. /\ Len(q) = Len(peer.asked) + 1 /\ q[Len(peer.asked) + 1] = record[3]
              /\ \A i \in 1 .. Len(peer.asked) : q[i] = peer.asked[i]
              /\ \A i \in 1 .. Len(peer.asked) + 1 :
                    i \in 1 .. Len(peer.asked) \/ i = Len(peer.asked) + 1
          BY <1>1, <5>1, Appended
        <5> HIDE DEF q, n
        <5> QED
          BY <1>2, <3>3, <4>2, <5>2
      <4> QED
        BY <3>1, <4>1, <4>2
    <3>5. Sends(f) /\ peer'.op \in 0 .. n
      BY <1>2, <3>1 DEF f
    <3>6. f[1] \notin {"BLOCK", "RESULT"}
      BY <3>2
    <3> HIDE DEF n
    <3> QED
      BY <1>5, <2>1, <3>4, <3>5, <3>6
  <2> QED
    BY <1>7, <2>2, <2>3, DecodeSends
<1>8. CASE PeerStart \/ PeerBlock \/ PeerRepeat \/ PeerResult
  <2>1. requests' = requests /\ host' = host
    BY <1>8, PeerOK DEF history
  <2>2. CASE PeerStart
    <3> DEFINE a == Tail(peer.asked)
               o == Head(peer.asked)
               rest == [peer EXCEPT !.asked = a]
    <3>1. /\ peer.asked # <<>>
          /\ \/ peer' = [rest EXCEPT !.op = o, !.next = 1] /\ returns' = returns
             \/ peer' = rest /\ Sends(error)
      BY <2>2, Zenon DEF PeerStart, error
    <3>2. /\ o = peer.asked[1] /\ 1 \in 1 .. Len(peer.asked)
          /\ \A i \in 1 .. Len(a) : a[i] = peer.asked[i + 1] /\ i + 1 \in 1 .. Len(peer.asked)
      <4>1. /\ o = peer.asked[1] /\ Len(a) = Len(peer.asked) - 1 /\ Len(peer.asked) \in Nat
            /\ \A i \in 1 .. Len(a) : a[i] = peer.asked[i + 1]
        BY <1>1, <3>1, HeadTailProperties
      <4>2. Len(peer.asked) # 0
        BY <1>1, <3>1, EmptySeq
      <4> HIDE DEF a
      <4> QED
        BY <4>1, <4>2
    <3> HIDE DEF a, o
    <3>3. o \in 1 .. n /\ \A i \in 1 .. Len(a) : a[i] \in 1 .. n
      BY <1>2, <3>2
    <3>4. peer'.asked = a /\ peer'.op \in {o, peer.op}
      BY <1>1, <3>1 DEF PeerType
    <3>5. peer'.op \in 0 .. n
      <4> HIDE DEF n
      <4>1. \A x \in 1 .. n : x \in 0 .. n
        BY <1>1
      <4> QED
        BY <1>2, <3>3, <3>4, <4>1
    <3>6. Sends(error) \/ returns' = returns
      BY <3>1
    <3> HIDE DEF n
    <3> QED
      BY <1>3, <1>5, <2>1, <3>3, <3>4, <3>5, <3>6
  <2>3. CASE PeerBlock \/ PeerRepeat \/ PeerResult
    <3>1. peer.op # 0 /\ peer.op \in 1 .. n
      <4>1. peer.op # 0
        BY <2>3, Zenon DEF PeerBlock, PeerRepeat, PeerResult
      <4> HIDE DEF n
      <4> QED
        BY <1>1, <1>2, <4>1
    <3>2. PICK f : f[2] = peer.op /\ (Sends(f) \/ returns' = returns \o Pieces(f))
      <4>1. \A x, y : <<x, peer.op, y>>[2] = peer.op
        OBVIOUS
      <4>2. \E x, y : Sends(<<x, peer.op, y>>) \/ returns' = returns \o Pieces(<<x, peer.op, y>>)
        BY <2>3, Zenon DEF PeerBlock, PeerRepeat, PeerResult
      <4>3. PICK x, y : Sends(<<x, peer.op, y>>) \/ returns' = returns \o Pieces(<<x, peer.op, y>>)
        BY <4>2
      <4> QED
        BY <4>1, <4>3
    <3>3. peer'.asked = peer.asked /\ peer'.op \in 0 .. n
      <4>1. 0 \in 0 .. n
        <5> HIDE DEF n
        <5> QED
          BY <1>1
      <4>2. CASE PeerRepeat
        BY <1>2, <4>2, Zenon DEF PeerRepeat
      <4>3. CASE PeerBlock
        <5> DEFINE m == peer.next + 1
        <5>1. peer' = [peer EXCEPT !.next = m]
          BY <4>3, Zenon DEF PeerBlock
        <5> HIDE DEF m
        <5> QED
          BY <1>1, <1>2, <5>1 DEF PeerType
      <4>4. CASE PeerResult
        <5>1. peer' = [peer EXCEPT !.op = 0]
          BY <4>4, Zenon DEF PeerResult
        <5> QED
          BY <1>1, <4>1, <5>1 DEF PeerType
      <4> QED
        BY <2>3, <4>2, <4>3, <4>4
    <3> HIDE DEF n
    <3> QED
      BY <1>2, <1>5, <2>1, <3>1, <3>2, <3>3
  <2> QED
    BY <1>8, <2>2, <2>3
<1>9. CASE HostOpen \/ HostEnds \/ HostPending \/ HostRead \/ HostPoll
  <2>1. requests' = requests /\ peer' = peer
    BY <1>9, HostOK
  <2>2. CASE HostOpen
    <3>1. PICK k \in 0 .. Len(returns) : returns' = SubSeq(returns, k + 1, Len(returns))
      BY <2>2, Zenon DEF HostOpen
    <3>2. Kept
      BY <1>1, <3>1, ReturnsLess
    <3> QED
      BY <1>6, <2>1, <2>2, <3>2
  <2>3. CASE HostRead
    <3>1. returns # <<>> /\ returns' = Tail(returns)
      BY <2>3, Zenon DEF HostRead
    <3> DEFINE m == Len(returns)
    <3>2. /\ Len(returns') = m - 1 /\ m \in Nat
          /\ \A i \in 1 .. Len(returns') : returns'[i] = returns[i + 1]
      BY <1>1, <3>1, HeadTailProperties
    <3>3. \A i \in 1 .. m - 1 : i + 1 \in 1 .. m
      <4> HIDE DEF m
      <4> QED
        BY <3>2
    <3>4. Kept
      BY <3>2, <3>3
    <3> QED
      BY <1>6, <2>1, <2>3, <3>4
  <2>4. CASE HostEnds \/ HostPending \/ HostPoll
    <3>1. returns' = returns
      BY <2>4, Zenon DEF HostEnds, HostPending, HostPoll
    <3>2. Kept
      BY <3>1
    <3> QED
      BY <1>6, <1>9, <2>1, <3>2
  <2> QED
    BY <1>9, <2>2, <2>3, <2>4
<1>10. CASE \E kind \in Kind : HostRequest(kind)
  <2>1. PICK kind \in Kind : HostRequest(kind)
    BY <1>10
  <2> DEFINE id == n + 1
             z == <<>>
  <2>2. /\ requests' = Append(requests, kind) /\ returns' = returns /\ peer' = peer
        /\ host' = [host EXCEPT !.at = "REQUEST", !.id = id, !.image = z]
    BY <2>1, Zenon DEF HostRequest
  <2>3. 1 .. n \subseteq 1 .. Len(requests') /\ 0 .. n \subseteq 0 .. Len(requests')
    <3>1. Len(requests') = n + 1
      BY <1>1, <2>2
    <3> HIDE DEF n
    <3> QED
      BY <1>1, <3>1
  <2>4. host'.pending = host.pending
    <3>1. host \in HostType
      BY TypeParts
    <3> HIDE DEF id, z
    <3> QED
      BY <2>2, <3>1 DEF HostType
  <2> HIDE DEF n
  <2>5. /\ peer'.op \in 0 .. Len(requests')
        /\ \A i \in 1 .. Len(peer'.asked) : peer'.asked[i] \in 1 .. Len(requests')
    BY <1>2, <2>2, <2>3
  <2>6. \A i \in 1 .. Len(host'.pending) : host'.pending[i] = host.pending[i]
    BY <2>4
  <2> QED
    BY <1>4, <2>2, <2>3, <2>4, <2>5, <2>6, EventsKept DEF n
<1>11. CASE RxCallback \/ UNCHANGED vars
  <2>1. UNCHANGED <<requests, returns, peer, host>>
    BY <1>11, Zenon DEF RxCallback, vars, history
  <2> QED
    BY <1>2, <1>3, <1>5, <2>1
<1> QED
  BY <1>7, <1>8, <1>9, <1>10, <1>11, Zenon DEF Next
\* At first no process runs and nothing is under way to one.
LEMMA StreamInit ==
    ASSUME Init
    PROVE  StreamInv
<1>1. /\ returns = <<>> /\ requests = <<>> /\ peer = [asked |-> <<>>, op |-> 0, next |-> 1]
      /\ host = Process
  BY Zenon DEF Init
<1>2. /\ Len(returns) = 0 /\ Len(requests) = 0 /\ Len(peer.asked) = 0 /\ Len(host.pending) = 0
      /\ peer.op = 0 /\ host.at = "CLOSED" /\ host.at # "BROKEN" /\ Stopped(host)
  BY <1>1 DEF Process, Stopped
<1>3. 0 \in 0 .. 0 /\ \A i : i \notin 1 .. 0
  OBVIOUS
<1>4. EventsInv
  BY <1>2, <1>3 DEF EventsInv
<1> QED
  BY <1>2, <1>4 DEF StreamInv

\* Every step keeps what a process reads fitting together, while no frame to it is torn.
LEMMA StreamStep ==
    ASSUME TypeOK, TypeOK', InboundInv, HandledInv', StreamInv, [Next]_vars
    PROVE  StreamInv'
<1>1. EventsInv' /\ EventsInv
  BY EventsStep DEF StreamInv
<1>2. SUFFICES ASSUME ~torn' PROVE GoesOn
  <2>1. CASE torn'
    BY <1>1, <2>1 DEF StreamInv
  <2>2. CASE ~torn'
    <3>1. GoesOn
      BY <1>2, <2>2
    <3> QED
      BY <1>1, <2>2, <3>1 DEF StreamInv, GoesOn
  <2> QED
    BY <2>1, <2>2
<1>3. CASE HostOpen
  BY <1>2, <1>3, StreamOpen
<1>4. ~HostOpen => ~torn
  <2> SUFFICES ASSUME ~HostOpen PROVE torn' = torn \/ torn' = TRUE
    BY <1>2
  <2>1. ASSUME NEW f, Sends(f) PROVE torn' = torn \/ torn' = TRUE
    BY <2>1, Zenon DEF Sends
  <2>2. CASE Decode
    <3>1. torn' = torn \/ \E r : Handle(r)
      BY <2>2, Zenon DEF Decode
    <3> QED
      BY <2>1, <3>1, Zenon DEF Handle
  <2>3. CASE PeerStart \/ PeerBlock \/ PeerRepeat \/ PeerResult
    BY <2>1, <2>3, Zenon DEF PeerStart, PeerBlock, PeerRepeat, PeerResult
  <2>4. CASE RxCallback \/ (\E kind \in Kind : HostRequest(kind)) \/ HostEnds \/ HostPending
             \/ HostRead \/ HostPoll \/ UNCHANGED vars
    BY <2>4, Zenon DEF RxCallback, HostRequest, HostEnds, HostPending, HostRead, HostPoll, vars
  <2> QED
    BY <2>2, <2>3, <2>4, Zenon DEF Next
  \* The process ran before the step, and goes on.
<1>5. ASSUME ~torn
      PROVE  /\ host.at # "BROKEN"
             /\ ~Stopped(host) => Consistent(host, returns) /\ Fed(host, returns, peer)
  BY <1>5 DEF StreamInv
<1>6. ASSUME ~torn, UNCHANGED <<returns, host, peer>> PROVE GoesOn
  BY <1>5, <1>6 DEF GoesOn
<1>7. CASE HostEnds
  <2>1. host' = Process
    BY <1>7, Zenon DEF HostEnds
  <2>2. host'.at # "BROKEN" /\ Stopped(host')
    BY <2>1 DEF Process, Stopped
  <2> QED
    BY <2>2 DEF GoesOn
<1>8. CASE HostPoll
  BY <1>2, <1>8, Zenon DEF HostPoll
<1>9. CASE ~torn /\ (HostRead \/ HostPending \/ \E kind \in Kind : HostRequest(kind))
  <2>1. ~Stopped(host)
    <3>1. host.at \in {"REQUEST", "BACKUP", "IDLE"}
      BY <1>9, Zenon DEF HostRead, Reads, HostPending, HostRequest
    <3> QED
      BY <3>1 DEF Stopped
  <2> QED
    BY <1>1, <1>5, <1>9, <2>1, StreamRead, StreamPending, StreamRequest
<1>10. CASE ~torn /\ (PeerStart \/ PeerBlock \/ PeerRepeat \/ PeerResult)
  <2>1. host' = host
    BY <1>10, PeerOK
  <2>2. CASE Stopped(host)
    BY <1>5, <1>10, <2>1, <2>2 DEF GoesOn
  <2>3. CASE ~Stopped(host)
    BY <1>2, <1>5, <1>10, <2>1, <2>3, StreamPeer DEF GoesOn
  <2> QED
    BY <2>2, <2>3
<1>11. CASE ~torn /\ Decode
  <2>1. host' = host
    BY <1>11, DecodeSends
  <2>2. CASE UNCHANGED <<returns, peer, handled, torn>>
    BY <1>6, <1>11, <2>1, <2>2
  <2>3. CASE \E record \in Record, ok \in BOOLEAN :
                    /\ handled' = Append(handled, record) /\ Sends(Response(record[3], ok))
                    /\ peer'.op = peer.op /\ peer'.next = peer.next
                    /\ peer'.asked \in {peer.asked, Append(peer.asked, record[3])}
    <3>1. PICK record \in Record, ok \in BOOLEAN :
             /\ handled' = Append(handled, record) /\ Sends(Response(record[3], ok))
             /\ peer'.op = peer.op /\ peer'.next = peer.next
      BY <2>3
    <3> DEFINE f == Response(record[3], ok)
    <3>2. f \in Frame /\ f[1] = "RESPONSE"
      <4>1. record[3] \in Id
        <5> DEFINE m == Len(handled) + 1
        <5>1. handled'[m] = record /\ m \in 1 .. Len(handled')
          <6>1. handled \in Seq(Record)
            BY DEF TypeOK
          <6> QED
            BY <3>1, <6>1, Appended
        <5> HIDE DEF m
        <5>2. handled'[m][3] \in 1 .. Len(requests')
          BY <5>1 DEF HandledInv
        <5>3. Len(requests') <= MaxRequests /\ Len(requests') \in Nat /\ MaxRequests \in Nat
          BY UsbAssumption DEF TypeOK
        <5> QED
          BY <5>1, <5>2, <5>3 DEF Id
      <4> QED
        BY <4>1, FrameIs DEF Response
    <3> HIDE DEF f
    <3>3. returns' = returns \o Pieces(f)
      BY <1>2, <3>1, SendsWhole DEF f
    <3>4. CASE Stopped(host)
      BY <1>5, <1>11, <2>1, <3>4 DEF GoesOn
    <3>5. CASE ~Stopped(host)
      <4>1. Consistent(host, returns') /\ Fed(host, returns', peer')
        <5>1. f[1] # "BLOCK" /\ f[1] # "RESULT"
          BY <3>2
        <5> QED
          BY <1>5, <1>11, <3>1, <3>2, <3>3, <3>5, <5>1, StreamOther
      <4> QED
        BY <1>5, <1>11, <2>1, <3>5, <4>1 DEF GoesOn
    <3> QED
      BY <3>4, <3>5
  <2> QED
    BY <1>11, <2>2, <2>3, DecodeSends
<1>12. CASE ~torn /\ (RxCallback \/ UNCHANGED vars)
  <2>1. UNCHANGED <<returns, peer, host>>
    BY <1>12, Zenon DEF RxCallback, vars
  <2> QED
    BY <1>6, <1>12, <2>1
<1> QED
  BY <1>3, <1>4, <1>7, <1>8, <1>9, <1>10, <1>11, <1>12, Zenon DEF Next

-----------------------------------------------------------------------------
(***************************************************************************)
(* What the decoder holds of a frame that arrives whole.                   *)
(***************************************************************************)
Gone == dropped \cup Queue

\* The first p bytes of request k have been looked at, and so has the zero before them.
Clear(k, p) ==
    /\ \A i \in 1 .. p : <<k, i>> \notin Gone
    /\ k = 1 \/ Delimiter(k - 1) \notin Gone
Held(k, p) == Len(encoded) = p /\ \A i \in 1 .. p : encoded[i] = E(k)[i]
BufferInv ==
    /\ \A k \in 1 .. Len(requests), p \in Nat :
          p + 1 <= Len(E(k)) /\ Clear(k, p) /\ <<k, p + 1>> \in Queue => Held(k, p)
    /\ Clear(Len(requests) + 1, 0) => encoded = <<>>

\* The bytes of a request, their positions and the zero at the end.
LEMMA PositionIs ==
    ASSUME requests \in Seq(Kind), Len(requests) <= MaxRequests, NEW k \in 1 .. Len(requests)
    PROVE  /\ k \in Nat /\ Len(E(k)) \in Nat /\ Len(E(k)) >= 2 /\ Len(E(k)) <= EncodedMax
           /\ EncodedMax \in Nat
           /\ Delimiter(k) = <<k, Len(E(k))>> /\ Delimiter(k) \in Written
           /\ \A i \in 1 .. Len(E(k)) : <<k, i>> \in Written
           /\ \A i \in 1 .. Len(E(k)) : ByteOf(<<k, i>>) = E(k)[i] /\ E(k)[i] \in Nat
           /\ \A i \in 1 .. Len(E(k)) : E(k)[i] = 0 <=> i = Len(E(k))
           /\ UsbDecode(SubSeq(E(k), 1, Len(E(k)) - 1)) = Sent(k)
<1> DEFINE e == E(k)
           n == Len(e)
<1>1. /\ k \in Id /\ IsEncoding(requests[k], k, e) /\ n \in Nat /\ EncodedMax \in Nat
      /\ \A i \in 1 .. n : ByteOf(<<k, i>>) = e[i] /\ e[i] \in Nat
  BY ByteIs
<1>2. /\ n \in 2 .. EncodedMax
      /\ \A i \in 1 .. n : e[i] = 0 <=> i = n
      /\ UsbDecode(SubSeq(e, 1, n - 1)) = RecordOf(requests[k], k)
  BY <1>1 DEF IsEncoding
<1>3. UsbDecode(SubSeq(e, 1, n - 1)) = Sent(k)
  BY <1>2 DEF Sent
<1>4. Delimiter(k) = <<k, n>>
  BY DEF Delimiter, E
<1> HIDE DEF n
<1>5. k \in Nat /\ n >= 2 /\ n <= EncodedMax /\ n \in 1 .. n /\ 1 .. n \subseteq Nat
  BY <1>1, <1>2, UsbAssumption DEF Id
<1>6. \A i \in 1 .. n : <<k, i>> \in Written
  BY <1>1, <1>5 DEF Written, n
<1>7. <<k, n>> \in Written
  BY <1>5, <1>6
<1> HIDE DEF e
<1> QED
  BY <1>1, <1>2, <1>3, <1>4, <1>5, <1>6, <1>7 DEF n, e

\* What the decoder has looked at came before the byte it takes.
LEMMA TakenOrder ==
    ASSUME InboundInv, NEW h, Taken(h), NEW b \in Written, b \notin dropped', b \notin Queue'
    PROVE  b = h \/ (b \notin Gone /\ Before(b, h))
<1>1. h \in Queue /\ Queue = {h} \cup Queue' /\ dropped' = dropped
  BY DEF Taken
<1>2. b = h \/ (b \notin dropped /\ b \notin Queue)
  BY <1>1
<1> QED
  BY <1>1, <1>2 DEF InboundInv, Gone

\* A byte that is decoded, of a frame that arrives whole, is added to its beginning; the
\* zero before it leaves nothing.
LEMMA BufferDecode ==
    ASSUME TypeOK, InboundInv, BufferInv, NEW h, Taken(h), DecodeOf(h)
    PROVE  BufferInv'
<1> DEFINE n == Len(requests)
           byte == ByteOf(h)
<1>0. /\ requests \in Seq(Kind) /\ n <= MaxRequests /\ encoded \in Seq(Nat) /\ n \in Nat
  BY DEF TypeOK
<1>1. /\ h \in Queue /\ Queue = {h} \cup Queue' /\ (\A b \in Queue' : Before(h, b))
      /\ dropped' = dropped /\ requests' = requests /\ Queue \subseteq Written
  BY DEF Taken, InboundInv
<1>2. encoded' = IF byte = 0 THEN Rest(encoded) ELSE Collected(encoded, byte)
  BY Zenon DEF DecodeOf
<1>3. PICK a, c : h = <<a, c>> /\ a \in 1 .. n /\ c \in 1 .. Len(E(a))
  BY <1>1, WrittenIs
<1>4. /\ \A k \in 1 .. n : /\ k \in Nat /\ Len(E(k)) \in Nat /\ Len(E(k)) <= EncodedMax
                           /\ Len(E(k)) >= 2
                           /\ Delimiter(k) = <<k, Len(E(k))>> /\ Delimiter(k) \in Written
                           /\ \A i \in 1 .. Len(E(k)) : <<k, i>> \in Written
      /\ EncodedMax \in Nat
  BY <1>0, <1>3, PositionIs
<1>5. byte = E(a)[c] /\ byte \in Nat /\ (byte = 0 <=> c = Len(E(a))) /\ a \in Nat /\ c \in Nat
  <2>1. /\ ByteOf(<<a, c>>) = E(a)[c] /\ E(a)[c] \in Nat /\ (E(a)[c] = 0 <=> c = Len(E(a)))
        /\ a \in Nat
    BY <1>0, <1>3, PositionIs
  <2> DEFINE m == Len(E(a))
  <2>2. m \in Nat /\ c \in 1 .. m
    BY <1>3, <1>4
  <2> HIDE DEF m
  <2>3. c \in Nat
    BY <2>2
  <2> QED
    BY <1>3, <2>1, <2>3
<1> HIDE DEF byte
<1>6. /\ \A k : E(k)' = E(k) /\ Delimiter(k)' = Delimiter(k)
      /\ n' = n
  BY <1>1 DEF E, Delimiter
<1>7. ASSUME NEW b \in Written, b \notin Gone' PROVE b = h \/ (b \notin Gone /\ Before(b, h))
  <2>1. b \notin dropped' /\ b \notin Queue'
    BY <1>7 DEF Gone
  <2> QED
    BY <2>1, TakenOrder
<1>8. ASSUME NEW k \in 1 .. n + 1, a < k, k = 1 \/ Delimiter(k - 1) \notin Gone'
      PROVE  encoded' = <<>>
  <2>1. k # 1 /\ k - 1 \in 1 .. n /\ a <= k - 1 /\ k - 1 \in Nat
    <3> HIDE DEF n
    <3> QED
      BY <1>0, <1>3, <1>5, <1>8
  <2>2. PICK j : j = k - 1
    OBVIOUS
  <2>3. j \in 1 .. n /\ a <= j /\ j \in Nat /\ Delimiter(j) \notin Gone'
    BY <1>8, <2>1, <2>2
  <2>4. PICK m : m = Len(E(j))
    OBVIOUS
  <2>5. Delimiter(j) = <<j, m>> /\ Delimiter(j) \in Written /\ m \in Nat
    BY <1>4, <2>3, <2>4
  <2>6. <<j, m>> = h
    <3> SUFFICES ASSUME <<j, m>> # h PROVE FALSE
      OBVIOUS
    <3>1. Before(<<j, m>>, <<a, c>>)
      BY <1>3, <1>7, <2>3, <2>5
    <3>2. j = a /\ m < c
      BY <1>5, <2>3, <2>5, <3>1 DEF Before
    <3>3. c <= m
      BY <1>3, <2>4, <2>5, <3>2
    <3> QED
      BY <1>5, <2>5, <3>2, <3>3
  <2>7. byte = 0
    BY <1>3, <1>5, <2>4, <2>6
  <2> QED
    BY <1>2, <2>7 DEF Rest
<1>9. ASSUME NEW k \in 1 .. n, NEW p \in Nat, p + 1 <= Len(E(k)), Clear(k, p)', <<k, p + 1>> \in Queue'
      PROVE  Held(k, p)'
  <2>1. a < k \/ (a = k /\ c <= p)
    <3>1. Before(<<a, c>>, <<k, p + 1>>)
      BY <1>1, <1>3, <1>9
    <3> QED
      BY <1>5, <3>1 DEF Before
  <2>2. PICK m : m = Len(E(k))
    OBVIOUS
  <2>3. /\ m \in Nat /\ k \in Nat /\ p + 1 <= m /\ m <= EncodedMax /\ EncodedMax \in Nat
        /\ \A i \in 1 .. m : <<k, i>> \in Written
    BY <1>4, <1>9, <2>2
  <2>4. /\ \A i \in 1 .. p : <<k, i>> \notin Gone' /\ <<k, i>> \in Written
        /\ k = 1 \/ Delimiter(k - 1) \notin Gone'
    <3>1. \A i \in 1 .. p : i \in 1 .. m
      BY <2>3
    <3>2. \A i \in 1 .. p : <<k, i>> \notin Gone'
      BY <1>9 DEF Clear
    <3>3. k = 1 \/ Delimiter(k - 1) \notin Gone'
      BY <1>6, <1>9 DEF Clear
    <3> QED
      BY <2>3, <3>1, <3>2, <3>3
  <2>5. CASE a < k
    <3>1. p = 0
      <4> SUFFICES ASSUME p # 0 PROVE FALSE
        OBVIOUS
      <4>1. 1 \in 1 .. p
        OBVIOUS
      <4>2. <<k, 1>> = h \/ Before(<<k, 1>>, h)
        BY <1>7, <2>4, <4>1
      <4>3. Before(<<k, 1>>, <<a, c>>)
        BY <1>3, <1>5, <2>3, <2>5, <4>2
      <4> QED
        BY <1>5, <2>3, <2>5, <4>3 DEF Before
    <3>2. encoded' = <<>>
      <4>1. k \in 1 .. n + 1
        <5> HIDE DEF n
        <5> QED
          BY <1>0
      <4> QED
        BY <1>8, <2>4, <2>5, <4>1
    <3>3. Len(encoded') = 0 /\ \A i : i \notin 1 .. 0
      BY <3>2
    <3> QED
      BY <3>1, <3>3 DEF Held
  <2>6. CASE a = k /\ c <= p
    <3>1. c = p /\ p - 1 \in Nat /\ p \in 1 .. p
      <4>1. p \in 1 .. p
        BY <1>3, <1>5, <2>6
      <4>2. <<k, p>> = h \/ Before(<<k, p>>, h)
        BY <1>7, <2>4, <4>1
      <4>3. p = c \/ p < c
        BY <1>3, <1>5, <2>3, <2>6, <4>2 DEF Before
      <4> QED
        BY <1>5, <2>6, <4>1, <4>3
    <3>2. PICK q : q = p - 1
      OBVIOUS
    <3>3. q \in Nat /\ q + 1 = p /\ q + 1 <= m /\ q + 1 \in 1 .. p
      BY <2>3, <3>1, <3>2
    <3>4. Clear(k, q)
      <4>1. ASSUME NEW i \in 1 .. q PROVE <<k, i>> \notin Gone
        <5>1. i \in 1 .. p /\ i # p
          BY <3>3
        <5>2. <<k, i>> # h
          BY <1>3, <3>1, <5>1
        <5> QED
          BY <1>7, <2>4, <5>1, <5>2
      <4>2. CASE k # 1
        <5>1. k - 1 \in 1 .. n /\ k - 1 # k
          <6> HIDE DEF n
          <6> QED
            BY <1>0, <2>3, <4>2
        <5>2. PICK j : j = k - 1
          OBVIOUS
        <5>3. Delimiter(j) = <<j, Len(E(j))>> /\ Delimiter(j) \in Written
          BY <1>4, <5>1, <5>2
        <5>4. Delimiter(j) # h
          BY <1>3, <2>6, <5>1, <5>2, <5>3
        <5>5. Delimiter(j) \notin Gone
          BY <1>6, <1>7, <2>4, <4>2, <5>2, <5>3, <5>4
        <5> QED
          BY <4>1, <5>2, <5>5 DEF Clear
      <4> QED
        BY <4>1, <4>2 DEF Clear
    <3>5. Held(k, q)
      BY <1>1, <1>3, <2>2, <2>6, <3>1, <3>3, <3>4 DEF BufferInv
    <3>6. Len(encoded) = q /\ \A i \in 1 .. q : encoded[i] = E(k)[i]
      BY <3>5 DEF Held
    <3>7. byte # 0 /\ byte = E(k)[p]
      BY <1>5, <2>2, <2>3, <2>6, <3>1
    <3>8. encoded' = Append(encoded, byte)
      <4>1. Len(encoded) < EncodedMax
        BY <2>3, <3>3, <3>6
      <4> QED
        BY <1>2, <3>7, <4>1, Zenon DEF Collected
    <3>9. /\ Len(encoded') = p /\ encoded'[p] = byte
          /\ \A i \in 1 .. q : encoded'[i] = encoded[i]
      BY <1>0, <1>5, <3>3, <3>6, <3>8, Appended
    <3>10. \A i \in 1 .. p : i \in 1 .. q \/ i = p
      BY <3>3
    <3>11. \A i \in 1 .. p : encoded'[i] = E(k)[i]
      BY <3>6, <3>7, <3>9, <3>10
    <3>12. \A i \in 1 .. p : encoded'[i] = E(k)'[i]
      BY <1>6, <3>11
    <3> QED
      BY <3>9, <3>12 DEF Held
  <2> QED
    BY <2>1, <2>5, <2>6
<1>10. ASSUME Clear(n + 1, 0)' PROVE encoded' = <<>>
  <2>1. PICK k : k = n + 1
    OBVIOUS
  <2>2. Clear(k, 0)'
    BY <1>6, <1>10, <2>1
  <2>3. k = 1 \/ Delimiter(k - 1) \notin Gone'
    BY <1>6, <2>2 DEF Clear
  <2>4. k \in 1 .. n + 1 /\ a < k
    <3> HIDE DEF n
    <3> QED
      BY <1>0, <1>3, <1>5, <2>1
  <2> QED
    BY <1>8, <2>3, <2>4
<1>11. \A k \in 1 .. Len(requests'), p \in Nat :
          p + 1 <= Len(E(k)') /\ Clear(k, p)' /\ <<k, p + 1>> \in Queue' => Held(k, p)'
  BY <1>6, <1>9
<1> QED
  BY <1>10, <1>11 DEF BufferInv

\* Nothing is held at first.
LEMMA BufferInit ==
    ASSUME Init
    PROVE  BufferInv
<1>1. encoded = <<>> /\ requests = <<>>
  BY Zenon DEF Init
<1>2. \A k : k \notin 1 .. Len(requests)
  <2>1. Len(requests) = 0 /\ \A k : k \notin 1 .. 0
    BY <1>1
  <2> QED
    BY <2>1
<1> QED
  BY <1>1, <1>2 DEF BufferInv

\* What is looked at and held stays so while no byte is decoded and none written.
LEMMA BufferQuiet ==
    ASSUME BufferInv, Queue' \subseteq Queue, Gone' = Gone, UNCHANGED <<requests, encoded>>
    PROVE  BufferInv'
<1>1. \A k : E(k)' = E(k) /\ Delimiter(k)' = Delimiter(k)
  BY DEF E, Delimiter
<1>2. \A k, p : Clear(k, p)' <=> Clear(k, p)
  BY <1>1 DEF Clear
<1>3. \A k, p : Held(k, p)' <=> Held(k, p)
  BY <1>1 DEF Held
<1>4. /\ \A k \in 1 .. Len(requests), p \in Nat :
            p + 1 <= Len(E(k)) /\ Clear(k, p) /\ <<k, p + 1>> \in Queue => Held(k, p)
      /\ Clear(Len(requests) + 1, 0) => encoded = <<>>
  BY DEF BufferInv
<1>5. \A k \in 1 .. Len(requests'), p \in Nat :
          p + 1 <= Len(E(k)') /\ Clear(k, p)' /\ <<k, p + 1>> \in Queue' => Held(k, p)'
  BY <1>1, <1>2, <1>3, <1>4
<1>6. Clear(Len(requests) + 1, 0)' => encoded' = <<>>
  <2>1. PICK k : k = Len(requests) + 1
    OBVIOUS
  <2>2. Clear(k, 0)' => encoded' = <<>>
    BY <1>2, <1>4, <2>1
  <2>3. Clear(Len(requests) + 1, 0)' => Clear(k, 0)'
    BY <2>1
  <2> QED
    BY <2>2, <2>3
<1> QED
  BY <1>5, <1>6 DEF BufferInv

\* What a request adds to what is under way, and leaves of what there was.
LEMMA GoneGrows ==
    ASSUME TypeOK, NEW k, Wrote(k)
    PROVE  /\ Len(requests) \in Nat /\ k = Len(requests) + 1 /\ k \in Nat /\ Len(requests') = k
           /\ \A j \in 1 .. k : j \in 1 .. Len(requests) \/ j = k
           /\ \A j \in 1 .. Len(requests) :
                 /\ j \in 1 .. k /\ j < k /\ E(j)' = E(j) /\ Delimiter(j)' = Delimiter(j)
                 /\ Sent(j)' = Sent(j)
           /\ Gone \subseteq Gone' /\ dropped' = dropped
           /\ \A b \in Queue' : b \in Queue \/ b[1] = k
           /\ Len(E(k)') \in Nat /\ Len(E(k)') >= 2 /\ Delimiter(k)' = <<k, Len(E(k)')>>
           /\ \A i \in 1 .. Len(E(k)') : <<k, i>> \in Gone'
<1> DEFINE n == Len(requests)
<1>0. requests \in Seq(Kind)
  BY DEF TypeOK
<1>1. /\ n \in Nat /\ k \in Nat
      /\ \A j \in 1 .. k : j \in 1 .. n \/ j = k
      /\ \A j \in 1 .. n : j \in 1 .. k /\ j < k /\ E(j)' = E(j)
  BY <1>0, WrittenGrows
<1>2. /\ k = n + 1 /\ Len(requests') = k /\ \A j \in 1 .. n : requests'[j] = requests[j]
      /\ requests'[k] \in Kind /\ dropped' = dropped /\ k \in Id
      /\ Queue' = Queue \cup {<<k, i>> : i \in 1 .. Len(E(k)')}
  BY DEF Wrote
<1> HIDE DEF n
<1>3. \A j \in 1 .. n : Delimiter(j)' = Delimiter(j) /\ Sent(j)' = Sent(j)
  BY <1>2 DEF Delimiter, Sent
<1>4. Len(E(k)') \in Nat /\ Len(E(k)') >= 2 /\ Delimiter(k)' = <<k, Len(E(k)')>>
  <2>1. PICK kind \in Kind : kind = requests'[k]
    BY <1>2
  <2>2. E(k)' = Encoding[kind][k] /\ Delimiter(k)' = <<k, Len(Encoding[kind][k])>>
    BY <2>1 DEF E, Delimiter
  <2> QED
    BY <1>2, <2>2, BytesAre
<1>5. /\ Gone \subseteq Gone' /\ \A i \in 1 .. Len(E(k)') : <<k, i>> \in Gone'
      /\ \A b \in Queue' : b \in Queue \/ b[1] = k
  BY <1>2 DEF Gone
<1> QED
  BY <1>1, <1>2, <1>3, <1>4, <1>5 DEF n

\* A new request begins with an empty buffer, if the zero before it was looked at.
LEMMA BufferRequest ==
    ASSUME TypeOK, BufferInv, NEW k, Wrote(k), encoded' = encoded
    PROVE  BufferInv'
<1> DEFINE n == Len(requests)
<1>1. /\ n \in Nat /\ k = n + 1 /\ k \in Nat /\ Len(requests') = k
      /\ \A j \in 1 .. k : j \in 1 .. n \/ j = k
      /\ \A j \in 1 .. n : /\ j \in 1 .. k /\ j < k /\ E(j)' = E(j) /\ Delimiter(j)' = Delimiter(j)
      /\ Gone \subseteq Gone'
      /\ \A b \in Queue' : b \in Queue \/ b[1] = k
      /\ Len(E(k)') \in Nat /\ Len(E(k)') >= 2 /\ Delimiter(k)' = <<k, Len(E(k)')>>
      /\ \A i \in 1 .. Len(E(k)') : <<k, i>> \in Gone'
  BY GoneGrows
<1>2. /\ \A j \in 1 .. n, p \in Nat :
            p + 1 <= Len(E(j)) /\ Clear(j, p) /\ <<j, p + 1>> \in Queue => Held(j, p)
      /\ Clear(k, 0) => encoded = <<>>
  BY <1>1 DEF BufferInv
<1> HIDE DEF n
<1>3. ASSUME NEW j \in 1 .. k, NEW p, Clear(j, p)' PROVE Clear(j, p)
  <2>1. /\ \A i \in 1 .. p : <<j, i>> \notin Gone'
        /\ j = 1 \/ Delimiter(j - 1)' \notin Gone'
    BY <1>3 DEF Clear
  <2>2. j # 1 => j - 1 \in 1 .. n
    BY <1>1
  <2>3. j # 1 => Delimiter(j - 1)' = Delimiter(j - 1)
    BY <1>1, <2>2
  <2> QED
    BY <1>1, <2>1, <2>3 DEF Clear
<1>4. ASSUME NEW j \in 1 .. k, NEW p \in Nat, p + 1 <= Len(E(j)'), Clear(j, p)',
             <<j, p + 1>> \in Queue'
      PROVE  Held(j, p)'
  <2>1. CASE j \in 1 .. n
    <3>1. E(j)' = E(j) /\ <<j, p + 1>> \in Queue
      BY <1>1, <1>4, <2>1
    <3>2. Held(j, p)
      BY <1>2, <1>3, <1>4, <2>1, <3>1
    <3> QED
      BY <3>1, <3>2 DEF Held
  <2>2. CASE j = k
    <3>1. p = 0
      <4> SUFFICES ASSUME p # 0 PROVE FALSE
        OBVIOUS
      <4>1. 1 \in 1 .. p
        OBVIOUS
      <4>2. <<k, 1>> \notin Gone'
        BY <1>4, <2>2, <4>1 DEF Clear
      <4>3. 1 \in 1 .. Len(E(k)')
        BY <1>1
      <4> QED
        BY <1>1, <4>2, <4>3
    <3>2. encoded' = <<>>
      BY <1>2, <1>3, <1>4, <2>2, <3>1
    <3>3. Len(encoded') = 0 /\ \A i : i \notin 1 .. 0
      BY <3>2
    <3> QED
      BY <3>1, <3>3 DEF Held
  <2> QED
    BY <1>1, <2>1, <2>2
<1>5. ASSUME Clear(Len(requests) + 1, 0)' PROVE FALSE
  <2>1. PICK j : j = k + 1
    OBVIOUS
  <2>2. Clear(j, 0)'
    BY <1>1, <1>5, <2>1
  <2>3. j # 1 /\ j - 1 = k
    BY <1>1, <2>1
  <2>4. Delimiter(j - 1)' \notin Gone'
    BY <2>2, <2>3 DEF Clear
  <2>5. Delimiter(k)' \notin Gone'
    BY <2>3, <2>4
  <2>6. Len(E(k)') \in 1 .. Len(E(k)')
    BY <1>1
  <2> QED
    BY <1>1, <2>5, <2>6
<1> QED
  BY <1>1, <1>4, <1>5 DEF BufferInv

\* Request k has been looked at whole, after the end of the one before it.
Intact(k) ==
    /\ \A i \in 1 .. Len(E(k)) : <<k, i>> \notin Gone
    /\ k = 1 \/ Delimiter(k - 1) \notin dropped
IsHandled(k) == \E j \in 1 .. Len(handled) : handled[j] = Sent(k)
IntactInv == \A k \in 1 .. Len(requests) : Intact(k) => IsHandled(k)

\* The history of what was handled only grows.
LEMMA HandledStays ==
    ASSUME TypeOK, InboundInv, [Next]_vars, NEW k, IsHandled(k), Sent(k)' = Sent(k)
    PROVE  IsHandled(k)'
<1>1. \A j \in 1 .. Len(handled) : j \in 1 .. Len(handled') /\ handled'[j] = handled[j]
  BY HistoryGrows
<1> QED
  BY <1>1 DEF IsHandled

\* There is no request at first.
LEMMA IntactInit ==
    ASSUME Init
    PROVE  IntactInv
<1>1. \A k : k \notin 1 .. Len(requests)
  <2>1. requests = <<>>
    BY Zenon DEF Init
  <2>2. Len(requests) = 0 /\ \A k : k \notin 1 .. 0
    BY <2>1
  <2> QED
    BY <2>2
<1> QED
  BY <1>1 DEF IntactInv

\* What has been handled stays so while no more is looked at.
LEMMA IntactQuiet ==
    ASSUME TypeOK, InboundInv, [Next]_vars, IntactInv, requests' = requests,
           Gone' = Gone, dropped \subseteq dropped'
    PROVE  IntactInv'
<1>1. \A k : E(k)' = E(k) /\ Delimiter(k)' = Delimiter(k) /\ Sent(k)' = Sent(k)
  BY DEF E, Delimiter, Sent
<1>2. ASSUME NEW k \in 1 .. Len(requests), Intact(k)' PROVE IsHandled(k)'
  <2>1. Intact(k)
    BY <1>1, <1>2 DEF Intact
  <2>2. IsHandled(k)
    BY <2>1 DEF IntactInv
  <2> QED
    BY <1>1, <2>2, HandledStays
<1> QED
  BY <1>2 DEF IntactInv

\* A new request has not been looked at.
LEMMA IntactRequest ==
    ASSUME TypeOK, InboundInv, [Next]_vars, IntactInv, NEW k, Wrote(k)
    PROVE  IntactInv'
<1> DEFINE n == Len(requests)
<1>1. /\ n \in Nat /\ k = n + 1 /\ k \in Nat /\ Len(requests') = k
      /\ \A j \in 1 .. k : j \in 1 .. n \/ j = k
      /\ \A j \in 1 .. n : /\ E(j)' = E(j) /\ Delimiter(j)' = Delimiter(j) /\ Sent(j)' = Sent(j)
      /\ Gone \subseteq Gone' /\ dropped' = dropped
      /\ Len(E(k)') \in Nat /\ Len(E(k)') >= 2
      /\ \A i \in 1 .. Len(E(k)') : <<k, i>> \in Gone'
  BY GoneGrows
<1> HIDE DEF n
<1>2. ASSUME NEW j \in 1 .. k, Intact(j)' PROVE IsHandled(j)'
  <2>1. CASE j = k
    <3>1. 1 \in 1 .. Len(E(k)')
      BY <1>1
    <3>2. <<k, 1>> \notin Gone'
      BY <1>2, <2>1, <3>1 DEF Intact
    <3> QED
      BY <1>1, <3>1, <3>2
  <2>2. CASE j \in 1 .. n
    <3>1. /\ \A i \in 1 .. Len(E(j)) : <<j, i>> \notin Gone
          /\ j = 1 \/ Delimiter(j - 1)' \notin dropped
      BY <1>1, <1>2, <2>2 DEF Intact
    <3>2. j # 1 => j - 1 \in 1 .. n
      BY <1>1, <2>2
    <3>3. Intact(j)
      BY <1>1, <3>1, <3>2 DEF Intact
    <3>4. IsHandled(j)
      BY <2>2, <3>3 DEF IntactInv, n
    <3> QED
      BY <1>1, <2>2, <3>4, HandledStays
  <2> QED
    BY <1>1, <2>1, <2>2
<1> QED
  BY <1>1, <1>2 DEF IntactInv

\* The zero of a request that arrived whole finds its record in the buffer.
LEMMA IntactDecode ==
    ASSUME TypeOK, InboundInv, BufferInv, IntactInv, [Next]_vars, NEW h, Taken(h), DecodeOf(h)
    PROVE  IntactInv'
<1> DEFINE n == Len(requests)
           byte == ByteOf(h)
           record == IF byte = 0 THEN UsbDecode(encoded) ELSE <<>>
<1>0. /\ requests \in Seq(Kind) /\ n <= MaxRequests /\ encoded \in Seq(Nat) /\ n \in Nat
      /\ handled \in Seq(Record)
  BY DEF TypeOK
<1>1. /\ h \in Queue /\ Queue = {h} \cup Queue' /\ (\A b \in Queue' : Before(h, b))
      /\ dropped' = dropped /\ requests' = requests /\ Queue \subseteq Written
  BY DEF Taken, InboundInv
<1>2. record # <<>> => handled' = Append(handled, record)
  BY Zenon DEF DecodeOf
<1>3. \A j : E(j)' = E(j) /\ Delimiter(j)' = Delimiter(j) /\ Sent(j)' = Sent(j)
  BY <1>1 DEF E, Delimiter, Sent
<1>4. ASSUME NEW b \in Written, b \notin Gone' PROVE b = h \/ (b \notin Gone /\ Before(b, h))
  <2>1. b \notin dropped' /\ b \notin Queue'
    BY <1>4 DEF Gone
  <2> QED
    BY <2>1, TakenOrder
<1>5. ASSUME NEW k \in 1 .. n, Intact(k)', ~Intact(k) PROVE IsHandled(k)'
  <2>1. PICK m : m = Len(E(k))
    OBVIOUS
  <2>2. /\ k \in Nat /\ m \in Nat /\ m >= 2 /\ m \in 1 .. m
        /\ Delimiter(k) = <<k, m>>
        /\ \A i \in 1 .. m : <<k, i>> \in Written
        /\ ByteOf(<<k, m>>) = 0
        /\ \A i \in 1 .. m : E(k)[i] \in Nat
        /\ UsbDecode(SubSeq(E(k), 1, m - 1)) = Sent(k)
    <3>1. m \in Nat /\ m >= 2
      BY <1>0, <2>1, PositionIs
    <3>2. m \in 1 .. m
      BY <3>1
    <3> QED
      BY <1>0, <2>1, <3>1, <3>2, PositionIs
  <2>3. /\ \A i \in 1 .. m : <<k, i>> \notin Gone'
        /\ k = 1 \/ Delimiter(k - 1) \notin dropped
    BY <1>1, <1>3, <1>5, <2>1 DEF Intact
  <2>4. \E i \in 1 .. m : <<k, i>> \in Gone
    BY <1>5, <2>1, <2>3 DEF Intact
  <2>5. PICK i \in 1 .. m : h = <<k, i>>
    BY <1>4, <2>2, <2>3, <2>4
  <2>6. h = <<k, m>>
    <3> SUFFICES ASSUME <<k, m>> # h PROVE FALSE
      OBVIOUS
    <3>1. Before(<<k, m>>, <<k, i>>)
      BY <1>4, <2>2, <2>3, <2>5
    <3> QED
      BY <2>2, <2>5, <3>1 DEF Before
  <2>7. PICK q : q = m - 1
    OBVIOUS
  <2>8. q \in Nat /\ q + 1 = m /\ q + 1 <= m
    BY <2>2, <2>7
  <2>9. Clear(k, q)
    <3>1. ASSUME NEW j \in 1 .. q PROVE <<k, j>> \notin Gone
      <4>1. j \in 1 .. m /\ j # m
        BY <2>8
      <4>2. <<k, j>> # h
        BY <2>6, <4>1
      <4> QED
        BY <1>4, <2>2, <2>3, <4>1, <4>2
    <3>2. CASE k # 1
      <4>1. PICK j : j = k - 1
        OBVIOUS
      <4>2. j \in 1 .. n /\ j < k /\ j \in Nat
        <5> HIDE DEF n
        <5> QED
          BY <1>0, <2>2, <3>2, <4>1
      <4>3. PICK l : l = Len(E(j))
        OBVIOUS
      <4>4. Delimiter(j) = <<j, l>>
        BY <1>0, <4>2, <4>3, PositionIs
      <4>5. Delimiter(j) # h
        BY <2>6, <4>2, <4>4, <2>2
      <4>6. Delimiter(j) \notin Queue'
        <5> SUFFICES ASSUME <<j, l>> \in Queue' PROVE FALSE
          BY <4>4
        <5>1. Before(<<k, m>>, <<j, l>>)
          BY <1>1, <2>6
        <5> QED
          BY <2>2, <4>2, <5>1 DEF Before
      <4>7. Delimiter(j) \notin Gone
        BY <1>1, <2>3, <3>2, <4>1, <4>5, <4>6 DEF Gone
      <4> QED
        BY <3>1, <4>1, <4>7 DEF Clear
    <3> QED
      BY <3>1, <3>2 DEF Clear
  <2>10. Len(encoded) = q /\ \A j \in 1 .. q : encoded[j] = E(k)[j]
    <3>1. Held(k, q)
      BY <1>1, <2>1, <2>6, <2>8, <2>9 DEF BufferInv
    <3> QED
      BY <3>1 DEF Held
  <2>11. UsbDecode(encoded) = Sent(k)
    <3> DEFINE e == E(k)
    <3>1. e \in Seq(Nat) /\ Len(e) = m
      BY <1>0, <2>1, ByteIs
    <3> HIDE DEF e
    <3>2. SubSeq(e, 1, Len(encoded)) = encoded
      <4>1. \A j \in 1 .. Len(encoded) : e[j] = encoded[j]
        BY <2>10 DEF e
      <4>2. Len(encoded) <= Len(e)
        BY <2>2, <2>8, <2>10, <3>1
      <4> QED
        BY <1>0, <3>1, <4>1, <4>2, PrefixIs
    <3> QED
      BY <2>2, <2>7, <2>10, <3>2 DEF e
  <2>12. Sent(k) # <<>> /\ Sent(k) \in Record
    <3>1. k \in Id /\ requests[k] \in Kind
      BY <1>0, ByteIs
    <3>2. Sent(k) \in Record
      BY <3>1, RecordAssumption DEF Sent
    <3> QED
      BY <3>2, RecordIs
  <2>13. handled' = Append(handled, Sent(k))
    <3>1. byte = 0
      BY <2>2, <2>6
    <3>2. record = Sent(k)
      BY <2>11, <3>1
    <3> QED
      BY <1>2, <2>12, <3>2
  <2>14. PICK s : s = Sent(k)
    OBVIOUS
  <2>15. PICK j : j = Len(handled) + 1
    OBVIOUS
  <2>16. j \in 1 .. Len(handled') /\ handled'[j] = s
    BY <1>0, <2>12, <2>13, <2>14, <2>15, Appended
  <2> QED
    BY <1>3, <2>14, <2>16 DEF IsHandled
<1>6. ASSUME NEW k \in 1 .. n, Intact(k) PROVE IsHandled(k)'
  <2>1. IsHandled(k)
    BY <1>6 DEF IntactInv
  <2> QED
    BY <1>3, <2>1, HandledStays
<1> QED
  BY <1>1, <1>5, <1>6 DEF IntactInv

\* What no step leaves of what there is under way.
LEMMA GoneSame ==
    ASSUME InboundInv, UNCHANGED <<inbound, requests, dropped>>
    PROVE  Queue' = Queue /\ Gone' = Gone
  BY InboundSame DEF Gone

\* Every step keeps both.
LEMMA IntactStep ==
    ASSUME TypeOK, InboundInv, BufferInv, IntactInv, [Next]_vars
    PROVE  BufferInv' /\ IntactInv'
<1>1. CASE RxCallback
  <2>1. /\ Queue' \subseteq Queue /\ dropped' \cup Queue' = dropped \cup Queue
        /\ dropped \subseteq dropped' /\ UNCHANGED <<requests, encoded>>
    BY <1>1, ReceptionKeeps
  <2>2. Gone' = Gone
    BY <2>1 DEF Gone
  <2> QED
    BY <2>1, <2>2, BufferQuiet, IntactQuiet
<1>2. CASE Decode
  <2>1. PICK h : Taken(h) /\ DecodeOf(h)
    BY <1>2, DecodeTakes
  <2> QED
    BY <2>1, BufferDecode, IntactDecode
<1>3. CASE \E kind \in Kind : HostRequest(kind)
  <2>1. PICK kind \in Kind : HostRequest(kind)
    BY <1>3
  <2>2. (\E k : Wrote(k)) /\ encoded' = encoded
    BY <2>1, RequestKeeps
  <2>3. PICK k : Wrote(k)
    BY <2>2
  <2> QED
    BY <2>2, <2>3, BufferRequest, IntactRequest
<1>4. ASSUME UNCHANGED <<inbound, requests, dropped>> PROVE BufferInv' /\ IntactInv'
  <2>1. Queue' = Queue /\ Gone' = Gone /\ UNCHANGED <<requests, encoded, dropped>>
    BY <1>4, GoneSame DEF inbound
  <2> QED
    BY <2>1, BufferQuiet, IntactQuiet
<1>5. CASE PeerStart \/ PeerBlock \/ PeerRepeat \/ PeerResult
  BY <1>4, <1>5, PeerOK DEF history
<1>6. CASE HostOpen \/ HostEnds \/ HostPending \/ HostRead \/ HostPoll
  BY <1>4, <1>6, HostOK
<1>7. CASE UNCHANGED vars
  BY <1>4, <1>7 DEF vars, history
<1> QED
  BY <1>1, <1>2, <1>3, <1>5, <1>6, <1>7, Zenon DEF Next

\* IntactIsHandled follows.
LEMMA IntactImplies ==
    ASSUME TypeOK, IntactInv
    PROVE  IntactIsHandled
<1>1. /\ requests \in Seq(Kind) /\ Len(requests) <= MaxRequests /\ handled \in Seq(Record)
      /\ DOMAIN requests = 1 .. Len(requests) /\ DOMAIN handled = 1 .. Len(handled)
  BY DEF TypeOK
<1>2. ASSUME NEW k \in 1 .. Len(requests), Arrived(k), k = 1 \/ Delimiter(k - 1) \notin dropped
      PROVE  IsHandled(k)
  <2>1. ToSet(Bytes(k, requests[k])) = {<<k, i>> : i \in 1 .. Len(E(k))}
    <3>1. k \in Id /\ requests[k] \in Kind
      BY <1>1, ByteIs
    <3> QED
      BY <3>1, BytesAre DEF E
  <2>2. Gone \cap ToSet(Bytes(k, requests[k])) = {}
    BY <1>2, MissingIs DEF Arrived, Gone
  <2>3. Intact(k)
    BY <1>2, <2>1, <2>2 DEF Intact
  <2> QED
    BY <2>3 DEF IntactInv
<1> QED
  BY <1>1, <1>2 DEF IntactIsHandled, IsHandled

LinkInv ==
    /\ TypeOK /\ InboundInv
    /\ HandledInv /\ CrcInv
    /\ BufferInv /\ IntactInv
    /\ AnsweredInv /\ StreamInv

\* All parts hold in every state.
THEOREM LinkInvariant == Spec => []LinkInv
<1>1. Init => LinkInv
  <2> SUFFICES ASSUME Init PROVE LinkInv
    OBVIOUS
  <2> QED
    BY TypeInit, HandledInit, BufferInit, IntactInit, AnsweredInit, StreamInit DEF LinkInv
<1>2. LinkInv /\ [Next]_vars => LinkInv'
  BY TypeStep, HandledStep, IntactStep, AnsweredStep, StreamStep DEF LinkInv
<1> QED
  BY <1>1, <1>2, PTL DEF Spec

\* The type invariant of the link.
THEOREM TypeCorrect == Spec => []TypeOK
<1>1. LinkInv => TypeOK
  BY DEF LinkInv
<1> QED
  BY <1>1, LinkInvariant, PTL

\* usb_handler is given only frames the host sent, each once and in their order,
\* whatever chunks rx_callback had no room for.
THEOREM HandledFramesWereSent == Spec => []HandledWereSent
<1>1. LinkInv => HandledWereSent
  BY HandledImplies DEF LinkInv
<1> QED
  BY <1>1, LinkInvariant, PTL

\* A frame that arrives whole after the end of another is handled: decoder_task finds
\* its place again at a zero.
THEOREM IntactFramesAreHandled == Spec => []IntactIsHandled
<1>1. LinkInv => IntactIsHandled
  BY IntactImplies DEF LinkInv
<1> QED
  BY <1>1, LinkInvariant, PTL

\* The tool breaks on what it reads only if a frame to this process was lost or cut.
THEOREM BreaksOnlyForCause == Spec => []BreaksForCause
<1>1. LinkInv => BreaksForCause
  BY DEF LinkInv, StreamInv, BreaksForCause
<1> QED
  BY <1>1, LinkInvariant, PTL

\* When request returns well, what it asked for was handed to usb_handler.
THEOREM AnswersFollowHandling == Spec => AnsweredWasHandled
<1> DEFINE Answered == host.at = "REQUEST" /\ host'.at \in {"IDLE", "BACKUP"} =>
                          \E j \in DOMAIN handled : handled[j] = Sent(host.id)
<1>1. LinkInv /\ [Next]_vars => [Answered]_vars
  <2> SUFFICES ASSUME LinkInv, Next PROVE Answered
    OBVIOUS
  <2> QED
    BY AnsweredAction DEF LinkInv
<1> QED
  BY <1>1, LinkInvariant, PTL DEF Spec, AnsweredWasHandled
===============================================================================
