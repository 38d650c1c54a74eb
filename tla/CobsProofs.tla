------------------------------ MODULE CobsProofs ------------------------------
(***************************************************************************)
(* The framing of the USB link loses nothing: proofs about Cobs, for any   *)
(* length of a block and of a record.  The recursive functions are reasoned *)
(* about by the set of the bytes for which a fact holds: it is all of Nat, *)
(* for what is not would have a first element (AllOf).                     *)
(***************************************************************************)
EXTENDS Cobs, SequenceTheorems, WellFoundedInduction, TLAPS

(***************************************************************************)
(* Recursive functions.                                                    *)
(***************************************************************************)

\* Naturals are well-founded: what does not hold of all of them has a first exception.
LEMMA LeastOf ==
    ASSUME NEW T, T \subseteq Nat, T # {} PROVE \E x \in T : \A y \in T : x <= y
<1> DEFINE R == {s \in Nat \X Nat : s[1] < s[2]}
<1>1. IsWellFoundedOn(R, Nat)
  BY NatLessThanWellFounded DEF OpToRel
<1> HIDE DEF R
<1>2. PICK x \in T : \A y \in T : <<y, x>> \notin R
  BY <1>1, WFMin
<1>3. \A y \in T : ~(y < x)
  BY <1>2 DEF R
<1>4. \A y \in T : y \in Nat /\ x \in Nat
  OBVIOUS
<1> QED
  BY <1>3, <1>4

\* Induction, for a set of numbers.
LEMMA AllOf ==
    ASSUME NEW P \in SUBSET Nat, 0 \in P, \A m \in P : m + 1 \in P
    PROVE  P = Nat
<1> DEFINE T == Nat \ P
<1>1. T = {}
  <2> SUFFICES ASSUME T # {} PROVE FALSE
    OBVIOUS
  <2>1. PICK m \in T : \A y \in T : m <= y
    BY LeastOf
  <2>2. m \in Nat /\ m \notin P /\ m # 0
    BY <2>1
  <2>3. m - 1 \in Nat /\ m - 1 < m /\ (m - 1) + 1 = m
    BY <2>2
  <2>4. m - 1 \in P
    BY <2>1, <2>3
  <2> QED
    BY <2>2, <2>3, <2>4
<1> QED
  BY <1>1

\* What CobsEncode has after i bytes, by what it has before them.
StuffedBy(raw, g, i) ==
    IF i = 0 THEN [done |-> <<>>, block |-> <<>>] ELSE Stuffed(g[i - 1], raw[i])

\* What CobsEncode has after each byte follows from what it has before.
LEMMA StuffingIs ==
    ASSUME NEW raw \in Seq(Nat)
    PROVE  Stuffing(raw) = [i \in 0 .. Len(raw) |-> StuffedBy(raw, Stuffing(raw), i)]
<1> DEFINE Ok(m) == \E g : g = [i \in 0 .. m |-> StuffedBy(raw, g, i)]
           P == {m \in Nat : Ok(m)}
<1>1. Ok(0)
  <2> DEFINE g == [i \in {0} |-> [done |-> <<>>, block |-> <<>>]]
  <2>1. g = [i \in 0 .. 0 |-> StuffedBy(raw, g, i)]
    <3>1. 0 .. 0 = {0}
      OBVIOUS
    <3> QED
      BY <3>1 DEF StuffedBy
  <2> QED
    BY <2>1
<1>2. ASSUME NEW m \in Nat, Ok(m) PROVE Ok(m + 1)
  <2>1. PICK g : g = [i \in 0 .. m |-> StuffedBy(raw, g, i)]
    BY <1>2
  <2> DEFINE h == [i \in 0 .. m + 1 |-> IF i <= m THEN g[i] ELSE Stuffed(g[m], raw[m + 1])]
  <2>2. \A i \in 0 .. m + 1 : h[i] = StuffedBy(raw, h, i)
    <3> SUFFICES ASSUME NEW i \in 0 .. m + 1 PROVE h[i] = StuffedBy(raw, h, i)
      OBVIOUS
    <3>1. CASE i <= m
      <4>1. h[i] = g[i] /\ g[i] = StuffedBy(raw, g, i)
        BY <2>1, <3>1
      <4>2. i # 0 => h[i - 1] = g[i - 1]
        BY <3>1
      <4> QED
        BY <4>1, <4>2 DEF StuffedBy
    <3>2. CASE i = m + 1
      <4>1. h[i] = Stuffed(g[m], raw[m + 1]) /\ h[i - 1] = g[m] /\ i # 0 /\ i - 1 = m
        BY <3>2
      <4> QED
        BY <4>1, <3>2 DEF StuffedBy
    <3> QED
      BY <3>1, <3>2
  <2>3. h = [i \in 0 .. m + 1 |-> StuffedBy(raw, h, i)]
    <3> DEFINE k == [i \in 0 .. m + 1 |-> StuffedBy(raw, h, i)]
    <3>1. \A i \in 0 .. m + 1 : h[i] = k[i]
      BY <2>2
    <3> QED
      BY <3>1
  <2> QED
    BY <2>3
<1>3. P = Nat
  <2> HIDE DEF Ok
  <2>1. 0 \in P /\ \A m \in P : m + 1 \in P
    BY <1>1, <1>2
  <2> HIDE DEF P
  <2>2. P \in SUBSET Nat
    BY DEF P
  <2> QED
    BY <2>1, <2>2, AllOf
<1>4. Ok(Len(raw))
  <2> HIDE DEF Ok
  <2> QED
    BY <1>3
<1>5. Stuffing(raw) = CHOOSE g : g = [i \in 0 .. Len(raw) |-> StuffedBy(raw, g, i)]
  BY DEF Stuffing, StuffedBy
<1> QED
  BY <1>4, <1>5

\* What CobsDecode makes of the blocks from byte i on, by what it makes of those after.
UnstuffedBy(input, g, i) ==
    LET next == i + input[i]
        block == SubSeq(input, i + 1, next - 1)
        zero == IF input[i] # MaxCode /\ next <= Len(input) THEN <<0>> ELSE <<>>
    IN IF i = Len(input) + 1 THEN [ok |-> TRUE, output |-> <<>>]
       ELSE IF input[i] = 0 \/ next > Len(input) + 1 THEN [ok |-> FALSE, output |-> <<>>]
       ELSE [g[next] EXCEPT !.output = block \o zero \o @]

\* What CobsDecode makes of the blocks from a byte on follows from the later ones.
LEMMA UnstuffingIs ==
    ASSUME NEW input \in Seq(Nat)
    PROVE  Unstuffing(input)
             = [i \in 1 .. Len(input) + 1 |-> UnstuffedBy(input, Unstuffing(input), i)]
<1> DEFINE n == Len(input)
           Ok(m) == \E g : g = [i \in n + 1 - m .. n + 1 |-> UnstuffedBy(input, g, i)]
           P == {m \in Nat : m <= n => Ok(m)}
<1>0. n \in Nat
  OBVIOUS
<1>a. \A i \in 1 .. n : input[i] \in Nat
  OBVIOUS
<1>1. Ok(0)
  <2> DEFINE g == [i \in {n + 1} |-> [ok |-> TRUE, output |-> <<>>]]
  <2>1. n + 1 - 0 .. n + 1 = {n + 1}
    BY <1>0
  <2>2. g = [i \in n + 1 - 0 .. n + 1 |-> UnstuffedBy(input, g, i)]
    BY <2>1 DEF UnstuffedBy
  <2> QED
    BY <2>2
<1>2. ASSUME NEW m \in Nat, m + 1 <= n, Ok(m) PROVE Ok(m + 1)
  <2>1. PICK g : g = [i \in n + 1 - m .. n + 1 |-> UnstuffedBy(input, g, i)]
    BY <1>2
  <2> DEFINE f == n - m
             h == [i \in n + 1 - (m + 1) .. n + 1 |-> IF i = f THEN UnstuffedBy(input, g, f) ELSE g[i]]
  <2>0. f \in 1 .. n /\ n + 1 - (m + 1) = f /\ n + 1 - m = f + 1
    BY <1>0, <1>2
  <2> HIDE DEF n, f
  <2>2. \A i \in f .. n + 1 : h[i] = UnstuffedBy(input, h, i)
    <3> SUFFICES ASSUME NEW i \in f .. n + 1 PROVE h[i] = UnstuffedBy(input, h, i)
      OBVIOUS
    <3>1. h[i] = UnstuffedBy(input, g, i)
      <4>1. h[i] = IF i = f THEN UnstuffedBy(input, g, f) ELSE g[i]
        BY <2>0
      <4>2. i # f => i \in f + 1 .. n + 1
        BY <1>0, <2>0
      <4>3. i # f => g[i] = UnstuffedBy(input, g, i)
        BY <4>2, <2>0, <2>1
      <4> QED
        BY <4>1, <4>3
    <3>2. CASE i = n + 1
      BY <3>1, <3>2 DEF UnstuffedBy, n
    <3>3. CASE i # n + 1
      <4> DEFINE next == i + input[i]
      <4>1. input[i] \in Nat
        BY SMTT(30), <1>0, <1>a, <2>0, <3>3
      <4>2. CASE input[i] = 0 \/ next > n + 1
        BY <3>1, <4>2 DEF UnstuffedBy, n
      <4>3. CASE ~(input[i] = 0 \/ next > n + 1)
        <5>1. next \in f + 1 .. n + 1 /\ next # f
          BY <4>1, <4>3, <2>0, <1>0
        <5>2. h[next] = g[next]
          BY <5>1, <2>0, <1>0
        <5> HIDE DEF h
        <5> QED
          BY <3>1, <5>2 DEF UnstuffedBy
      <4> QED
        BY <4>2, <4>3
    <3> QED
      BY <3>2, <3>3
  <2>3. h = [i \in n + 1 - (m + 1) .. n + 1 |-> UnstuffedBy(input, h, i)]
    <3> DEFINE k == [i \in n + 1 - (m + 1) .. n + 1 |-> UnstuffedBy(input, h, i)]
    <3>1. \A i \in n + 1 - (m + 1) .. n + 1 : h[i] = k[i]
      BY <2>2, <2>0
    <3> QED
      BY <3>1
  <2> QED
    BY <2>3
<1>3. P = Nat
  <2> HIDE DEF Ok, n
  <2>1. 0 \in P /\ \A m \in P : m + 1 \in P
    BY <1>0, <1>1, <1>2
  <2> HIDE DEF P
  <2>2. P \in SUBSET Nat
    BY DEF P
  <2> QED
    BY <2>1, <2>2, AllOf
<1>4. Ok(n)
  <2> HIDE DEF Ok
  <2> QED
    BY <1>3
<1>5. n + 1 - n = 1
  BY <1>0
<1>6. \E g : g = [i \in 1 .. n + 1 |-> UnstuffedBy(input, g, i)]
  BY <1>4, <1>5
<1>7. Unstuffing(input) = CHOOSE g : g = [i \in 1 .. n + 1 |-> UnstuffedBy(input, g, i)]
  BY DEF Unstuffing, UnstuffedBy
<1> QED
  BY <1>6, <1>7
-----------------------------------------------------------------------------
(***************************************************************************)
(* The framing.                                                            *)
(***************************************************************************)

\* A block after what is closed already.
LEMMA Join ==
    ASSUME NEW d \in Seq(Nat), NEW c \in Nat, NEW b \in Seq(Nat)
    PROVE  LET s == d \o <<c>> \o b IN
           /\ s \in Seq(Nat) /\ Len(s) = Len(d) + 1 + Len(b)
           /\ \A j \in 1 .. Len(d) : s[j] = d[j]
           /\ s[Len(d) + 1] = c
           /\ \A j \in 1 .. Len(b) : s[Len(d) + 1 + j] = b[j]
<1>1. d \o <<c>> \in Seq(Nat) /\ Len(d \o <<c>>) = Len(d) + 1
  BY ConcatProperties
<1>2. /\ \A j \in 1 .. Len(d) : (d \o <<c>>)[j] = d[j]
      /\ (d \o <<c>>)[Len(d) + 1] = c
  BY ConcatProperties
<1> DEFINE e == d \o <<c>>
<1> HIDE DEF e
<1>3. /\ e \o b \in Seq(Nat) /\ Len(e \o b) = Len(e) + Len(b)
      /\ \A j \in 1 .. Len(e) + Len(b) : (e \o b)[j] = IF j <= Len(e) THEN e[j] ELSE b[j - Len(e)]
  BY <1>1, ConcatProperties DEF e
<1>4. Len(d) \in Nat /\ Len(b) \in Nat /\ Len(e) = Len(d) + 1
  BY <1>1 DEF e
<1>5. /\ \A j \in 1 .. Len(d) : (e \o b)[j] = e[j]
      /\ (e \o b)[Len(d) + 1] = e[Len(d) + 1]
  BY <1>3, <1>4
<1>6. ASSUME NEW j \in 1 .. Len(b) PROVE (e \o b)[Len(d) + 1 + j] = b[j]
  <2>1. Len(e) + j \in 1 .. Len(e) + Len(b) /\ ~(Len(e) + j <= Len(e)) /\ (Len(e) + j) - Len(e) = j
    BY <1>4
  <2>2. (e \o b)[Len(e) + j] = b[j]
    BY <1>3, <2>1
  <2> QED
    BY <1>4, <2>2
<1> QED
  BY <1>2, <1>3, <1>4, <1>5, <1>6 DEF e

\* A block without zeros keeps what is closed free of them.
LEMMA JoinNonzero ==
    ASSUME NEW d \in Seq(Nat), NEW c \in Nat, NEW b \in Seq(Nat), c # 0,
           \A j \in 1 .. Len(d) : d[j] # 0, \A j \in 1 .. Len(b) : b[j] # 0
    PROVE  \A j \in 1 .. Len(d \o <<c>> \o b) : (d \o <<c>> \o b)[j] # 0
<1> DEFINE e == d \o <<c>> \o b
<1>1. /\ e \in Seq(Nat) /\ Len(e) = Len(d) + 1 + Len(b)
      /\ \A k \in 1 .. Len(d) : e[k] = d[k]
      /\ e[Len(d) + 1] = c
      /\ \A k \in 1 .. Len(b) : e[Len(d) + 1 + k] = b[k]
  BY Join
<1> HIDE DEF e
<1>2. SUFFICES ASSUME NEW j \in 1 .. Len(e) PROVE e[j] # 0
  BY DEF e
<1> DEFINE k == j - (Len(d) + 1)
<1>3. j \in 1 .. Len(d) \/ j = Len(d) + 1 \/ (k \in 1 .. Len(b) /\ Len(d) + 1 + k = j)
  <2>1. Len(d) \in Nat /\ Len(b) \in Nat /\ j \in 1 .. Len(d) + 1 + Len(b)
    BY <1>1
  <2> QED
    BY <2>1
<1> HIDE DEF k
<1> QED
  BY <1>1, <1>3

\* f full blocks fit in x bytes.
FullBlocks(f, x) == f \in Nat /\ f * (MaxCode - 1) <= x

\* After i bytes of raw: block is the last of them, and done has the others.
Stuffs(raw, i, done, block) ==
    /\ done \in Seq(Nat) /\ \A j \in 1 .. Len(done) : done[j] # 0
    /\ block \in Seq(Nat) /\ Len(block) <= i /\ Len(block) + 1 < MaxCode
    /\ \A j \in 1 .. Len(block) : block[j] # 0 /\ block[j] = raw[(i - Len(block)) + j]
    /\ \E f \in Nat : FullBlocks(f, i - Len(block)) /\ Len(done) = (i - Len(block)) + f
StuffedUpTo(raw, i, acc) ==
    /\ acc = [done |-> acc.done, block |-> acc.block]
    /\ Stuffs(raw, i, acc.done, acc.block)

\* The step is one of three.
LEMMA StuffedCases ==
    ASSUME NEW acc, NEW byte \in Nat,
           acc = [done |-> acc.done, block |-> acc.block], acc.block \in Seq(Nat)
    PROVE  /\ byte = 0 => Stuffed(acc, byte)
                = [done |-> acc.done \o <<Len(acc.block) + 1>> \o acc.block, block |-> <<>>]
           /\ byte # 0 /\ Len(acc.block) + 2 = MaxCode => Stuffed(acc, byte)
                = [done |-> acc.done \o <<Len(acc.block) + 2>> \o Append(acc.block, byte), block |-> <<>>]
           /\ byte # 0 /\ Len(acc.block) + 2 # MaxCode => Stuffed(acc, byte)
                = [done |-> acc.done, block |-> Append(acc.block, byte)]
<1> DEFINE b == acc.block
           a == Append(b, byte)
<1>1. Len(b) \in Nat /\ Len(a) = Len(b) + 1 /\ Len(a) + 1 = Len(b) + 2
  BY AppendProperties
<1>2. byte = 0 => Stuffed(acc, byte) = [done |-> acc.done \o <<Len(b) + 1>> \o b, block |-> <<>>]
  BY DEF Stuffed
<1>3. byte # 0 /\ Len(a) + 1 = MaxCode
        => Stuffed(acc, byte) = [done |-> acc.done \o <<Len(a) + 1>> \o a, block |-> <<>>]
  BY DEF Stuffed
<1>4. byte # 0 /\ Len(a) + 1 # MaxCode => Stuffed(acc, byte) = [acc EXCEPT !.block = a]
  BY DEF Stuffed
<1>5. [acc EXCEPT !.block = a] = [done |-> acc.done, block |-> a]
  <2> HIDE DEF a
  <2> QED
    OBVIOUS
<1> QED
  BY <1>1, <1>2, <1>3, <1>4, <1>5

\* A block is closed.
LEMMA StuffsClosed ==
    ASSUME NEW raw, NEW i \in Nat, NEW d \in Seq(Nat), NEW b \in Seq(Nat), NEW f \in Nat,
           \A j \in 1 .. Len(d) : d[j] # 0, \A j \in 1 .. Len(b) : b[j] # 0,
           FullBlocks(f, i), Len(d) + 1 + Len(b) = i + f
    PROVE  Stuffs(raw, i, d \o <<Len(b) + 1>> \o b, <<>>)
<1> DEFINE e == d \o <<Len(b) + 1>> \o b
<1>1. Len(b) \in Nat /\ Len(b) + 1 \in Nat /\ Len(b) + 1 # 0
  OBVIOUS
<1>2. e \in Seq(Nat) /\ Len(e) = Len(d) + 1 + Len(b)
  BY <1>1, Join
<1>3. \A j \in 1 .. Len(e) : e[j] # 0
  BY <1>1, JoinNonzero
<1> HIDE DEF e
<1> DEFINE z == <<>>
<1>4. Len(z) = 0 /\ z \in Seq(Nat) /\ 0 + 1 < MaxCode /\ i - 0 = i /\ 0 <= i
  BY CobsAssumption
<1> HIDE DEF z
<1>5. FullBlocks(f, i - Len(z)) /\ Len(e) = (i - Len(z)) + f
  BY <1>2, <1>4
<1>6. \E g \in Nat : FullBlocks(g, i - Len(z)) /\ Len(e) = (i - Len(z)) + g
  BY <1>5
<1>7. \A j \in 1 .. Len(z) : z[j] # 0 /\ z[j] = raw[(i - Len(z)) + j]
  BY <1>4
<1>8. Stuffs(raw, i, e, z)
  BY <1>2, <1>3, <1>4, <1>6, <1>7 DEF Stuffs
<1> QED
  BY <1>8 DEF e, z

\* A zero closes the block.
LEMMA StuffsZero ==
    ASSUME NEW raw, NEW i \in Nat, NEW d, NEW b, Stuffs(raw, i, d, b)
    PROVE  Stuffs(raw, i + 1, d \o <<Len(b) + 1>> \o b, <<>>)
<1>1. d \in Seq(Nat) /\ b \in Seq(Nat) /\ Len(b) \in Nat /\ Len(b) <= i /\ MaxCode \in Nat
  BY CobsAssumption DEF Stuffs
<1>2. (\A j \in 1 .. Len(d) : d[j] # 0) /\ (\A j \in 1 .. Len(b) : b[j] # 0)
  BY DEF Stuffs
<1>3. PICK f \in Nat : FullBlocks(f, i - Len(b)) /\ Len(d) = (i - Len(b)) + f
  BY DEF Stuffs
<1>4. Len(d) + 1 + Len(b) = (i + 1) + f
  BY <1>1, <1>3
<1>5. FullBlocks(f, i + 1)
  <2> DEFINE p == f * (MaxCode - 1)
  <2>1. p <= i - Len(b) /\ p \in Int
    BY <1>1, <1>3 DEF FullBlocks
  <2> HIDE DEF p
  <2>2. p <= i + 1
    BY <1>1, <2>1
  <2> QED
    BY <2>2 DEF p, FullBlocks
<1> DEFINE m == i + 1
<1>6. m \in Nat
  OBVIOUS
<1>7. FullBlocks(f, m) /\ Len(d) + 1 + Len(b) = m + f
  BY <1>4, <1>5
<1> HIDE DEF m
<1>8. Stuffs(raw, m, d \o <<Len(b) + 1>> \o b, <<>>)
  BY <1>1, <1>2, <1>6, <1>7, StuffsClosed
<1> QED
  BY <1>8 DEF m

\* A byte that fills the block closes it.
LEMMA StuffsFull ==
    ASSUME NEW raw, NEW i \in Nat, NEW d, NEW b, Stuffs(raw, i, d, b),
           NEW byte \in Nat \ {0}, Len(b) + 2 = MaxCode
    PROVE  Stuffs(raw, i + 1, d \o <<Len(b) + 2>> \o Append(b, byte), <<>>)
<1>1. d \in Seq(Nat) /\ b \in Seq(Nat) /\ Len(b) \in Nat /\ Len(b) <= i /\ MaxCode \in Nat
  BY CobsAssumption DEF Stuffs
<1>2. (\A j \in 1 .. Len(d) : d[j] # 0) /\ (\A j \in 1 .. Len(b) : b[j] # 0)
  BY DEF Stuffs
<1>3. PICK f \in Nat : FullBlocks(f, i - Len(b)) /\ Len(d) = (i - Len(b)) + f
  BY DEF Stuffs
<1> DEFINE a == Append(b, byte)
<1>4. /\ a \in Seq(Nat) /\ Len(a) = Len(b) + 1
      /\ (\A j \in 1 .. Len(b) : a[j] = b[j]) /\ a[Len(b) + 1] = byte
  BY <1>1, AppendProperties
<1> HIDE DEF a
<1>5. \A j \in 1 .. Len(a) : a[j] # 0
  <2> SUFFICES ASSUME NEW j \in 1 .. Len(a) PROVE a[j] # 0
    OBVIOUS
  <2>1. j \in 1 .. Len(b) \/ j = Len(b) + 1
    BY <1>1, <1>4
  <2> QED
    BY <2>1, <1>2, <1>4
<1>6. Len(d) + 1 + Len(a) = (i + 1) + (f + 1) /\ f + 1 \in Nat /\ Len(a) + 1 = Len(b) + 2
  BY <1>1, <1>3, <1>4
<1>7. FullBlocks(f + 1, i + 1)
  <2> DEFINE p == f * (MaxCode - 1)
  <2>1. p <= i - Len(b) /\ p \in Int
    BY <1>1, <1>3 DEF FullBlocks
  <2>2. (f + 1) * (MaxCode - 1) = p + (MaxCode - 1)
    BY <1>1, <1>3
  <2> HIDE DEF p
  <2>3. p + (MaxCode - 1) <= i + 1
    BY <1>1, <2>1
  <2> QED
    BY <2>2, <2>3 DEF FullBlocks
<1> DEFINE m == i + 1
           g == f + 1
<1>8. m \in Nat /\ g \in Nat /\ FullBlocks(g, m) /\ Len(d) + 1 + Len(a) = m + g
  BY <1>6, <1>7
<1> HIDE DEF m, g
<1>9. Stuffs(raw, m, d \o <<Len(a) + 1>> \o a, <<>>)
  BY <1>1, <1>2, <1>4, <1>5, <1>8, StuffsClosed
<1> QED
  BY <1>6, <1>9 DEF a, m

\* It stays open.
LEMMA StuffsOpen ==
    ASSUME NEW raw, NEW i \in Nat, NEW d, NEW b, Stuffs(raw, i, d, b),
           raw[i + 1] \in Nat \ {0}, Len(b) + 2 # MaxCode
    PROVE  Stuffs(raw, i + 1, d, Append(b, raw[i + 1]))
<1>1. /\ d \in Seq(Nat) /\ b \in Seq(Nat) /\ Len(b) \in Nat /\ Len(b) <= i /\ MaxCode \in Nat
      /\ Len(b) + 1 < MaxCode
  BY CobsAssumption DEF Stuffs
<1>2. /\ \A j \in 1 .. Len(d) : d[j] # 0
      /\ \A j \in 1 .. Len(b) : b[j] # 0 /\ b[j] = raw[(i - Len(b)) + j]
  BY DEF Stuffs
<1>3. \E f \in Nat : FullBlocks(f, i - Len(b)) /\ Len(d) = (i - Len(b)) + f
  BY DEF Stuffs
<1> DEFINE a == Append(b, raw[i + 1])
<1>4. /\ a \in Seq(Nat) /\ Len(a) = Len(b) + 1
      /\ (\A j \in 1 .. Len(b) : a[j] = b[j]) /\ a[Len(b) + 1] = raw[i + 1]
  BY <1>1, AppendProperties
<1> HIDE DEF a
<1>5. (i + 1) - Len(a) = i - Len(b) /\ (i - Len(b)) + (Len(b) + 1) = i + 1
  BY <1>1, <1>4
<1>6. ASSUME NEW j \in 1 .. Len(a) PROVE a[j] # 0 /\ a[j] = raw[(i - Len(b)) + j]
  <2>1. j \in 1 .. Len(b) \/ j = Len(b) + 1
    BY <1>1, <1>4
  <2>2. CASE j \in 1 .. Len(b)
    BY <2>2, <1>2, <1>4
  <2>3. CASE j = Len(b) + 1
    BY <2>3, <1>4, <1>5
  <2> QED
    BY <2>1, <2>2, <2>3
<1>7. Len(a) <= i + 1 /\ Len(a) + 1 < MaxCode
  BY <1>1, <1>4
<1>8. Stuffs(raw, i + 1, d, a)
  BY <1>1, <1>2, <1>3, <1>4, <1>5, <1>6, <1>7 DEF Stuffs
<1> QED
  BY <1>8 DEF a

\* The step keeps the shape of what is closed and what is open.
LEMMA StuffedKeeps ==
    ASSUME NEW raw \in Seq(Nat), NEW i \in Nat, i + 1 \in 1 .. Len(raw),
           NEW acc, StuffedUpTo(raw, i, acc)
    PROVE  StuffedUpTo(raw, i + 1, Stuffed(acc, raw[i + 1]))
<1> DEFINE byte == raw[i + 1]
           b == acc.block
           d == acc.done
           next == Stuffed(acc, byte)
<1>1. byte \in Nat
  OBVIOUS
<1>2. Stuffs(raw, i, d, b) /\ acc = [done |-> d, block |-> b] /\ b \in Seq(Nat)
  BY DEF StuffedUpTo, Stuffs
<1>3. /\ byte = 0 => next = [done |-> d \o <<Len(b) + 1>> \o b, block |-> <<>>]
      /\ byte # 0 /\ Len(b) + 2 = MaxCode
           => next = [done |-> d \o <<Len(b) + 2>> \o Append(b, byte), block |-> <<>>]
      /\ byte # 0 /\ Len(b) + 2 # MaxCode => next = [done |-> d, block |-> Append(b, byte)]
  BY <1>1, <1>2, StuffedCases
<1> HIDE DEF b, d, next
<1>4. CASE byte = 0
  <2> DEFINE e == d \o <<Len(b) + 1>> \o b
  <2>1. Stuffs(raw, i + 1, e, <<>>)
    BY <1>2, StuffsZero
  <2>2. next = [done |-> e, block |-> <<>>]
    BY <1>3, <1>4
  <2> HIDE DEF e
  <2>3. StuffedUpTo(raw, i + 1, next)
    BY <2>1, <2>2 DEF StuffedUpTo
  <2> QED
    BY <2>3 DEF next
<1>5. CASE byte # 0 /\ Len(b) + 2 = MaxCode
  <2> DEFINE e == d \o <<Len(b) + 2>> \o Append(b, byte)
  <2>1. Stuffs(raw, i + 1, e, <<>>)
    BY <1>1, <1>2, <1>5, StuffsFull
  <2>2. next = [done |-> e, block |-> <<>>]
    BY <1>3, <1>5
  <2> HIDE DEF e
  <2>3. StuffedUpTo(raw, i + 1, next)
    BY <2>1, <2>2 DEF StuffedUpTo
  <2> QED
    BY <2>3 DEF next
<1>6. CASE byte # 0 /\ Len(b) + 2 # MaxCode
  <2> DEFINE a == Append(b, byte)
  <2>1. Stuffs(raw, i + 1, d, a)
    BY <1>1, <1>2, <1>6, StuffsOpen
  <2>2. next = [done |-> d, block |-> a]
    BY <1>3, <1>6
  <2> HIDE DEF a
  <2>3. StuffedUpTo(raw, i + 1, next)
    BY <2>1, <2>2 DEF StuffedUpTo
  <2> QED
    BY <2>3 DEF next
<1> QED
  BY <1>4, <1>5, <1>6

\* What CobsEncode has, at each byte of what it encodes.
LEMMA StuffingUpTo ==
    ASSUME NEW raw \in Seq(Nat)
    PROVE  \A i \in 0 .. Len(raw) : StuffedUpTo(raw, i, Stuffing(raw)[i])
<1> DEFINE n == Len(raw)
           g == Stuffing(raw)
           P == {i \in Nat : i <= n => StuffedUpTo(raw, i, g[i])}
<1>0. n \in Nat /\ \A i \in 0 .. n : g[i] = StuffedBy(raw, g, i)
  <2> HIDE DEF g
  <2>1. g = [i \in 0 .. n |-> StuffedBy(raw, g, i)]
    BY StuffingIs DEF g
  <2> QED
    BY <2>1
<1> HIDE DEF g
<1>1. StuffedUpTo(raw, 0, g[0])
  <2> DEFINE z == [done |-> <<>>, block |-> <<>>]
  <2>1. g[0] = z
    BY <1>0 DEF StuffedBy
  <2> DEFINE e == <<>>
  <2>2. Len(e) = 0 /\ e \in Seq(Nat) /\ 0 + 1 < MaxCode /\ 0 - 0 = 0 /\ 0 + 0 = 0
    BY CobsAssumption
  <2>3. FullBlocks(0, 0)
    BY CobsAssumption DEF FullBlocks
  <2> HIDE DEF e
  <2>4. Stuffs(raw, 0, e, e)
    BY <2>2, <2>3 DEF Stuffs
  <2>5. StuffedUpTo(raw, 0, z)
    BY <2>4 DEF StuffedUpTo, e
  <2> QED
    BY <2>1, <2>5
<1>2. ASSUME NEW i \in Nat, i + 1 <= n, StuffedUpTo(raw, i, g[i])
      PROVE  StuffedUpTo(raw, i + 1, g[i + 1])
  <2>1. i + 1 \in 1 .. n /\ i + 1 \in 0 .. n /\ (i + 1) - 1 = i /\ i + 1 # 0
    BY <1>0, <1>2
  <2>2. g[i + 1] = Stuffed(g[i], raw[i + 1])
    BY <1>0, <2>1 DEF StuffedBy
  <2> QED
    BY <1>2, <2>1, <2>2, StuffedKeeps
<1>3. P = Nat
  <2>1. 0 \in P /\ \A m \in P : m + 1 \in P
    BY <1>0, <1>1, <1>2
  <2> HIDE DEF P
  <2>2. P \in SUBSET Nat
    BY DEF P
  <2> QED
    BY <2>1, <2>2, AllOf
<1> QED
  BY <1>0, <1>3 DEF g

\* The whole encoding is longer than what is closed at any byte, and begins with it.
Begins(d, e) == Len(d) < Len(e) /\ \A j \in 1 .. Len(d) : e[j] = d[j]

Whole(raw) ==
    LET all == Stuffing(raw)[Len(raw)] IN all.done \o <<Len(all.block) + 1>> \o all.block

\* The parts of the shape, with the types arithmetic needs.
LEMMA StuffsFacts ==
    ASSUME NEW raw, NEW i \in Nat, NEW d, NEW b, Stuffs(raw, i, d, b)
    PROVE  /\ d \in Seq(Nat) /\ b \in Seq(Nat) /\ Len(d) \in Nat /\ Len(b) \in Nat /\ MaxCode \in Nat
           /\ Len(b) <= i /\ Len(b) + 1 < MaxCode
           /\ (\A j \in 1 .. Len(d) : d[j] # 0) /\ (\A j \in 1 .. Len(b) : b[j] # 0)
           /\ \A j \in 1 .. Len(b) : b[j] = raw[(i - Len(b)) + j]
<1>1. /\ d \in Seq(Nat) /\ b \in Seq(Nat) /\ Len(b) <= i /\ Len(b) + 1 < MaxCode
      /\ (\A j \in 1 .. Len(d) : d[j] # 0)
      /\ \A j \in 1 .. Len(b) : b[j] # 0 /\ b[j] = raw[(i - Len(b)) + j]
  BY DEF Stuffs
<1> QED
  BY <1>1, CobsAssumption

\* A step of CobsEncode, by its three cases.
LEMMA StuffingStep ==
    ASSUME NEW raw \in Seq(Nat), NEW i \in Nat, i + 1 \in 1 .. Len(raw)
    PROVE  LET d == Stuffing(raw)[i].done
               b == Stuffing(raw)[i].block
           IN
           /\ raw[i + 1] \in Nat /\ Stuffs(raw, i, d, b)
           /\ raw[i + 1] = 0 => Stuffing(raw)[i + 1]
                = [done |-> d \o <<Len(b) + 1>> \o b, block |-> <<>>]
           /\ raw[i + 1] # 0 /\ Len(b) + 2 = MaxCode => Stuffing(raw)[i + 1]
                = [done |-> d \o <<Len(b) + 2>> \o Append(b, raw[i + 1]), block |-> <<>>]
           /\ raw[i + 1] # 0 /\ Len(b) + 2 # MaxCode => Stuffing(raw)[i + 1]
                = [done |-> d, block |-> Append(b, raw[i + 1])]
<1> DEFINE g == Stuffing(raw)
           n == Len(raw)
           byte == raw[i + 1]
           acc == g[i]
           d == acc.done
           b == acc.block
<1>1. i \in 0 .. n /\ i + 1 \in 0 .. n /\ (i + 1) - 1 = i /\ i + 1 # 0 /\ byte \in Nat
  OBVIOUS
<1>2. g[i + 1] = Stuffed(acc, byte)
  <2> HIDE DEF g, byte
  <2>1. g = [k \in 0 .. n |-> StuffedBy(raw, g, k)]
    BY StuffingIs DEF g
  <2>2. g[i + 1] = StuffedBy(raw, g, i + 1)
    BY <1>1, <2>1
  <2> QED
    BY <1>1, <2>2 DEF StuffedBy, byte
<1>3. acc.done = d /\ acc.block = b /\ acc = [done |-> acc.done, block |-> acc.block]
  BY <1>1, StuffingUpTo DEF StuffedUpTo
<1>4. Stuffs(raw, i, d, b)
  BY <1>1, StuffingUpTo DEF StuffedUpTo
<1>5. b \in Seq(Nat)
  BY <1>4 DEF Stuffs
<1> HIDE DEF acc, byte, g, d, b
<1>6. /\ byte = 0 => Stuffed(acc, byte)
            = [done |-> acc.done \o <<Len(acc.block) + 1>> \o acc.block, block |-> <<>>]
      /\ byte # 0 /\ Len(acc.block) + 2 = MaxCode => Stuffed(acc, byte)
            = [done |-> acc.done \o <<Len(acc.block) + 2>> \o Append(acc.block, byte), block |-> <<>>]
      /\ byte # 0 /\ Len(acc.block) + 2 # MaxCode => Stuffed(acc, byte)
            = [done |-> acc.done, block |-> Append(acc.block, byte)]
  BY <1>1, <1>3, <1>5, StuffedCases
<1>7. /\ byte = 0 => g[i + 1] = [done |-> d \o <<Len(b) + 1>> \o b, block |-> <<>>]
      /\ byte # 0 /\ Len(b) + 2 = MaxCode
           => g[i + 1] = [done |-> d \o <<Len(b) + 2>> \o Append(b, byte), block |-> <<>>]
      /\ byte # 0 /\ Len(b) + 2 # MaxCode => g[i + 1] = [done |-> d, block |-> Append(b, byte)]
  BY <1>2, <1>3, <1>6
<1> QED
  BY <1>1, <1>4, <1>7 DEF byte, g, acc, d, b

\* What begins with more begins with less.
LEMMA StuffingGrows ==
    ASSUME NEW raw \in Seq(Nat), NEW i \in Nat, i + 1 \in 1 .. Len(raw),
           NEW e, Begins(Stuffing(raw)[i + 1].done, e), Len(e) \in Nat
    PROVE  Begins(Stuffing(raw)[i].done, e)
<1> DEFINE d == Stuffing(raw)[i].done
           b == Stuffing(raw)[i].block
<1>1. Stuffs(raw, i, d, b)
  BY StuffingStep
<1>2. d \in Seq(Nat) /\ b \in Seq(Nat) /\ Len(d) \in Nat /\ Len(b) \in Nat /\ MaxCode \in Nat
  <2> HIDE DEF d, b
  <2> QED
    BY <1>1, StuffsFacts
<1> DEFINE next == Stuffing(raw)[i + 1].done
           byte == raw[i + 1]
<1>3. \/ next = d
      \/ next = d \o <<Len(b) + 1>> \o b
      \/ next = d \o <<Len(b) + 2>> \o Append(b, byte)
  <2> DEFINE g == Stuffing(raw)[i + 1]
  <2>1. \/ g = [done |-> d \o <<Len(b) + 1>> \o b, block |-> <<>>]
        \/ g = [done |-> d \o <<Len(b) + 2>> \o Append(b, byte), block |-> <<>>]
        \/ g = [done |-> d, block |-> Append(b, byte)]
    <3>1. /\ byte = 0 => g = [done |-> d \o <<Len(b) + 1>> \o b, block |-> <<>>]
          /\ byte # 0 /\ Len(b) + 2 = MaxCode
                => g = [done |-> d \o <<Len(b) + 2>> \o Append(b, byte), block |-> <<>>]
          /\ byte # 0 /\ Len(b) + 2 # MaxCode => g = [done |-> d, block |-> Append(b, byte)]
      BY StuffingStep
    <3> HIDE DEF g, byte, d, b
    <3> QED
      BY <3>1, Zenon
  <2> HIDE DEF g, byte, d, b
  <2>2. \A x, y : g = [done |-> x, block |-> y] => g.done = x
    OBVIOUS
  <2>3. \/ g.done = d
        \/ g.done = d \o <<Len(b) + 1>> \o b
        \/ g.done = d \o <<Len(b) + 2>> \o Append(b, byte)
    BY <2>1, <2>2, Zenon
  <2> QED
    BY <2>3 DEF g
<1>4. byte \in Nat
  BY <1>1, StuffingStep
<1>5. Append(b, byte) \in Seq(Nat)
  BY <1>2, <1>4
<1> HIDE DEF d, b
<1>6. \A c \in Nat, t \in Seq(Nat) :
        next = d \o <<c>> \o t
            => Len(d) < Len(next) /\ Len(next) \in Nat /\ \A j \in 1 .. Len(d) : next[j] = d[j]
  <2> SUFFICES ASSUME NEW c \in Nat, NEW t \in Seq(Nat)
               PROVE  LET s == d \o <<c>> \o t IN
                      Len(d) < Len(s) /\ Len(s) \in Nat /\ \A j \in 1 .. Len(d) : s[j] = d[j]
    OBVIOUS
  <2> DEFINE s == d \o <<c>> \o t
  <2>1. s \in Seq(Nat) /\ Len(s) = Len(d) + 1 + Len(t) /\ \A j \in 1 .. Len(d) : s[j] = d[j]
    BY <1>2, Join
  <2> HIDE DEF s
  <2>2. Len(d) < Len(s) /\ Len(s) \in Nat
    BY <2>1, <1>2
  <2> QED
    BY <2>1, <2>2 DEF s
<1> HIDE DEF next, byte
<1>7. Len(d) <= Len(next) /\ Len(next) \in Nat /\ \A j \in 1 .. Len(d) : next[j] = d[j]
  <2>1. Len(b) + 1 \in Nat /\ Len(b) + 2 \in Nat
    BY <1>2
  <2>2. CASE next = d
    BY <2>2, <1>2
  <2>3. CASE next = d \o <<Len(b) + 1>> \o b
    BY <2>1, <2>3, <1>2, <1>6
  <2>4. CASE next = d \o <<Len(b) + 2>> \o Append(b, byte)
    BY <2>1, <2>4, <1>2, <1>5, <1>6
  <2> QED
    BY <1>3, <2>2, <2>3, <2>4
<1>8. Len(next) < Len(e) /\ \A j \in 1 .. Len(next) : e[j] = next[j]
  BY DEF Begins, next
<1>9. Len(d) < Len(e) /\ \A j \in 1 .. Len(d) : e[j] = d[j]
  BY <1>2, <1>7, <1>8
<1> QED
  BY <1>9 DEF Begins, d

\* The encoding has no zero, its length is that of raw and a byte for each full block
\* and the last one, and it begins with what is closed after any byte.
LEMMA WholeIs ==
    ASSUME NEW raw \in Seq(Nat)
    PROVE  /\ Whole(raw) \in Seq(Nat) /\ Whole(raw) # <<>>
           /\ \A j \in 1 .. Len(Whole(raw)) : Whole(raw)[j] # 0
           /\ \E f \in Nat : FullBlocks(f, Len(raw)) /\ Len(Whole(raw)) = Len(raw) + f + 1
           /\ \A i \in 0 .. Len(raw) : Begins(Stuffing(raw)[i].done, Whole(raw))
<1> DEFINE n == Len(raw)
           e == Whole(raw)
<1>1. n \in Nat /\ n \in 0 .. n
  OBVIOUS
<1>2. PICK d, b : Stuffing(raw)[n] = [done |-> d, block |-> b] /\ Stuffs(raw, n, d, b)
  <2>1. StuffedUpTo(raw, n, Stuffing(raw)[n])
    BY <1>1, StuffingUpTo
  <2> QED
    BY <2>1 DEF StuffedUpTo
<1>3. /\ d \in Seq(Nat) /\ b \in Seq(Nat) /\ Len(d) \in Nat /\ Len(b) \in Nat /\ MaxCode \in Nat
      /\ Len(b) <= n
      /\ (\A j \in 1 .. Len(d) : d[j] # 0) /\ (\A j \in 1 .. Len(b) : b[j] # 0)
  BY <1>1, <1>2, StuffsFacts
<1>4. e = d \o <<Len(b) + 1>> \o b
  BY <1>2 DEF Whole
<1>5. Len(b) + 1 \in Nat /\ Len(b) + 1 # 0
  BY <1>3
<1>6. e \in Seq(Nat) /\ Len(e) = Len(d) + 1 + Len(b) /\ \A j \in 1 .. Len(d) : e[j] = d[j]
  BY <1>3, <1>4, <1>5, Join
<1>7. \A j \in 1 .. Len(e) : e[j] # 0
  BY <1>3, <1>4, <1>5, JoinNonzero
<1> HIDE DEF e, n
<1>8. Len(e) \in Nat /\ Len(d) < Len(e) /\ e # <<>>
  BY <1>3, <1>6
<1>9. \E f \in Nat : FullBlocks(f, n) /\ Len(e) = n + f + 1
  <2>1. PICK f \in Nat : FullBlocks(f, n - Len(b)) /\ Len(d) = (n - Len(b)) + f
    BY <1>2 DEF Stuffs
  <2> DEFINE p == f * (MaxCode - 1)
  <2>2. p \in Int /\ p <= n - Len(b)
    BY <1>1, <1>3, <2>1 DEF FullBlocks
  <2> HIDE DEF p
  <2>3. p <= n
    BY <1>1, <1>3, <2>2
  <2>4. FullBlocks(f, n)
    BY <2>3 DEF FullBlocks, p
  <2>5. Len(e) = n + f + 1
    BY <1>1, <1>3, <1>6, <2>1
  <2> QED
    BY <2>4, <2>5
<1> DEFINE P == {m \in Nat : m <= n => Begins(Stuffing(raw)[n - m].done, e)}
<1>10. P = Nat
  <2>1. 0 \in P
    <3>1. Stuffing(raw)[n].done = d /\ n - 0 = n
      BY <1>1, <1>2
    <3> QED
      BY <3>1, <1>6, <1>8 DEF Begins
  <2>2. ASSUME NEW m \in P PROVE m + 1 \in P
    <3> SUFFICES ASSUME m + 1 <= n PROVE Begins(Stuffing(raw)[n - (m + 1)].done, e)
      OBVIOUS
    <3> DEFINE i == n - (m + 1)
    <3>1. i \in Nat /\ i + 1 \in 1 .. n /\ i + 1 = n - m /\ m <= n
      BY <1>1
    <3>2. Begins(Stuffing(raw)[i + 1].done, e)
      BY <3>1
    <3> HIDE DEF i
    <3>3. Begins(Stuffing(raw)[i].done, e)
      BY <1>8, <3>1, <3>2, StuffingGrows DEF n
    <3> QED
      BY <3>3 DEF i
  <2> HIDE DEF P
  <2>3. P \in SUBSET Nat
    BY DEF P
  <2> QED
    BY <2>1, <2>2, <2>3, AllOf
<1>11. ASSUME NEW i \in 0 .. n PROVE Begins(Stuffing(raw)[i].done, e)
  <2>1. n - i \in Nat /\ n - i <= n /\ n - (n - i) = i
    BY <1>1
  <2>2. n - i \in P
    BY <1>10, <2>1
  <2> QED
    BY <2>1, <2>2
<1> QED
  BY <1>6, <1>7, <1>8, <1>9, <1>11 DEF e, n

\* As many blocks as fit.
LEMMA Quotient ==
    ASSUME NEW d \in Nat \ {0}, NEW f \in Nat, NEW x \in Nat, f * d <= x
    PROVE  f <= x \div d
  BY SMT

\* Every record that is not too long has an encoding that fits.
LEMMA EncodeIs ==
    ASSUME NEW raw \in Seq(Nat), Len(raw) <= RawMax
    PROVE  /\ CobsEncode(raw, EncodedMax - 1) = Whole(raw)
           /\ Len(Whole(raw)) <= EncodedMax - 1 /\ EncodedMax \in Nat
<1> DEFINE n == Len(raw)
           e == Whole(raw)
<1>1. PICK f \in Nat : FullBlocks(f, n) /\ Len(e) = n + f + 1
  BY WholeIs
<1>2. n \in Nat /\ RawMax \in Nat /\ MaxCode - 1 \in Nat \ {0} /\ n <= RawMax
  BY CobsAssumption
<1> HIDE DEF e, n
<1>3. f <= RawMax \div (MaxCode - 1) /\ RawMax \div (MaxCode - 1) \in Nat
  <2> DEFINE p == f * (MaxCode - 1)
             m == MaxCode - 1
  <2>1. p <= n /\ p \in Nat
    BY <1>1, <1>2 DEF FullBlocks
  <2>2. p <= RawMax
    <3> HIDE DEF p
    <3> QED
      BY <2>1, <1>2
  <2>3. m \in Nat \ {0} /\ f * m <= RawMax
    BY <1>2, <2>2
  <2> HIDE DEF m
  <2>4. f <= RawMax \div m
    BY <1>2, <2>3, Quotient
  <2>5. RawMax \div m \in Nat
    BY <1>2, <2>3
  <2> QED
    BY <2>4, <2>5 DEF m
<1> DEFINE q == RawMax \div (MaxCode - 1)
<1>4. EncodedMax = RawMax + q + 2
  BY DEF EncodedMax
<1> HIDE DEF q
<1>5. q \in Nat /\ f <= q
  BY <1>3 DEF q
<1>6. Len(e) <= EncodedMax - 1 /\ EncodedMax \in Nat
  BY <1>1, <1>2, <1>4, <1>5
<1>7. ~(Len(e) > EncodedMax - 1)
  BY <1>1, <1>2, <1>6
<1>8. CobsEncode(raw, EncodedMax - 1) = e
  BY <1>7 DEF CobsEncode, Whole, e
<1> QED
  BY <1>6, <1>8 DEF e

\* The same elements from two places.
LEMMA SamePart ==
    ASSUME NEW s, NEW t, NEW p \in Nat, NEW q \in Nat, NEW l \in Nat,
           \A j \in 1 .. l : s[p + j] = t[q + j] /\ t[q + j] \in Nat
    PROVE  /\ SubSeq(s, p + 1, p + l) = SubSeq(t, q + 1, q + l)
           /\ SubSeq(s, p + 1, p + l) \in Seq(Nat)
<1> DEFINE a == SubSeq(s, p + 1, p + l)
           b == SubSeq(t, q + 1, q + l)
<1>1. ASSUME NEW r, NEW o \in Nat, \A j \in 1 .. l : r[o + j] \in Nat
      PROVE  /\ SubSeq(r, o + 1, o + l) \in Seq(Nat) /\ Len(SubSeq(r, o + 1, o + l)) = l
             /\ \A j \in 1 .. l : SubSeq(r, o + 1, o + l)[j] = r[o + j]
  <2>1. \A i \in o + 1 .. o + l : r[i] \in Nat
    <3> SUFFICES ASSUME NEW i \in o + 1 .. o + l PROVE r[i] \in Nat
      OBVIOUS
    <3>1. i - o \in 1 .. l /\ o + (i - o) = i
      OBVIOUS
    <3> QED
      BY <1>1, <3>1
  <2> DEFINE m == o + 1
             n == o + l
             c == SubSeq(r, m, n)
  <2>2. m \in Int /\ n \in Int /\ n - m + 1 = l /\ (~(m <= n) => l = 0)
    OBVIOUS
  <2>3. \A j \in 1 .. l : m + j - 1 = o + j
    OBVIOUS
  <2>4. \A i \in m .. n : r[i] \in Nat
    BY <2>1
  <2> HIDE DEF m, n
  <2>5. /\ c \in Seq(Nat) /\ Len(c) = IF m <= n THEN n - m + 1 ELSE 0
        /\ \A i \in 1 .. n - m + 1 : c[i] = r[m + i - 1]
    BY <2>2, <2>4, SubSeqProperties
  <2> HIDE DEF c
  <2>6. c \in Seq(Nat) /\ Len(c) = l /\ \A j \in 1 .. l : c[j] = r[o + j]
    BY <2>2, <2>3, <2>5
  <2> QED
    BY <2>6 DEF c, m, n
<1>2. a \in Seq(Nat) /\ Len(a) = l /\ \A j \in 1 .. l : a[j] = s[p + j]
  BY <1>1
<1>3. b \in Seq(Nat) /\ Len(b) = l /\ \A j \in 1 .. l : b[j] = t[q + j]
  BY <1>1
<1> HIDE DEF a, b
<1>4. a = b
  BY <1>2, <1>3, SeqEqual
<1> QED
  BY <1>2, <1>4 DEF a, b

\* The zero that stood after a block with this code.
Closing(code, next, input) == IF code # MaxCode /\ next <= Len(input) THEN <<0>> ELSE <<>>

\* What is decoded without an error.
Good(o) == [ok |-> TRUE, output |-> o]

\* EXCEPT, for the records CobsDecode keeps.
LEMMA SetOutput ==
    ASSUME NEW t, NEW o, NEW x
    PROVE  [[ok |-> t, output |-> o] EXCEPT !.output = x] = [ok |-> t, output |-> x]
  OBVIOUS

\* The same where there was no error.
LEMMA GoodOutput ==
    ASSUME NEW o, NEW x
    PROVE  /\ Good(o).output = o /\ Good(o).ok = TRUE
           /\ [Good(o) EXCEPT !.output = x] = Good(x)
<1> DEFINE t == TRUE
<1> HIDE DEF t
<1>1. [[ok |-> t, output |-> o] EXCEPT !.output = x] = [ok |-> t, output |-> x]
  BY SetOutput
<1>2. [ok |-> t, output |-> o].output = o
  OBVIOUS
<1>3. [ok |-> t, output |-> o].ok = t
  OBVIOUS
<1> QED
  BY <1>1, <1>2, <1>3, Zenon DEF Good, t

\* One block is decoded.
BlockAt(input, q, next, block, zero, o) ==
    /\ input \in Seq(Nat) /\ q \in 1 .. Len(input) /\ input[q] # 0
    /\ next = q + input[q] /\ next <= Len(input) + 1 /\ Unstuffing(input)[next] = Good(o)
    /\ block = SubSeq(input, q + 1, next - 1) /\ zero = Closing(input[q], next, input)

\* A block that stands in the input is decoded.
LEMMA DecodesBlock ==
    ASSUME NEW input, NEW q, NEW next, NEW block, NEW zero, NEW o,
           BlockAt(input, q, next, block, zero, o)
    PROVE  Unstuffing(input)[q] = Good(block \o zero \o o)
<1>0. /\ input \in Seq(Nat) /\ q \in 1 .. Len(input) /\ input[q] # 0
      /\ next = q + input[q] /\ next <= Len(input) + 1 /\ Unstuffing(input)[next] = Good(o)
      /\ block = SubSeq(input, q + 1, next - 1) /\ zero = Closing(input[q], next, input)
  BY DEF BlockAt
<1> DEFINE g == Unstuffing(input)
<1>1. q # Len(input) + 1 /\ q \in 1 .. Len(input) + 1 /\ ~(next > Len(input) + 1)
  BY <1>0
<1>2. g[q] = UnstuffedBy(input, g, q)
  <2> HIDE DEF g
  <2>1. g = [i \in 1 .. Len(input) + 1 |-> UnstuffedBy(input, g, i)]
    BY <1>0, UnstuffingIs DEF g
  <2> QED
    BY <1>1, <2>1
<1> HIDE DEF g
<1>3. g[q] = [g[next] EXCEPT !.output = block \o zero \o @]
  BY <1>0, <1>1, <1>2 DEF UnstuffedBy, Closing
<1>4. g[next] = Good(o)
  BY <1>0 DEF g
<1> DEFINE x == block \o zero \o o
<1>5. Good(o).output = o
  BY GoodOutput
<1>6. g[q] = [Good(o) EXCEPT !.output = x]
  BY <1>3, <1>4, <1>5
<1> HIDE DEF x
<1>7. g[q] = Good(x)
  BY <1>6, GoodOutput
<1> QED
  BY <1>7 DEF g, x

\* The parts before and after a zero, with it.
LEMMA Three ==
    ASSUME NEW raw \in Seq(Nat), NEW k \in 0 .. Len(raw), NEW i \in k .. Len(raw) - 1
    PROVE  SubSeq(raw, k + 1, i) \o <<0>> \o SubSeq(raw, i + 2, Len(raw)) = SubSeq(raw, k + 1, Len(raw))
             \/ raw[i + 1] # 0
<1> SUFFICES ASSUME raw[i + 1] = 0
             PROVE  SubSeq(raw, k + 1, i) \o <<0>> \o SubSeq(raw, i + 2, Len(raw))
                      = SubSeq(raw, k + 1, Len(raw))
  OBVIOUS
<1> DEFINE n == Len(raw)
<1>1. n \in Nat /\ k \in Nat /\ i \in Nat /\ k <= i /\ i + 1 <= n
  OBVIOUS
<1>2. <<0>> = SubSeq(raw, i + 1, i + 1)
  BY <1>1
<1> HIDE DEF n
<1>3. SubSeq(raw, k + 1, i) \o SubSeq(raw, i + 1, i + 1) = SubSeq(raw, k + 1, i + 1)
  <2>1. k + 1 \in 1 .. n + 1 /\ i \in (k + 1) - 1 .. n /\ i + 1 \in i .. n
    BY <1>1
  <2> QED
    BY <2>1, ConcatAdjacentSubSeq DEF n
<1>4. SubSeq(raw, k + 1, i + 1) \o SubSeq(raw, (i + 1) + 1, n) = SubSeq(raw, k + 1, n)
  <2>1. k + 1 \in 1 .. n + 1 /\ i + 1 \in (k + 1) - 1 .. n /\ n \in i + 1 .. n
    BY <1>1
  <2> QED
    BY <2>1, ConcatAdjacentSubSeq DEF n
<1>5. (i + 1) + 1 = i + 2
  BY <1>1
<1> QED
  BY <1>2, <1>3, <1>4, <1>5 DEF n

\* The code l + 1 and the l bytes after m of raw stand at q.
PieceAt(raw, e, q, l, m, next, o, z) ==
    /\ raw \in Seq(Nat) /\ e \in Seq(Nat) /\ q \in 1 .. Len(e) /\ l \in Nat
    /\ m \in Nat /\ m + l <= Len(raw) /\ next \in Nat /\ next = q + l + 1 /\ next <= Len(e) + 1
    /\ e[q] = l + 1 /\ \A j \in 1 .. l : e[q + j] = raw[m + j]
    /\ Unstuffing(e)[next] = Good(o) /\ z = Closing(l + 1, next, e)

\* A block of raw that stands in its encoding decodes to itself.
LEMMA BlockDecodes ==
    ASSUME NEW raw, NEW e, NEW q, NEW l, NEW m, NEW next, NEW o, NEW z,
           PieceAt(raw, e, q, l, m, next, o, z)
    PROVE  /\ Unstuffing(e)[q] = Good(SubSeq(raw, m + 1, m + l) \o z \o o)
           /\ SubSeq(raw, m + 1, m + l) \in Seq(Nat)
<1>0. /\ raw \in Seq(Nat) /\ e \in Seq(Nat) /\ q \in 1 .. Len(e) /\ l \in Nat
      /\ m \in Nat /\ m + l <= Len(raw) /\ next \in Nat /\ next = q + l + 1 /\ next <= Len(e) + 1
      /\ e[q] = l + 1 /\ \A j \in 1 .. l : e[q + j] = raw[m + j]
      /\ Unstuffing(e)[next] = Good(o) /\ z = Closing(l + 1, next, e)
  BY DEF PieceAt
<1> DEFINE block == SubSeq(e, q + 1, next - 1)
<1>1. q \in Nat /\ e[q] # 0 /\ next = q + e[q] /\ next - 1 = q + l
  BY <1>0
<1>2. \A j \in 1 .. l : raw[m + j] \in Nat
  <2> SUFFICES ASSUME NEW j \in 1 .. l PROVE raw[m + j] \in Nat
    OBVIOUS
  <2>1. m + j \in 1 .. Len(raw) /\ raw \in Seq(Nat)
    BY <1>0
  <2> QED
    BY <2>1
<1>3. SubSeq(e, q + 1, q + l) = SubSeq(raw, m + 1, m + l) /\ SubSeq(e, q + 1, q + l) \in Seq(Nat)
  BY <1>0, <1>1, <1>2, SamePart
<1>4. block = SubSeq(raw, m + 1, m + l) /\ block \in Seq(Nat)
  BY <1>1, <1>3
<1>b. block = SubSeq(e, q + 1, next - 1)
  OBVIOUS
<1> HIDE DEF block
<1>5. z = Closing(e[q], next, e)
  BY <1>0
<1>6. BlockAt(e, q, next, block, z, o)
  BY <1>0, <1>1, <1>5, <1>b DEF BlockAt
<1>7. Unstuffing(e)[q] = Good(block \o z \o o)
  BY <1>6, DecodesBlock
<1> QED
  BY <1>4, <1>7

\* A block that is closed, at i + 1 of raw.
ClosedAt(raw, e, q, l, m, next, i) ==
    /\ raw \in Seq(Nat) /\ e \in Seq(Nat) /\ q \in 1 .. Len(e) /\ l \in Nat
    /\ m \in Nat /\ i \in Nat /\ i + 1 <= Len(raw)
    /\ next \in Nat /\ next = q + l + 1 /\ next <= Len(e)
    /\ e[q] = l + 1 /\ \A j \in 1 .. l : e[q + j] = raw[m + j]
    /\ Unstuffing(e)[next] = Good(SubSeq(raw, i + 2, Len(raw)))
    /\ \/ l + 1 = MaxCode /\ m + l = i + 1
       \/ l + 1 # MaxCode /\ m + l = i /\ raw[i + 1] = 0

\* A closed block and what follows decode to the end of raw.
LEMMA ClosedDecodes ==
    ASSUME NEW raw, NEW e, NEW q, NEW l, NEW m, NEW next, NEW i,
           ClosedAt(raw, e, q, l, m, next, i)
    PROVE  Unstuffing(e)[q] = Good(SubSeq(raw, m + 1, Len(raw)))
<1>0. /\ raw \in Seq(Nat) /\ e \in Seq(Nat) /\ q \in 1 .. Len(e) /\ l \in Nat
      /\ m \in Nat /\ i \in Nat /\ i + 1 <= Len(raw)
      /\ next \in Nat /\ next = q + l + 1 /\ next <= Len(e)
      /\ e[q] = l + 1 /\ \A j \in 1 .. l : e[q + j] = raw[m + j]
      /\ Unstuffing(e)[next] = Good(SubSeq(raw, i + 2, Len(raw)))
      /\ \/ l + 1 = MaxCode /\ m + l = i + 1
         \/ l + 1 # MaxCode /\ m + l = i /\ raw[i + 1] = 0
  BY DEF ClosedAt
<1> DEFINE n == Len(raw)
           o == SubSeq(raw, i + 2, n)
           z == IF l + 1 # MaxCode THEN <<0>> ELSE <<>>
           block == SubSeq(raw, m + 1, m + l)
<1>1. /\ n \in Nat /\ m + l <= n /\ next <= Len(e) + 1 /\ i + 1 <= n /\ (i + 1) + 1 = i + 2
  BY <1>0
<1>z. z = Closing(l + 1, next, e)
  BY <1>0 DEF Closing
<1>o. o = SubSeq(raw, i + 2, Len(raw)) /\ n = Len(raw)
  OBVIOUS
<1> HIDE DEF n, o
<1>2. Unstuffing(e)[q] = Good(block \o z \o o) /\ block \in Seq(Nat)
  <2>1. Unstuffing(e)[next] = Good(o)
    BY <1>0, <1>o
  <2> HIDE DEF z
  <2>2. PieceAt(raw, e, q, l, m, next, o, z)
    BY <1>0, <1>1, <1>o, <1>z, <2>1 DEF PieceAt
  <2> QED
    BY <2>2, BlockDecodes
<1>3. block \o z \o o = SubSeq(raw, m + 1, n)
  <2>1. CASE l + 1 = MaxCode /\ m + l = i + 1
    <3>1. block \o z = block
      BY <1>2, <2>1, ConcatEmptySeq
    <3>2. m + 1 \in 1 .. n + 1 /\ i + 1 \in (m + 1) - 1 .. n /\ n \in i + 1 .. n
      BY <1>0, <1>1, <2>1
    <3>3. SubSeq(raw, m + 1, i + 1) \o SubSeq(raw, (i + 1) + 1, n) = SubSeq(raw, m + 1, n)
      BY <1>0, <1>o, <3>2, ConcatAdjacentSubSeq
    <3> QED
      BY <1>1, <1>o, <2>1, <3>1, <3>3
  <2>2. CASE l + 1 # MaxCode /\ m + l = i /\ raw[i + 1] = 0
    <3>0. l \in Nat /\ m \in Nat /\ i \in Nat /\ m + l = i /\ n \in Nat /\ i + 1 <= n
      BY <1>0, <1>1, <2>2
    <3>1. m \in 0 .. n /\ i \in m .. n - 1
      BY <3>0
    <3>2. SubSeq(raw, m + 1, i) \o <<0>> \o SubSeq(raw, i + 2, n) = SubSeq(raw, m + 1, n)
      BY <1>0, <1>o, <2>2, <3>1, Three
    <3> QED
      BY <1>o, <2>2, <3>2
  <2> QED
    BY <1>0, <2>1, <2>2
<1> QED
  BY <1>2, <1>3, <1>o

\* The block at the end.
LastAt(raw, e, q, l, m, next) ==
    /\ raw \in Seq(Nat) /\ e \in Seq(Nat) /\ q \in 1 .. Len(e) /\ l \in Nat
    /\ m \in Nat /\ m + l = Len(raw) /\ next \in Nat /\ next = Len(e) + 1 /\ next = q + l + 1
    /\ e[q] = l + 1 /\ \A j \in 1 .. l : e[q + j] = raw[m + j]

\* So does the last block.
LEMMA LastDecodes ==
    ASSUME NEW raw, NEW e, NEW q, NEW l, NEW m, NEW next, LastAt(raw, e, q, l, m, next)
    PROVE  Unstuffing(e)[q] = Good(SubSeq(raw, m + 1, Len(raw)))
<1>0. /\ raw \in Seq(Nat) /\ e \in Seq(Nat) /\ q \in 1 .. Len(e) /\ l \in Nat
      /\ m \in Nat /\ m + l = Len(raw) /\ next \in Nat /\ next = Len(e) + 1 /\ next = q + l + 1
      /\ e[q] = l + 1 /\ \A j \in 1 .. l : e[q + j] = raw[m + j]
  BY DEF LastAt
<1> DEFINE z == <<>>
           block == SubSeq(raw, m + 1, m + l)
<1>1. next <= Len(e) + 1 /\ ~(next <= Len(e)) /\ m + l <= Len(raw)
  BY <1>0
<1>2. Unstuffing(e)[next] = Good(z)
  <2> DEFINE g == Unstuffing(e)
  <2> HIDE DEF g
  <2>1. g = [i \in 1 .. Len(e) + 1 |-> UnstuffedBy(e, g, i)]
    BY <1>0, UnstuffingIs DEF g
  <2>2. next \in 1 .. Len(e) + 1
    BY <1>0, <1>1
  <2>3. g[next] = UnstuffedBy(e, g, next)
    BY <2>1, <2>2
  <2> QED
    BY <1>0, <1>1, <2>3 DEF UnstuffedBy, g, Good
<1>3. z = Closing(l + 1, next, e)
  BY <1>1 DEF Closing
<1>e. z = <<>>
  OBVIOUS
<1> HIDE DEF z
<1>4. Unstuffing(e)[q] = Good(block \o z \o z) /\ block \in Seq(Nat)
  <2>1. PieceAt(raw, e, q, l, m, next, z, z)
    BY <1>0, <1>1, <1>2, <1>3 DEF PieceAt
  <2> QED
    BY <2>1, BlockDecodes
<1>5. block \o z \o z = block
  BY <1>4, <1>e, ConcatEmptySeq
<1> QED
  BY <1>0, <1>4, <1>5

Done(raw, i) == Stuffing(raw)[i].done
Open(raw, i) == Stuffing(raw)[i].block

\* What is closed and what is open after i bytes have their shape.
LEMMA StuffsAt ==
    ASSUME NEW raw \in Seq(Nat), NEW i \in 0 .. Len(raw)
    PROVE  Stuffs(raw, i, Done(raw, i), Open(raw, i))
  BY StuffingUpTo DEF StuffedUpTo, Done, Open

\* What a byte adds to what is closed.
LEMMA DoneStep ==
    ASSUME NEW raw \in Seq(Nat), NEW i \in Nat, i + 1 \in 1 .. Len(raw)
    PROVE  /\ raw[i + 1] \in Nat
           /\ raw[i + 1] = 0 =>
                /\ Done(raw, i + 1) = Done(raw, i) \o <<Len(Open(raw, i)) + 1>> \o Open(raw, i)
                /\ Open(raw, i + 1) = <<>>
           /\ raw[i + 1] # 0 /\ Len(Open(raw, i)) + 2 = MaxCode =>
                /\ Done(raw, i + 1) = Done(raw, i) \o <<Len(Open(raw, i)) + 2>>
                                        \o Append(Open(raw, i), raw[i + 1])
                /\ Open(raw, i + 1) = <<>>
           /\ raw[i + 1] # 0 /\ Len(Open(raw, i)) + 2 # MaxCode =>
                /\ Done(raw, i + 1) = Done(raw, i)
                /\ Open(raw, i + 1) = Append(Open(raw, i), raw[i + 1])
<1> DEFINE g == Stuffing(raw)[i + 1]
           d == Stuffing(raw)[i].done
           b == Stuffing(raw)[i].block
           byte == raw[i + 1]
<1>1. /\ byte \in Nat
      /\ byte = 0 => g = [done |-> d \o <<Len(b) + 1>> \o b, block |-> <<>>]
      /\ byte # 0 /\ Len(b) + 2 = MaxCode
            => g = [done |-> d \o <<Len(b) + 2>> \o Append(b, byte), block |-> <<>>]
      /\ byte # 0 /\ Len(b) + 2 # MaxCode => g = [done |-> d, block |-> Append(b, byte)]
  BY StuffingStep
<1> HIDE DEF g, d, b, byte
<1>2. \A x, y : g = [done |-> x, block |-> y] => g.done = x /\ g.block = y
  OBVIOUS
<1>3. /\ byte = 0 => g.done = d \o <<Len(b) + 1>> \o b /\ g.block = <<>>
      /\ byte # 0 /\ Len(b) + 2 = MaxCode
            => g.done = d \o <<Len(b) + 2>> \o Append(b, byte) /\ g.block = <<>>
      /\ byte # 0 /\ Len(b) + 2 # MaxCode => g.done = d /\ g.block = Append(b, byte)
  BY <1>1, <1>2, Zenon
<1> QED
  BY <1>1, <1>3 DEF Done, Open, g, d, b, byte

\* From where the open block of byte i begins, the encoding decodes to the bytes from the
\* first of that block on.
UnstuffsTo(raw, i) ==
    Unstuffing(Whole(raw))[Len(Done(raw, i)) + 1]
      = Good(SubSeq(raw, (i - Len(Open(raw, i))) + 1, Len(raw)))

\* From the last block on, the encoding decodes to the end of raw.
LEMMA UnstuffsLast ==
    ASSUME NEW raw \in Seq(Nat)
    PROVE  UnstuffsTo(raw, Len(raw))
<1> DEFINE n == Len(raw)
           d == Done(raw, n)
           b == Open(raw, n)
           e == Whole(raw)
           l == Len(b)
           q == Len(d) + 1
           m == n - l
           next == Len(e) + 1
<1>1. n \in Nat /\ n \in 0 .. Len(raw) /\ n = Len(raw)
  OBVIOUS
<1>2. e = d \o <<Len(b) + 1>> \o b
  BY DEF Whole, Done, Open
<1> HIDE DEF n, e
<1>3. Stuffs(raw, n, d, b)
  BY <1>1, StuffsAt
<1> HIDE DEF d, b
<1>4. /\ d \in Seq(Nat) /\ b \in Seq(Nat) /\ Len(d) \in Nat /\ l \in Nat
      /\ l <= n /\ \A j \in 1 .. l : b[j] = raw[m + j]
  <2>1. /\ d \in Seq(Nat) /\ b \in Seq(Nat) /\ Len(d) \in Nat /\ Len(b) \in Nat
        /\ Len(b) <= n /\ \A j \in 1 .. Len(b) : b[j] = raw[(n - Len(b)) + j]
    BY SMTT(30), <1>1, <1>3, StuffsFacts
  <2> QED
    BY <2>1
<1>5. /\ e \in Seq(Nat) /\ Len(e) = q + l /\ e[q] = l + 1
      /\ \A j \in 1 .. l : e[q + j] = b[j]
  <2>1. l + 1 \in Nat /\ e = d \o <<l + 1>> \o b
    BY <1>2, <1>4
  <2> QED
    BY <1>4, <2>1, Join
<1>6. /\ m \in Nat /\ m + l = n /\ q \in 1 .. Len(e) /\ next \in Nat /\ next = q + l + 1
  BY <1>1, <1>4, <1>5
<1>n. next = Len(e) + 1 /\ m = n - l
  OBVIOUS
<1>7. \A j \in 1 .. l : e[q + j] = raw[m + j]
  BY <1>4, <1>5
<1> HIDE DEF l, q, m, next
<1>8. LastAt(raw, e, q, l, m, next)
  BY <1>1, <1>4, <1>5, <1>6, <1>7, <1>n DEF LastAt
<1>9. Unstuffing(e)[q] = Good(SubSeq(raw, m + 1, Len(raw)))
  BY <1>8, LastDecodes
<1> QED
  BY <1>9 DEF UnstuffsTo, e, q, m, l, d, b, n

\* A block s that byte i + 1 closes, with that byte or before it.
Closes(raw, i, s, m) ==
    /\ raw \in Seq(Nat) /\ i \in Nat /\ i + 1 \in 1 .. Len(raw)
    /\ UnstuffsTo(raw, i + 1) /\ s \in Seq(Nat) /\ m \in Nat
    /\ Done(raw, i + 1) = Done(raw, i) \o <<Len(s) + 1>> \o s /\ Open(raw, i + 1) = <<>>
    /\ \A j \in 1 .. Len(s) : s[j] = raw[m + j]
    /\ \/ Len(s) + 1 = MaxCode /\ m + Len(s) = i + 1
       \/ Len(s) + 1 # MaxCode /\ m + Len(s) = i /\ raw[i + 1] = 0

\* If it does so after a block that is closed, it does so from that block on.
LEMMA UnstuffsClosed ==
    ASSUME NEW raw, NEW i, NEW s, NEW m, Closes(raw, i, s, m)
    PROVE  Unstuffing(Whole(raw))[Len(Done(raw, i)) + 1] = Good(SubSeq(raw, m + 1, Len(raw)))
<1>0. /\ raw \in Seq(Nat) /\ i \in Nat /\ i + 1 \in 1 .. Len(raw)
      /\ UnstuffsTo(raw, i + 1) /\ s \in Seq(Nat) /\ m \in Nat
      /\ Done(raw, i + 1) = Done(raw, i) \o <<Len(s) + 1>> \o s /\ Open(raw, i + 1) = <<>>
      /\ \A j \in 1 .. Len(s) : s[j] = raw[m + j]
      /\ \/ Len(s) + 1 = MaxCode /\ m + Len(s) = i + 1
         \/ Len(s) + 1 # MaxCode /\ m + Len(s) = i /\ raw[i + 1] = 0
  BY DEF Closes
<1> DEFINE d == Done(raw, i)
           c == Done(raw, i + 1)
           e == Whole(raw)
           l == Len(s)
           q == Len(d) + 1
           next == Len(c) + 1
<1>1. i \in 0 .. Len(raw) /\ i + 1 \in 0 .. Len(raw) /\ l \in Nat /\ i + 1 <= Len(raw)
  BY <1>0
<1>2. d \in Seq(Nat) /\ Len(d) \in Nat
  <2>1. Stuffs(raw, i, d, Open(raw, i))
    BY <1>0, <1>1, StuffsAt
  <2> HIDE DEF d
  <2> QED
    BY <1>0, <2>1, StuffsFacts
<1>3. Begins(c, e) /\ e \in Seq(Nat) /\ Len(e) \in Nat
  <2>1. e \in Seq(Nat) /\ Begins(Stuffing(raw)[i + 1].done, e)
    BY <1>0, <1>1, WholeIs
  <2> HIDE DEF e
  <2> QED
    BY <2>1 DEF Done
<1>4. Unstuffing(e)[next] = Good(SubSeq(raw, i + 2, Len(raw)))
  <2>1. Len(Open(raw, i + 1)) = 0 /\ ((i + 1) - 0) + 1 = i + 2
    BY <1>0
  <2> QED
    BY <1>0, <2>1 DEF UnstuffsTo
<1>5. c = d \o <<l + 1>> \o s /\ s \in Seq(Nat)
  BY <1>0
<1> HIDE DEF d, c, e
<1>6. /\ Len(c) = Len(d) + 1 + l /\ c[q] = l + 1 /\ c \in Seq(Nat)
      /\ \A j \in 1 .. l : c[q + j] = s[j]
  <2>1. l + 1 \in Nat
    BY <1>1
  <2> QED
    BY <1>2, <1>5, <2>1, Join
<1>7. Len(c) < Len(e) /\ \A j \in 1 .. Len(c) : e[j] = c[j]
  BY <1>3 DEF Begins
<1>8. /\ q \in Nat /\ q \in 1 .. Len(c) /\ q \in 1 .. Len(e) /\ next \in Nat /\ next = q + l + 1
      /\ next <= Len(e) /\ \A j \in 1 .. l : q + j \in 1 .. Len(c)
  <2> DEFINE x == Len(c)
             y == Len(e)
             w == Len(d)
  <2>1. x = w + 1 + l /\ x < y /\ y \in Nat /\ w \in Nat /\ l \in Nat
    BY <1>1, <1>2, <1>3, <1>6, <1>7
  <2> HIDE DEF x, y, w, l
  <2>2. /\ w + 1 \in Nat /\ w + 1 \in 1 .. x /\ w + 1 \in 1 .. y /\ x + 1 \in Nat /\ x + 1 = (w + 1) + l + 1
        /\ x + 1 <= y /\ \A j \in 1 .. l : (w + 1) + j \in 1 .. x
    BY <2>1
  <2> QED
    BY <2>2 DEF x, y, w
<1> HIDE DEF q, next
<1>9. e[q] = l + 1 /\ \A j \in 1 .. l : e[q + j] = raw[m + j]
  BY <1>0, <1>6, <1>7, <1>8
<1>10. ClosedAt(raw, e, q, l, m, next, i)
  BY <1>0, <1>1, <1>3, <1>4, <1>8, <1>9 DEF ClosedAt
<1>11. Unstuffing(e)[q] = Good(SubSeq(raw, m + 1, Len(raw)))
  BY <1>10, ClosedDecodes
<1> QED
  BY <1>11 DEF e, q, d

\* If it does so after a byte, it does so before that byte.
LEMMA UnstuffsBefore ==
    ASSUME NEW raw \in Seq(Nat), NEW i \in Nat, i + 1 \in 1 .. Len(raw), UnstuffsTo(raw, i + 1)
    PROVE  UnstuffsTo(raw, i)
<1> DEFINE d == Done(raw, i)
           b == Open(raw, i)
           byte == raw[i + 1]
           m == i - Len(b)
           a == Append(b, byte)
<1>0. i \in 0 .. Len(raw)
  OBVIOUS
<1>1. /\ byte \in Nat /\ Stuffs(raw, i, d, b)
      /\ byte = 0 => Done(raw, i + 1) = d \o <<Len(b) + 1>> \o b /\ Open(raw, i + 1) = <<>>
      /\ byte # 0 /\ Len(b) + 2 = MaxCode
            => Done(raw, i + 1) = d \o <<Len(b) + 2>> \o a /\ Open(raw, i + 1) = <<>>
      /\ byte # 0 /\ Len(b) + 2 # MaxCode => Done(raw, i + 1) = d /\ Open(raw, i + 1) = a
  BY <1>0, DoneStep, StuffsAt
<1>d. d = Done(raw, i) /\ b = Open(raw, i) /\ byte = raw[i + 1] /\ m = i - Len(b)
  OBVIOUS
<1>u. UnstuffsTo(raw, i) <=> Unstuffing(Whole(raw))[Len(d) + 1] = Good(SubSeq(raw, m + 1, Len(raw)))
  BY DEF UnstuffsTo
<1> HIDE DEF d, b, byte
<1>2. /\ b \in Seq(Nat) /\ Len(b) \in Nat /\ MaxCode \in Nat /\ Len(b) <= i /\ Len(b) + 1 < MaxCode
      /\ \A j \in 1 .. Len(b) : b[j] = raw[m + j]
  BY <1>1, StuffsFacts
<1>3. m \in Nat /\ m + Len(b) = i /\ m + (Len(b) + 1) = i + 1
  BY <1>2
<1>4. /\ a \in Seq(Nat) /\ Len(a) = Len(b) + 1 /\ a[Len(b) + 1] = byte
      /\ \A j \in 1 .. Len(b) : a[j] = b[j]
  BY <1>1, <1>2, AppendProperties
<1> HIDE DEF a, m
<1>5. \A j \in 1 .. Len(a) : a[j] = raw[m + j]
  <2> SUFFICES ASSUME NEW j \in 1 .. Len(a) PROVE a[j] = raw[m + j]
    OBVIOUS
  <2>1. j \in 1 .. Len(b) \/ j = Len(b) + 1
    BY <1>2, <1>4
  <2>2. CASE j \in 1 .. Len(b)
    BY <2>2, <1>4, <1>2
  <2>3. CASE j = Len(b) + 1
    BY <2>3, <1>4, <1>3, <1>d
  <2> QED
    BY <2>1, <2>2, <2>3
<1>6. CASE byte = 0
  <2>1. Len(b) + 1 # MaxCode
    BY <1>2
  <2>2. Closes(raw, i, b, m)
    BY <2>1, <1>1, <1>2, <1>3, <1>6, <1>d DEF Closes
  <2> QED
    BY <2>2, <1>d, <1>u, UnstuffsClosed
<1>7. CASE byte # 0 /\ Len(b) + 2 = MaxCode
  <2>1. Len(a) + 1 = MaxCode /\ Len(a) + 1 = Len(b) + 2 /\ m + Len(a) = i + 1
    BY <1>2, <1>3, <1>4, <1>7
  <2>2. Closes(raw, i, a, m)
    BY <2>1, <1>1, <1>3, <1>4, <1>5, <1>7, <1>d DEF Closes
  <2> QED
    BY <2>2, <1>d, <1>u, UnstuffsClosed
<1>8. CASE byte # 0 /\ Len(b) + 2 # MaxCode
  <2>1. (i + 1) - Len(a) = m
    BY <1>2, <1>3, <1>4, <1>d
  <2> QED
    BY <2>1, <1>1, <1>8, <1>u DEF UnstuffsTo
<1> QED
  BY <1>6, <1>7, <1>8

\* What is decoded of an encoding is what was encoded.
LEMMA DecodesWhole ==
    ASSUME NEW raw \in Seq(Nat), NEW capacity \in Nat, Len(raw) <= capacity
    PROVE  CobsDecode(Whole(raw), capacity) = raw
<1> DEFINE n == Len(raw)
           P == {k \in Nat : k <= n => UnstuffsTo(raw, n - k)}
<1>1. n \in Nat /\ n = Len(raw) /\ n - 0 = n
  OBVIOUS
<1> HIDE DEF n
<1>2. P = Nat
  <2>1. 0 \in P
    BY <1>1, UnstuffsLast
  <2>2. ASSUME NEW k \in P PROVE k + 1 \in P
    <3> SUFFICES ASSUME k + 1 <= n PROVE UnstuffsTo(raw, n - (k + 1))
      OBVIOUS
    <3> DEFINE i == n - (k + 1)
    <3>1. i \in Nat /\ i + 1 \in 1 .. Len(raw) /\ i + 1 = n - k /\ k <= n
      BY <1>1
    <3>2. UnstuffsTo(raw, i + 1)
      BY <3>1
    <3> HIDE DEF i
    <3>3. UnstuffsTo(raw, i)
      BY <3>1, <3>2, UnstuffsBefore
    <3> QED
      BY <3>3 DEF i
  <2> HIDE DEF P
  <2>3. P \in SUBSET Nat
    BY DEF P
  <2> QED
    BY <2>1, <2>2, <2>3, AllOf
<1>3. UnstuffsTo(raw, 0)
  <2>1. n - n = 0 /\ n <= n
    BY <1>1
  <2>2. n \in P
    BY <1>1, <1>2
  <2> QED
    BY <2>1, <2>2
<1>4. Done(raw, 0) = <<>> /\ Open(raw, 0) = <<>>
  <2>1. Stuffs(raw, 0, Done(raw, 0), Open(raw, 0))
    BY <1>1, StuffsAt
  <2>2. PICK f \in Nat : FullBlocks(f, 0 - Len(Open(raw, 0))) /\ Len(Done(raw, 0)) = (0 - Len(Open(raw, 0))) + f
    BY <2>1 DEF Stuffs
  <2> DEFINE d == Done(raw, 0)
             b == Open(raw, 0)
  <2>3. d \in Seq(Nat) /\ b \in Seq(Nat) /\ Len(b) \in Nat /\ Len(b) <= 0 /\ Len(d) \in Nat
    BY <2>1, StuffsFacts
  <2>4. f * (MaxCode - 1) <= 0 /\ MaxCode - 1 \in Nat \ {0} /\ Len(b) = 0
    BY <2>2, <2>3, CobsAssumption DEF FullBlocks
  <2>5. f = 0
    <3> DEFINE c == MaxCode - 1
    <3>1. f * c <= 0 /\ c \in Nat \ {0}
      BY <2>4
    <3> HIDE DEF c
    <3>2. f <= 0 \div c /\ 0 \div c = 0
      BY <3>1, Quotient
    <3> QED
      BY <3>2
  <2>6. Len(d) = 0
    BY <2>2, <2>4, <2>5
  <2> HIDE DEF d, b
  <2>7. d = <<>> /\ b = <<>>
    BY <2>3, <2>4, <2>6, EmptySeq
  <2> QED
    BY <2>7 DEF d, b
<1>5. Len(Done(raw, 0)) + 1 = 1 /\ (0 - Len(Open(raw, 0))) + 1 = 1
  BY <1>4
<1>6. Unstuffing(Whole(raw))[1] = Good(SubSeq(raw, 1, Len(raw)))
  BY <1>3, <1>5 DEF UnstuffsTo
<1>7. Unstuffing(Whole(raw))[1].ok = TRUE /\ Unstuffing(Whole(raw))[1].output = raw
  BY <1>6, SubSeqFull, GoodOutput
<1> QED
  BY <1>7 DEF CobsDecode
-----------------------------------------------------------------------------
(***************************************************************************)
(* What is decoded of any bytes.                                           *)
(***************************************************************************)

\* Concatenation stays in a set of sequences.
LEMMA JoinIn ==
    ASSUME NEW V, NEW s \in Seq(V), NEW t \in Seq(V)
    PROVE  s \o t \in Seq(V)
  BY ConcatProperties

\* Every byte that comes out is a zero, or went in.
LEMMA UnstuffingIn ==
    ASSUME NEW input \in Seq(Nat)
    PROVE  Unstuffing(input)[1].output \in Seq({0} \cup {input[i] : i \in 1 .. Len(input)})
<1> DEFINE n == Len(input)
           g == Unstuffing(input)
           V == {0} \cup {input[i] : i \in 1 .. Len(input)}
           R(r) == (\E k : r = [ok |-> k, output |-> r.output]) /\ r.output \in Seq(V)
           P == {m \in Nat : \A k \in 0 .. m : k <= n => R(g[(n + 1) - k])}
<1>1. n \in Nat /\ n = Len(input)
  OBVIOUS
<1>2. \A i \in 1 .. n + 1 : g[i] = UnstuffedBy(input, g, i)
  <2> HIDE DEF g
  <2>1. g = [i \in 1 .. n + 1 |-> UnstuffedBy(input, g, i)]
    BY UnstuffingIs DEF g
  <2> QED
    BY <2>1
<1>3. 0 \in V /\ \A i \in 1 .. n : input[i] \in V /\ input[i] \in Nat
  OBVIOUS
<1> HIDE DEF n, g, V
<1>4. ASSUME NEW b PROVE R([ok |-> b, output |-> <<>>])
  <2> DEFINE z == <<>>
             r == [ok |-> b, output |-> z]
  <2>1. r.output = z /\ r = [ok |-> b, output |-> r.output]
    OBVIOUS
  <2>2. z \in Seq(V)
    OBVIOUS
  <2> HIDE DEF r, z
  <2>3. R(r)
    BY <2>1, <2>2
  <2> QED
    BY <2>3 DEF r, z
<1>5. ASSUME NEW r, NEW x \in Seq(V), R(r) PROVE R([r EXCEPT !.output = x \o @])
  <2>1. PICK k : r = [ok |-> k, output |-> r.output]
    BY <1>5
  <2> DEFINE o == r.output
             y == x \o o
             q == [r EXCEPT !.output = y]
  <2>2. y \in Seq(V)
    BY <1>5, JoinIn
  <2>3. q = [ok |-> k, output |-> y]
    <3>1. r = [ok |-> k, output |-> o]
      BY <2>1
    <3> HIDE DEF o, y
    <3> QED
      BY <3>1
  <2> HIDE DEF y
  <2>4. q.output = y /\ q = [ok |-> k, output |-> q.output]
    BY <2>3
  <2> HIDE DEF q
  <2>5. R(q)
    BY <2>2, <2>4
  <2> QED
    BY <2>5 DEF q, y
<1> HIDE DEF R
<1>6. R(g[n + 1])
  <2> DEFINE i == n + 1
  <2>0. i \in 1 .. n + 1 /\ i = Len(input) + 1
    BY <1>1
  <2>2. g[i] = UnstuffedBy(input, g, i)
    BY <1>2, <2>0
  <2> HIDE DEF i
  <2>3. g[i] = [ok |-> TRUE, output |-> <<>>]
    BY <2>0, <2>2, Zenon DEF UnstuffedBy
  <2>1. g[n + 1] = [ok |-> TRUE, output |-> <<>>]
    BY <2>3, Zenon DEF i
  <2> QED
    BY <2>1, <1>4, Zenon
<1>7. ASSUME NEW i \in 1 .. n, \A k \in i + 1 .. n + 1 : R(g[k]) PROVE R(g[i])
  <2> DEFINE next == i + input[i]
             block == SubSeq(input, i + 1, next - 1)
             zero == IF input[i] # MaxCode /\ next <= Len(input) THEN <<0>> ELSE <<>>
  <2>1. g[i] = UnstuffedBy(input, g, i) /\ i # Len(input) + 1
    BY <1>1, <1>2
  <2>2. CASE input[i] = 0 \/ next > Len(input) + 1
    <3>1. g[i] = [ok |-> FALSE, output |-> <<>>]
      BY <2>1, <2>2 DEF UnstuffedBy
    <3> QED
      BY <3>1, <1>4, Zenon
  <2>3. CASE ~(input[i] = 0 \/ next > Len(input) + 1)
    <3>1. g[i] = [g[next] EXCEPT !.output = block \o zero \o @]
      BY <2>1, <2>3 DEF UnstuffedBy
    <3>2. next \in i + 1 .. n + 1 /\ i + 1 \in Int /\ next - 1 \in Int /\ next - 1 <= n
      BY <1>1, <1>3, <2>3
    <3>3. block \in Seq(V)
      <4>1. \A j \in i + 1 .. next - 1 : input[j] \in V
        BY <1>1, <1>3, <3>2
      <4> QED
        BY <3>2, <4>1, SubSeqProperties
    <3>4. zero \in Seq(V)
      BY <1>3
    <3> HIDE DEF next, block, zero
    <3>5. block \o zero \in Seq(V)
      BY <3>3, <3>4, JoinIn
    <3> QED
      BY <1>5, <1>7, <3>1, <3>2, <3>5
  <2> QED
    BY <2>2, <2>3
<1>8. P = Nat
  <2>1. 0 \in P
    BY <1>1, <1>6
  <2>2. ASSUME NEW m \in P PROVE m + 1 \in P
    <3> SUFFICES ASSUME NEW k \in 0 .. m + 1, k <= n PROVE R(g[(n + 1) - k])
      OBVIOUS
    <3>1. m \in Nat /\ \A j \in 0 .. m : j <= n => R(g[(n + 1) - j])
      OBVIOUS
    <3>2. CASE k <= m
      BY <3>1, <3>2
    <3>3. CASE k = m + 1
      <4> DEFINE i == (n + 1) - k
      <4>1. i \in 1 .. n
        BY <1>1, <3>1, <3>3
      <4>2. ASSUME NEW j \in i + 1 .. n + 1 PROVE R(g[j])
        <5>1. (n + 1) - j \in 0 .. m /\ (n + 1) - j <= n /\ (n + 1) - ((n + 1) - j) = j
          BY <1>1, <3>1, <3>3, <4>1
        <5>2. R(g[(n + 1) - ((n + 1) - j)])
          BY <5>1, <3>1
        <5> QED
          BY <5>1, <5>2
      <4> HIDE DEF i
      <4>3. R(g[i])
        BY <1>7, <4>1, <4>2
      <4> QED
        BY <4>3 DEF i
    <3> QED
      BY <3>1, <3>2, <3>3
  <2> HIDE DEF P
  <2>3. P \in SUBSET Nat
    BY DEF P
  <2> QED
    BY <2>1, <2>2, <2>3, AllOf
<1>9. R(g[1])
  <2>1. n \in P
    BY <1>1, <1>8
  <2>2. n \in 0 .. n /\ n <= n /\ (n + 1) - n = 1
    BY <1>1
  <2> QED
    BY <2>1, <2>2
<1> QED
  BY <1>9 DEF R, V, g

\* datlink_usb_decode returns a record, and no byte but zero that did not go in.
LEMMA DecodeIn ==
    ASSUME NEW input \in Seq(Nat), UsbDecode(input) # <<>>
    PROVE  /\ UsbDecode(input) \in Record
           /\ \A j \in 1 .. Len(UsbDecode(input)) :
                UsbDecode(input)[j] # 0
                    => \E i \in 1 .. Len(input) : input[i] = UsbDecode(input)[j]
<1> DEFINE raw == CobsDecode(input, RawMax)
           V == {0} \cup {input[i] : i \in 1 .. Len(input)}
<1>1. UsbDecode(input) = raw /\ raw \in Record /\ raw # <<>>
  BY DEF UsbDecode
<1>2. raw = Unstuffing(input)[1].output
  BY <1>1 DEF CobsDecode
<1>3. raw \in Seq(V)
  BY <1>2, UnstuffingIn
<1> HIDE DEF raw
<1>4. \A j \in 1 .. Len(raw) : raw[j] \in V
  BY <1>3
<1> QED
  BY <1>1, <1>4

\* What datlink_cobs_encode makes of a record that is not too long fits the buffer, has no
\* zero, which only ends a frame, and datlink_cobs_decode makes the record of it again.
THEOREM RoundTrip ==
    ASSUME NEW raw \in Seq(Nat), Len(raw) <= RawMax
    PROVE  LET encoded == CobsEncode(raw, EncodedMax - 1) IN
           /\ Len(encoded) \in 1 .. EncodedMax - 1
           /\ \A j \in 1 .. Len(encoded) : encoded[j] # 0
           /\ CobsDecode(encoded, RawMax) = raw
<1> DEFINE e == CobsEncode(raw, EncodedMax - 1)
           w == Whole(raw)
<1>1. e = w /\ Len(w) <= EncodedMax - 1 /\ EncodedMax \in Nat
  BY EncodeIs
<1>2. w \in Seq(Nat) /\ w # <<>> /\ \A j \in 1 .. Len(w) : w[j] # 0
  BY WholeIs
<1>3. CobsDecode(w, RawMax) = raw
  <2>1. RawMax \in Nat
    BY CobsAssumption
  <2> QED
    BY <2>1, DecodesWhole
<1> HIDE DEF w, e
<1>4. Len(w) \in 1 .. EncodedMax - 1
  <2>1. Len(w) \in Nat /\ Len(w) # 0
    BY <1>2
  <2> QED
    BY <1>1, <2>1
<1> QED
  BY <1>1, <1>2, <1>3, <1>4 DEF e
===============================================================================
