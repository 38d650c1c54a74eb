------------------------ MODULE OrderedExecutionProofs ------------------------
(* Proofs about OrderedExecution, for any set of boards and any run. *)
EXTENDS OrderedExecution, TLAPS

Entry == [gen : Nat, seq : Nat]
Types ==
    gen \in [Node -> Nat] /\ next \in [Node -> Nat] /\ log \in [Node -> Seq(Entry)]

\* Nothing in the log is ahead of the session and number whose turn it is.
Behind ==
    \A n \in Node : \A i \in DOMAIN log[n] :
        \/ log[n][i].gen < gen[n]
        \/ log[n][i].gen = gen[n] /\ log[n][i].seq < next[n]

Ordered == Types /\ Behind /\ LogOrdered

\* The execution starts with an empty log.
LEMMA InitOrdered == Init => Ordered
<1> SUFFICES ASSUME Init PROVE Ordered
  OBVIOUS
<1>1. Types
  <2>1. <<>> \in Seq(Entry)
    OBVIOUS
  <2> QED
    BY <2>1 DEF Init, Types
<1>2. \A n \in Node : DOMAIN log[n] = {}
  <2>1. \A n \in Node : log[n] = <<>>
    BY DEF Init
  <2>2. DOMAIN <<>> = {}
    OBVIOUS
  <2> QED
    BY <2>1, <2>2
<1>3. Behind
  BY <1>2 DEF Behind
<1>4. LogOrdered
  BY <1>2 DEF LogOrdered
<1> QED
  BY <1>1, <1>3, <1>4 DEF Ordered

\* A step of n looks only at n.
LEMMA RunOrdered ==
    ASSUME Ordered, NEW n \in Node, Run(n)
    PROVE  Ordered'
<1> DEFINE e == [gen |-> gen[n], seq |-> next[n]]
<1>1. Types
  BY DEF Ordered
<1>2. gen[n] \in Nat /\ next[n] \in Nat /\ e \in Entry /\ log[n] \in Seq(Entry)
  BY <1>1 DEF Types, Entry
<1>3. Append(log[n], e) \in Seq(Entry)
  BY <1>2
<1>4. /\ log'[n] = Append(log[n], e) /\ next'[n] = next[n] + 1 /\ gen' = gen
      /\ \A m \in Node \ {n} : log'[m] = log[m] /\ next'[m] = next[m]
  BY <1>1 DEF Types, Run
<1>5. Types'
  BY <1>1, <1>2, <1>3 DEF Types, Run
<1>6. /\ Len(log[n]) \in Nat /\ DOMAIN log[n] = 1 .. Len(log[n])
      /\ DOMAIN log'[n] = 1 .. Len(log[n]) + 1
      /\ \A i \in 1 .. Len(log[n]) : log'[n][i] = log[n][i]
      /\ log'[n][Len(log[n]) + 1] = e
  BY <1>2, <1>4
<1>7. \A i \in 1 .. Len(log[n]) : log[n][i].gen \in Nat /\ log[n][i].seq \in Nat
  <2>1. \A i \in 1 .. Len(log[n]) : log[n][i] \in Entry
    BY <1>2
  <2> QED
    BY <2>1 DEF Entry
<1>8. \A i \in 1 .. Len(log[n]) : \/ log[n][i].gen < gen[n]
                                  \/ log[n][i].gen = gen[n] /\ log[n][i].seq < next[n]
  BY <1>6 DEF Ordered, Behind
<1>9. e.gen = gen[n] /\ e.seq = next[n]
  OBVIOUS
<1> HIDE DEF e
<1>10. Behind'
  <2> SUFFICES ASSUME NEW m \in Node, NEW i \in DOMAIN log'[m]
               PROVE  \/ log'[m][i].gen < gen'[m]
                      \/ log'[m][i].gen = gen'[m] /\ log'[m][i].seq < next'[m]
    BY DEF Behind
  <2>1. CASE m = n
    <3>1. CASE i = Len(log[n]) + 1
      BY <1>2, <1>4, <1>6, <1>9, <2>1, <3>1
    <3>2. CASE i \in 1 .. Len(log[n])
      BY <1>2, <1>4, <1>6, <1>7, <1>8, <2>1, <3>2
    <3> QED
      BY <1>6, <2>1, <3>1, <3>2
  <2>2. CASE m # n
    BY <1>4, <2>2 DEF Ordered, Behind
  <2> QED
    BY <2>1, <2>2
<1>11. LogOrdered'
  <2> SUFFICES ASSUME NEW m \in Node, NEW i \in DOMAIN log'[m], NEW j \in DOMAIN log'[m], i < j
               PROVE  \/ log'[m][i].gen < log'[m][j].gen
                      \/ log'[m][i].gen = log'[m][j].gen /\ log'[m][i].seq < log'[m][j].seq
    BY DEF LogOrdered
  <2>1. CASE m # n
    BY <1>4, <2>1 DEF Ordered, LogOrdered
  <2>2. CASE m = n /\ j = Len(log[n]) + 1
    <3>1. i \in 1 .. Len(log[n])
      BY <1>6, <2>2
    <3> QED
      BY <1>6, <1>8, <1>9, <2>2, <3>1
  <2>3. CASE m = n /\ j # Len(log[n]) + 1
    <3>1. i \in 1 .. Len(log[n]) /\ j \in 1 .. Len(log[n])
      BY <1>6, <2>3
    <3> QED
      BY <1>6, <2>3, <3>1 DEF Ordered, LogOrdered
  <2> QED
    BY <2>1, <2>2, <2>3
<1> QED
  BY <1>5, <1>10, <1>11 DEF Ordered

\* Every step of the execution keeps the log ordered and behind the turn.
LEMMA NextOrdered == Ordered /\ [Next]_vars => Ordered'
<1> SUFFICES ASSUME Ordered, [Next]_vars PROVE Ordered'
  OBVIOUS
<1>1. Types /\ Behind /\ LogOrdered
  BY DEF Ordered
<1>2. \A m \in Node : \A i \in DOMAIN log[m] : log[m][i].gen \in Nat /\ log[m][i].seq \in Nat
  <2>1. \A m \in Node : \A i \in DOMAIN log[m] : log[m][i] \in Entry
    BY <1>1 DEF Types
  <2> QED
    BY <2>1 DEF Entry
<1>3. CASE UNCHANGED vars
  BY <1>1, <1>3 DEF vars, Ordered, Types, Behind, LogOrdered
<1>4. ASSUME NEW n \in Node, Refuse(n) PROVE Ordered'
  BY <1>1, <1>2, <1>4 DEF Refuse, Ordered, Types, Behind, LogOrdered
<1>5. ASSUME NEW n \in Node, NewSession(n) PROVE Ordered'
  BY <1>1, <1>2, <1>5 DEF NewSession, Ordered, Types, Behind, LogOrdered
<1>6. ASSUME NEW n \in Node, Reboot(n) PROVE Ordered'
  <2>1. Types'
    <3>1. <<>> \in Seq(Entry)
      OBVIOUS
    <3> QED
      BY <1>1, <1>6, <3>1 DEF Types, Reboot
  <2>2. /\ DOMAIN log'[n] = {}
        /\ \A m \in Node \ {n} : /\ log'[m] = log[m] /\ gen'[m] = gen[m]
                                 /\ next'[m] = next[m]
    BY <1>1, <1>6 DEF Types, Reboot
  <2> QED
    BY <1>1, <2>1, <2>2 DEF Ordered, Behind, LogOrdered
<1> QED
  BY <1>3, <1>4, <1>5, <1>6, RunOrdered DEF Next

\* In any run of the abstract receiver the log is ordered.
THEOREM LogIsOrdered == Spec => []LogOrdered
<1>1. Ordered => LogOrdered
  BY DEF Ordered
<1> QED
  BY <1>1, InitOrdered, NextOrdered, PTL DEF Spec
=============================================================================
