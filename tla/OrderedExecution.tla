--------------------------- MODULE OrderedExecution ---------------------------
(***************************************************************************)
(* What the transport promises the application of a board.  The frames of  *)
(* one receive session are numbered from 1; each number in turn is run,    *)
(* once, or refused without being run.  A new session starts again at 1,   *)
(* and a reboot forgets everything.                                        *)
(***************************************************************************)
EXTENDS Naturals, Sequences

CONSTANT Node

VARIABLES
    gen,      \* number of the receive session
    next,     \* the number whose turn it is
    log       \* session and number of the frames run since boot

vars == <<gen, next, log>>

Init ==
    /\ gen = [n \in Node |-> 1] /\ next = [n \in Node |-> 1]
    /\ log = [n \in Node |-> <<>>]

Run(n) ==
    /\ log' = [log EXCEPT ![n] = Append(@, [gen |-> gen[n], seq |-> next[n]])]
    /\ next' = [next EXCEPT ![n] = @ + 1]
    /\ UNCHANGED gen

Refuse(n) ==
    /\ next' = [next EXCEPT ![n] = @ + 1]
    /\ UNCHANGED <<gen, log>>

NewSession(n) ==
    /\ gen' = [gen EXCEPT ![n] = @ + 1]
    /\ next' = [next EXCEPT ![n] = 1]
    /\ UNCHANGED log

Reboot(n) ==
    /\ gen' = [gen EXCEPT ![n] = 1]
    /\ next' = [next EXCEPT ![n] = 1]
    /\ log' = [log EXCEPT ![n] = <<>>]

Next == \E n \in Node : Run(n) \/ Refuse(n) \/ NewSession(n) \/ Reboot(n)

Spec == Init /\ [][Next]_vars
-----------------------------------------------------------------------------
\* What the application relies on: frames are run in the order of their
\* sessions and, within a session, in the order of their numbers, none twice.
LogOrdered ==
    \A n \in Node : \A i, j \in DOMAIN log[n] :
        i < j => \/ log[n][i].gen < log[n][j].gen
                 \/ log[n][i].gen = log[n][j].gen /\ log[n][i].seq < log[n][j].seq
=============================================================================
