----------------------------- MODULE LoaderService -----------------------------
(***************************************************************************)
(* What the programmer relies on when it orders a command of the loader:   *)
(* the command is carried out at most once, on its own sector, and is      *)
(* reported OK only if it was carried out.  One reported as failed may not *)
(* have begun, may be half done or done, and may go on after the report,   *)
(* until the target is reset.                                              *)
(***************************************************************************)
CONSTANTS
    Sector,      \* sectors of the target's MAIN flash
    Command,     \* commands of the loader
    NoCommand,
    Content,     \* what a sector may hold
    Garbage,     \* what it holds half way through a command
    Writes       \* Writes[c]: what command c leaves in which sector, or nothing

VARIABLES
    flash,       \* [Sector -> Content]
    ordered,     \* the command the target may still carry out
    progress,    \* how far it got
    answer       \* what the programmer knows of its last command

vars == <<flash, ordered, progress, answer>>

Init ==
    /\ flash \in [Sector -> Content]
    /\ ordered = NoCommand /\ progress = "NONE" /\ answer = "NONE"

Order(c) ==
    /\ answer # "PENDING"
    /\ ordered' = c /\ progress' = "NONE" /\ answer' = "PENDING"
    /\ UNCHANGED flash

Begin ==
    /\ ordered # NoCommand /\ progress = "NONE"
    /\ progress' = "BEGUN"
    /\ flash' = [s \in Sector |-> IF s \in DOMAIN Writes[ordered] THEN Garbage ELSE flash[s]]
    /\ UNCHANGED <<ordered, answer>>

\* The flash controller may take a bad write for a good one.
Finish ==
    /\ ordered # NoCommand /\ progress = "BEGUN"
    /\ progress' = "DONE"
    /\ \/ flash' = [s \in Sector |->
                        IF s \in DOMAIN Writes[ordered] THEN Writes[ordered][s] ELSE flash[s]]
       \/ UNCHANGED flash
    /\ UNCHANGED <<ordered, answer>>

Succeed == answer = "PENDING" /\ progress = "DONE" /\ answer' = "OK"
           /\ UNCHANGED <<flash, ordered, progress>>
Fail == answer = "PENDING" /\ answer' = "FAILED" /\ UNCHANGED <<flash, ordered, progress>>

\* The target is reset: what was not done by then never is, unless it is still wanted.
Revoke ==
    /\ answer # "PENDING"
    /\ ordered' = NoCommand
    /\ UNCHANGED <<flash, progress, answer>>

\* Another target, or the same after its power was gone.
Replace ==
    /\ flash' \in [Sector -> Content]
    /\ ordered' = NoCommand /\ progress' = "NONE"
    /\ UNCHANGED answer

Next ==
    \/ \E c \in Command : Order(c)
    \/ Begin \/ Finish \/ Succeed \/ Fail \/ Revoke \/ Replace

Spec == Init /\ [][Next]_vars
=============================================================================
