------------------------------- MODULE ProbeMC -------------------------------
(***************************************************************************)
(* Two images that share a sector of the target: a fills both sectors, b   *)
(* only the second.                                                        *)
(***************************************************************************)
EXTENDS Probe, TLC

CONSTANTS a, b, a1, a2, b1

MCData == a :> <<a1, a2>> @@ b :> <<b1>>
MCPlace == a :> <<1, 2>> @@ b :> <<2>>
=============================================================================
