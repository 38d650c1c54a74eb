------------------------------ MODULE GatewayMC ------------------------------
(***************************************************************************)
(* Two images, the second of which begins like the first and goes on; the  *)
(* operations may be exchanged.                                            *)
(***************************************************************************)
EXTENDS Gateway, TLC

CONSTANTS a, b, p, q

MCData == a :> <<a>> @@ b :> <<a, b>>
MCSymmetry == Permutations({p, q})
=============================================================================
