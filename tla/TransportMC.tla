----------------------------- MODULE TransportMC -----------------------------
(* Values of the constants of Transport that a .cfg cannot write. *)
EXTENDS Transport, TLC

CONSTANTS gateway, probe

MCPeer == (gateway :> probe) @@ (probe :> gateway)
Both(g, p) == (gateway :> g) @@ (probe :> p)

None == Both(0, 0)
Two == Both(2, 2)
OneDown == Both(1, 0)
TwoDown == Both(2, 0)
OneEpoch == Both(1, 1)
ProbeTwoEpochs == Both(1, 2)
GatewayTwoEpochs == Both(2, 1)
TwoEpochs == Both(2, 2)
GatewayRecovers == Both(1, 0)
ProbeRecovers == Both(0, 1)
BothRecover == Both(1, 1)
=============================================================================
