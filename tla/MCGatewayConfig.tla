-------------------------- MODULE MCGatewayConfig --------------------------
(* Instances of GatewayConfig for TLC. *)
EXTENDS GatewayConfig

CONSTANTS m1, m2, p1, v1, v2, g

NothingBaked == Absent
SecondBaked == [Absent EXCEPT ![m2] = [NoConfig EXCEPT ![p1] = v1]]
Only(v) == [NoConfig EXCEPT ![p1] = v]
BothVersions == {Only(v1), Only(v2)}
FirstVersion == {Only(v1)}
SecondVersion == {Only(v2)}
=============================================================================
