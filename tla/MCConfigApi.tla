---------------------------- MODULE MCConfigApi ----------------------------
(* Instances of ConfigApi for TLC. *)
EXTENDS ConfigApi

CONSTANTS m1, m2, p1, p2, v1, v2, c1, k1, k2

\* m1 is baked into the image with one profile; m2 exists only if it is added.
BakedOne == [m \in Models |-> [p \in Profiles |->
               IF m = m1 /\ p = p1 THEN v1 ELSE None]]

\* Bodies: either version of the baked profile, and a second profile.
Only(p, v) == [NoConfig EXCEPT ![p] = v]
ThreeBodies == {Only(p1, v1), Only(p1, v2), Only(p2, v1)}

Post(m, c, k) == [op |-> "add", model |-> m, body |-> c, key |-> k]
Put(m, c, k)  == [op |-> "replace", model |-> m, body |-> c, key |-> k]
Delete(m, k)  == [op |-> "delete", model |-> m, body |-> NoConfig, key |-> k]

\* A write that is retried, another one with the same key, writes with
\* another key or none, on a new model and on the baked one.
CallList ==
  <<Post(m2, Only(p1, v1), k1), Put(m2, Only(p1, v2), k1),
    Delete(m2, k2), Post(m1, Only(p2, v1), k2),
    Put(m2, Only(p2, v1), None), Delete(m1, None)>>
SixCalls == {CallList[i] : i \in 1..Len(CallList)}

\* Every multiset of three calls; which request makes which is immaterial.
AnyThree ==
  {[r \in Requests |-> CallList[f[r]]] :
     f \in {g \in [Requests -> 1..Len(CallList)] : g[1] <= g[2] /\ g[2] <= g[3]}}
=============================================================================
