------------------------------- MODULE MCPush -------------------------------
(* Small instances for TLC: two images over one layer, so that two pushes  *)
(* upload the same blob and change the same tag.                           *)
EXTENDS Push

CONSTANTS p1, p2, m1, m2, c1, c2, l1, t1

McConfigOf == [m \in Manifests |-> IF m = m1 THEN c1 ELSE c2]
McLayersOf == [m \in Manifests |-> {l1}]
=============================================================================
