--------------------------- MODULE MCImageStore ---------------------------
(* Small image stores for TLC: which manifests share a layer, which names  *)
(* share a short name.                                                     *)
EXTENDS StoreCatalog

CONSTANTS p1, p2, m1, m2, m3, c1, c2, c3, l1, l2, l3,
          localA, localB, remoteA, shortA, shortB,
          Commands1, Commands2     \* the commands run by p1 and by p2

\* m1 and m2 share their base layer l1; m3 has a layer of its own.
McConfigOf == [m \in Manifests |-> CASE m = m1 -> c1 [] m = m2 -> c2
                                     [] m = m3 -> c3]
McLayersOf == [m \in Manifests |-> CASE m = m1 -> {l1} [] m = m2 -> {l1, l2}
                                     [] m = m3 -> {l3}]
\* Manifests over one layer, which differ in their config only.
McOneLayer == [m \in Manifests |-> {l1}]
McShortOf == [n \in Names |-> IF n = localB THEN shortB ELSE shortA]
McLocalName == [s \in Shorts |-> IF s = shortB THEN localB ELSE localA]

McCommandsOf == [p \in Procs |-> IF p = p1 THEN Commands1 ELSE Commands2]
=============================================================================
