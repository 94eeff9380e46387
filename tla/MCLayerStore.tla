---------------------------- MODULE MCLayerStore ----------------------------
(* Small layer stores for TLC: layers made here pack to the digest they    *)
(* had, a foreign layer packs to another one.                              *)
EXTENDS LayerStore

CONSTANTS p1, p2, w1, w2, partial, a, b, foreign, native

\* One process beside others only pulls; alone it runs both commands.
McCommandsOf == [p \in Procs |-> IF Procs = {p1} THEN {"pull", "build"}
                               ELSE IF p = p1 THEN {"pull"} ELSE {"build"}]

McRepack == [l \in Layers |-> IF l = foreign THEN native ELSE l]

\* An image made by another tool, and one with the same layer twice.
McForeign  == {<<foreign>>, <<foreign, foreign>>}
McOneForeign == {<<foreign>>}
McOwn      == {<<b>>}
=============================================================================
