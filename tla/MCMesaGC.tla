------------------------------ MODULE MCMesaGC ------------------------------
(* Three blocks, two variables, rooted one by one or together, and objects *)
(* with no pointer word or one: chains, sharing and cycles under changing  *)
(* roots.                                                                  *)
EXTENDS MesaGC

CONSTANTS a1, a2, a3, x, y, s1

MCAddrs == {a1, a2, a3}
MCLocals == {x, y}
MCFrames == {<<x>>, <<y>>, <<x, y>>}
MCDescs == {<<>>, <<s1>>}
Symmetry == Permutations(MCAddrs)
=============================================================================
