---------------------------- MODULE MCFileServer ----------------------------
(***************************************************************************)
(* Model-checking instance of FileServer: model values for the ids, keys  *)
(* and sentinels, and the bounds each configuration picks.                 *)
(***************************************************************************)
EXTENDS FileServer, TLC

CONSTANTS c1, c2, n1, n2, u1, u2, u3, u4, f1, f2, k1

MCConns1 == {c1}
MCConns2 == {c1, c2}
MCNames1 == {n1}
MCNames2 == {n1, n2}
MCUUIDs == {u1, u2, u3}
MCUUIDs4 == {u1, u2, u3, u4}
MCFileNames1 == {f1}
MCFileNames2 == {f1, f2}
MCPubKeys == {k1}

Symmetry == Permutations(MCUUIDs)
Symmetry4 == Permutations(MCUUIDs4)
=============================================================================
