---------------------------- MODULE MCServerMain ----------------------------
(* Instances of ServerMain for TLC. *)
EXTENDS ServerMain, TLC

CONSTANTS c1, c2

OneConn == {c1}
TwoConns == {c1, c2}

Symmetry == Permutations(Conn)
=============================================================================
