--------------------------- MODULE MCFindEverywhere ---------------------------
(* Two connections, one of them in the workspace and with values that cannot *)
(* be encoded, and a declared reference.                                     *)
EXTENDS FindEverywhere, TLC

CONSTANTS c1, c2, r1

MCConns == {c1, c2}
MCScoped == {c1}
MCInexact == {c1}
MCRefs == {r1}
=============================================================================
