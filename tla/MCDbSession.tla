------------------------------ MODULE MCDbSession ------------------------------
(* Small instances of DbSession for TLC.                                       *)
EXTENDS DbSession, TLC

CONSTANTS p1, p2

\* All lists inside four addresses that a scan can tell apart.
SomeLists == {<<1, 4>>, <<2, 3>>, <<3, 3>>}

OneList == {<<1, 1>>}

Children == Permutations(Procs)
===============================================================================
