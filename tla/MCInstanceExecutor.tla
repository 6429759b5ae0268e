------------------------ MODULE MCInstanceExecutor ------------------------
\* Small instances of the worker: a packaged service and two adopted ones.
EXTENDS InstanceExecutor, TLC

CONSTANTS c1, c2, c3, pkg, ext, own

\* The processes of the adopted services are looked up.  An operator's process may
\* fit the one, the other has a directory to itself.
AdoptedAlike == [i \in External |-> IF i = own THEN {} ELSE {Foreign}]

Symmetry == Permutations({c1, c2, c3})
=============================================================================
