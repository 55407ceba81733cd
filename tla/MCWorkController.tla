-------------------------- MODULE MCWorkController --------------------------
(***************************************************************************)
(* Instances of WorkController: every task works in the same workspace,    *)
(* which is where leases are contended, or each in one of its own, and     *)
(* asks for write access unless the run lists it among the Readers.        *)
(***************************************************************************)
EXTENDS WorkController, TLC

CONSTANTS
    alpha,      \* the one workspace
    Readers,    \* tasks that ask for a shared lease
    Alike       \* tasks that differ in name only

OnePath == {alpha}
OwnPath == [t \in Task |-> t]
AllOnPath == [t \in Task |-> alpha]
ByReaders == [t \in Task |-> IF t \in Readers THEN "read" ELSE "write"]
Symmetry == Permutations(Alike)
==============================================================================
