---------------------------- MODULE MCHostFiles ----------------------------
(* The bounds under which HostFiles is checked.                             *)
EXTENDS HostFiles

CONSTANTS m1, m2

MCMachines == {m1, m2}
AtoB == [src |-> "/a", dst |-> "/b"]
BtoA == [src |-> "/b", dst |-> "/a"]
BtoB == [src |-> "/b", dst |-> Absent]
AtoIgn == [src |-> "/a", dst |-> IgnDir]
AtoSibling == [src |-> "/a", dst |-> IgnSibling]
\* For one machine an empty volume, a target given twice, a volume without a
\* target, one in the place of the script's directory, one with a name that
\* begins like it; for the other a target of the first with another source.
MCVolumeLists ==
    [m \in MCMachines |->
       IF m = m1 THEN {<<Empty, AtoB, BtoB>>, <<AtoIgn, BtoB>>}
                 ELSE {<<AtoSibling, BtoA, BtoB>>}]
=============================================================================
