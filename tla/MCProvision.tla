---------------------------- MODULE MCProvision ----------------------------
(* The bounds under which Provision is checked.                             *)
EXTENDS Provision

CONSTANTS b1, b2, d1, d2

MCBootVersions == {b1, b2}
MCDataVersions == {d1, d2}
\* A success, an upgrade cut short, its retry cut short, and a last run.
MCInits == 4
\* One file removed from outside forces one full reset of a used machine.
MCLosses == 1
NoLoss == 0
=============================================================================
