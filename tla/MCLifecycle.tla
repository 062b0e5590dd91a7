----------------------------- MODULE MCLifecycle -----------------------------
(* The bounds under which Lifecycle is checked.                             *)
EXTENDS Lifecycle

\* maxTried and the socket loop are 100 in the code: two iterations already
\* separate the first attempt, a retry and exhaustion.
MCTries == 2
\* Exhaustion after the only attempt, for the runs with liveness.
MCOneTry == 1
=============================================================================
