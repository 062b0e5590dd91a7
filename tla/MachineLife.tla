---------------------------- MODULE MachineLife ----------------------------
(***************************************************************************)
(* What `ovm start` promises about one virtual machine, with no goroutine, *)
(* context or child process in sight: a machine is launched once, announced*)
(* only after it was launched, and from the moment the program begins to   *)
(* stop a machine that was announced it owes the guest one flush of its    *)
(* disks: it pays before it kills, and ends in debt only when something    *)
(* broke under it.                                                         *)
(***************************************************************************)
VARIABLES
    vm,         \* "absent", "running" or "gone"
    announced,  \* the host application was told Ready
    stopping,   \* a reason to stop has been recorded
    owed,       \* the guest has still to be flushed before a kill
    broken,     \* the vm or its network died without being killed
    over        \* "no", "ended" or "aborted" (a signal nobody caught)

vars == <<vm, announced, stopping, owed, broken, over>>

Init ==
    /\ vm = "absent"
    /\ announced = FALSE
    /\ stopping = FALSE
    /\ owed = FALSE
    /\ broken = FALSE
    /\ over = "no"

Launch ==
    /\ over = "no"
    /\ vm = "absent"
    /\ vm' = "running"
    /\ UNCHANGED <<announced, stopping, owed, broken, over>>

Announce ==
    /\ over = "no"
    /\ vm # "absent"
    /\ ~announced
    /\ announced' = TRUE
    /\ UNCHANGED <<vm, stopping, owed, broken, over>>

\* A machine that was announced is owed its flush; an earlier one may be.
BeginStop ==
    /\ over = "no"
    /\ ~stopping
    /\ stopping' = TRUE
    /\ owed' \in BOOLEAN
    /\ announced => owed'
    /\ UNCHANGED <<vm, announced, broken, over>>

Flush ==
    /\ over = "no"
    /\ owed
    /\ owed' = FALSE
    /\ UNCHANGED <<vm, announced, stopping, broken, over>>

Kill ==
    /\ over = "no"
    /\ stopping
    /\ ~owed
    /\ vm = "running"
    /\ vm' = "gone"
    /\ UNCHANGED <<announced, stopping, owed, broken, over>>

\* The vm or its network dies, also after the program has ended.
Break ==
    /\ \/ UNCHANGED vm
       \/ vm = "running" /\ vm' = "gone"
    /\ broken' = TRUE
    /\ UNCHANGED <<announced, stopping, owed, over>>

\* Nothing ends without a recorded reason once the vm was launched.
End ==
    /\ over = "no"
    /\ vm = "absent" \/ stopping
    /\ owed => broken
    /\ over' = "ended"
    /\ UNCHANGED <<vm, announced, stopping, owed, broken>>

Abort ==
    /\ over = "no"
    /\ over' = "aborted"
    /\ UNCHANGED <<vm, announced, stopping, owed, broken>>

Next == \/ Launch \/ Announce \/ BeginStop \/ Flush \/ Kill \/ Break
        \/ End \/ Abort

Spec == Init /\ [][Next]_vars
=============================================================================
