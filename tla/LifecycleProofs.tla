-------------------------- MODULE LifecycleProofs --------------------------
(***************************************************************************)
(* Proofs about Lifecycle for every value of its constants: the type       *)
(* invariant, its safety invariants, one action property, and that it      *)
(* implements MachineLife.  Everything rests on one inductive invariant,   *)
(* IInv, whose conjuncts are grouped by the code fact they record.         *)
(***************************************************************************)
EXTENDS Lifecycle, TLAPS

Reported(e) == \E i \in DOMAIN events : events[i] = e

\* The hook runs only after the group has failed, and leaves its sync step
\* only with an outcome; only it ends the children's context.
HookInv ==
    /\ pc.hook \in {"sync", "cancel", "done"} => cause # "none"
    /\ synced # "no" => cause # "none"
    /\ readyAtFail => sshReady
    /\ pc.hook \in {"cancel", "done"} /\ readyAtFail => synced # "no"
    /\ (\E c \in Child : child[c] = "killed") => pc.hook = "done"

\* Where the machine goroutine stands tells what it has done already.
StartInv ==
    /\ pc.start \in {"none", "spawned"} => pc.hook = "unset"
    /\ pc.start = "returned" => cause # "none"
    /\ sshReady =>
         pc.start \in {"podman", "ready", "raceWait", "returned"}
    /\ pc.start \in {"podman", "ready", "raceWait"} => sshReady
    /\ pc.start \in {"source", "vmm", "pidFile", "sshCheck", "sshCall",
                     "podman", "ready", "raceWait"}
         => sock = "ours" /\ "gvproxy" \in registered
    /\ pc.start \in {"sshCheck", "sshCall", "podman", "ready", "raceWait"}
         => "vmm" \in registered
    /\ pc.start = "waitSock" => sock # "stale"
    /\ pc.start \in {"none", "spawned", "gvproxy"}
         => child["gvproxy"] = "none"
    /\ pc.start \in {"none", "spawned", "gvproxy", "waitSock", "source",
                     "vmm"} => child["vmm"] = "none"
    /\ pc.start \in {"pidFile", "sshCheck", "sshCall", "podman", "ready",
                     "raceWait"} => child["vmm"] # "none"
    /\ child["vmm"] # "none" => sock = "ours"
    /\ child["vmm"] = "none" => guest = "none"

\* Where main stands tells whether the machine goroutine may still run.
MainInv ==
    /\ pc.main \in {"checkPPID", "load"} => pc.start = "none"
    /\ pc.main \in {"notifyError", "notifyExit", "exit", "exited"}
         => pc.start \in {"none", "returned"}
    /\ Reported("error") \/ Reported("Exit") =>
         pc.main \in {"notifyExit", "exit", "exited", "signalled"}
    /\ Reported("Ready") => pc.start \in {"raceWait", "returned"}
    /\ Reported("Ready") => sshReady

IInv ==
    /\ TypeOK
    /\ HookInv
    /\ StartInv
    /\ MainInv
    /\ NoExitDuringSync
    /\ NoReadyAfterError
    /\ StopReplyTruthful

-----------------------------------------------------------------------------
(* Type correctness *)

USE DEF Child, Goroutine

\* Two steps move several goroutines at once; what each does to pc is said once.
LEMMA LoadStep ==
  ASSUME pc \in PC, LoadMachine
  PROVE  /\ pc' \in PC
         /\ pc.main = "load"
         /\ pc'.hook = pc.hook
         /\ pc'.stop = pc.stop
         /\ \/ pc'.main = "wait" /\ pc'.start = "spawned"
            \/ pc'.main = "notifyError" /\ pc'.start = pc.start
         /\ Report("LoadMachineConfig")
         /\ UNCHANGED <<envVars, groupVars, vmVars, synced, procVars>>
<1>1. CASE pc' = [pc EXCEPT !.main = "wait", !.watch = "loop",
                            !.signal = "spawned", !.rest = "spawned",
                            !.start = "spawned"]
  <2> DEFINE p1 == [pc EXCEPT !.main = "wait"]
             p2 == [p1 EXCEPT !.watch = "loop"]
             p3 == [p2 EXCEPT !.signal = "spawned"]
             p4 == [p3 EXCEPT !.rest = "spawned"]
             p5 == [p4 EXCEPT !.start = "spawned"]
  <2>1. pc' = p5
    BY <1>1
  <2>2. p1 \in PC /\ p1.main = "wait" /\ p1.hook = pc.hook /\ p1.stop = pc.stop
    BY DEF PC
  <2> HIDE DEF p1
  <2>3. p2 \in PC /\ p2.main = p1.main /\ p2.hook = p1.hook /\ p2.stop = p1.stop
    BY <2>2 DEF PC
  <2> HIDE DEF p2
  <2>4. p3 \in PC /\ p3.main = p2.main /\ p3.hook = p2.hook /\ p3.stop = p2.stop
    BY <2>3 DEF PC
  <2> HIDE DEF p3
  <2>5. p4 \in PC /\ p4.main = p3.main /\ p4.hook = p3.hook /\ p4.stop = p3.stop
    BY <2>4 DEF PC
  <2> HIDE DEF p4
  <2>6. /\ p5 \in PC /\ p5.main = p4.main /\ p5.hook = p4.hook
        /\ p5.stop = p4.stop /\ p5.start = "spawned"
    BY <2>5 DEF PC
  <2> HIDE DEF p5
  <2>7. QED
    BY <2>1, <2>2, <2>3, <2>4, <2>5, <2>6 DEF LoadMachine
<1>2. CASE pc' = [pc EXCEPT !.main = "notifyError"]
  <2>1. pc' \in PC
    BY <1>2 DEF PC
  <2>2. /\ pc'.hook = pc.hook
        /\ pc'.stop = pc.stop
        /\ pc'.main = "notifyError"
        /\ pc'.start = pc.start
    BY <1>2 DEF PC
  <2>3. QED
    BY <2>1, <2>2 DEF LoadMachine
<1>3. QED
  BY <1>1, <1>2 DEF LoadMachine

LEMMA BeginStep ==
  ASSUME pc \in PC, BeginStart
  PROVE  /\ pc' \in PC
         /\ pc.start = "spawned"
         /\ pc'.main = pc.main
         /\ pc'.stop = pc.stop
         /\ \/ /\ pc'.start = "gvproxy"
               /\ pc'.hook = "armed"
               /\ UNCHANGED groupVars
            \/ /\ pc'.start = "returned"
               /\ pc'.hook = pc.hook
               /\ Fail("start")
         /\ UNCHANGED <<envVars, vmVars, synced, procVars, events>>
<1>1. CASE /\ pc' = [pc EXCEPT !.start = "gvproxy", !.hook = "armed"]
           /\ UNCHANGED groupVars
  <2> DEFINE p1 == [pc EXCEPT !.start = "gvproxy"]
             p2 == [p1 EXCEPT !.hook = "armed"]
  <2>1. pc' = p2
    BY <1>1
  <2>2. /\ p1 \in PC /\ p1.main = pc.main /\ p1.stop = pc.stop
        /\ p1.start = "gvproxy"
    BY DEF PC
  <2> HIDE DEF p1
  <2>3. /\ p2 \in PC /\ p2.main = p1.main /\ p2.stop = p1.stop
        /\ p2.start = p1.start /\ p2.hook = "armed"
    BY <2>2 DEF PC
  <2> HIDE DEF p2
  <2>4. QED
    BY <1>1, <2>1, <2>2, <2>3 DEF BeginStart
<1>2. CASE StartReturnsError
  <2>1. pc' \in PC
    BY <1>2 DEF PC, StartReturnsError
  <2>2. /\ pc'.main = pc.main
        /\ pc'.stop = pc.stop
        /\ pc'.hook = pc.hook
        /\ pc'.start = "returned"
    BY <1>2 DEF PC, StartReturnsError
  <2>3. QED
    BY <1>2, <2>1, <2>2 DEF BeginStart, StartReturnsError
<1>3. QED
  BY <1>1, <1>2 DEF BeginStart

LEMMA TypeInit == Init => TypeOK
<1> SUFFICES ASSUME Init PROVE TypeOK
    OBVIOUS
<1>1. pc \in PC
  BY DEF Init, PC
<1>2. child \in [Child -> {"none", "running", "died", "killed"}]
  BY DEF Init
<1>3. events \in Seq(Event)
  BY DEF Init
<1>4. QED
  BY <1>1, <1>2, <1>3 DEF Init, TypeOK

LEMMA TypeNext == TypeOK /\ [Next]_vars => TypeOK'
<1> SUFFICES ASSUME TypeOK, [Next]_vars
             PROVE  TypeOK'
    OBVIOUS
<1> USE DEF TypeOK, PC, envVars, groupVars, vmVars, procVars
<1>1. CASE Main
  <2>1. CASE CheckPPID
    BY <2>1 DEF CheckPPID
  <2>2. CASE LoadMachine
    <3>1. events' \in Seq(Event)
      BY <2>2, LoadStep DEF Report, Event
    <3>2. QED
      BY <2>2, <3>1, LoadStep
  <2>3. CASE GroupWait
    BY <2>3 DEF GroupWait
  <2>4. CASE NotifyError
    BY <2>4 DEF NotifyError, Report, Event
  <2>5. CASE NotifyExit
    BY <2>5 DEF NotifyExit, Report, Event
  <2>6. CASE ProcessExit
    BY <2>6 DEF ProcessExit
  <2>7. QED
    BY <1>1, <2>1, <2>2, <2>3, <2>4, <2>5, <2>6 DEF Main
<1>2. CASE WatchPPID
  BY <1>2 DEF WatchPPID, WatchTick, Fail
<1>3. CASE ListenSignal
  BY <1>3 DEF ListenSignal, Fail
<1>4. CASE Rest
  BY <1>4 DEF Rest, RestListen, RestServeFails, RestShutdown, RestDrained,
              Fail
<1>5. CASE Start
  <2> USE DEF StartReturnsError, StartGoto, Fail
  <2>1. CASE BeginStart
    BY <2>1, BeginStep
  <2>2. CASE GvproxyPrepareFails
    BY <2>2 DEF GvproxyPrepareFails
  <2>3. CASE GvproxyStart
    BY <2>3 DEF GvproxyStart, RemoveEndpoint, Report, Event
  <2>4. CASE WaitForSocket
    BY <2>4 DEF WaitForSocket, RegistryCmd
  <2>5. CASE ExtractSourceCodeDisk
    BY <2>5 DEF ExtractSourceCodeDisk
  <2>6. CASE VMMPrepareFails
    BY <2>6 DEF VMMPrepareFails
  <2>7. CASE VMMStart
    BY <2>7 DEF VMMStart, Report, Event
  <2>8. CASE WritePidFile
    BY <2>8 DEF WritePidFile, RegistryCmd
  <2>9. CASE WaitSSHStarted
    <3>1. pc' \in PC
      BY <2>9 DEF WaitSSHStarted, LeaveSSHWait
    <3>2. tries' \in Nat
      BY <2>9 DEF WaitSSHStarted, LeaveSSHWait
    <3>3. sshReady' \in BOOLEAN
      BY <2>9 DEF WaitSSHStarted, LeaveSSHWait
    <3>4. QED
      BY <2>9, <3>1, <3>2, <3>3 DEF WaitSSHStarted
  <2>10. CASE WaitPodmanReady
    BY <2>10 DEF WaitPodmanReady
  <2>11. CASE NotifyReady
    BY <2>11 DEF NotifyReady, Report, Event
  <2>12. CASE RaceWait
    BY <2>12 DEF RaceWait
  <2>13. QED
    BY <1>5, <2>1, <2>2, <2>3, <2>4, <2>5, <2>6, <2>7, <2>8, <2>9, <2>10,
       <2>11, <2>12 DEF Start
<1>6. CASE Hook
  BY <1>6 DEF Hook, HookFire, HookDoSync, HookCancel, Report, Event
<1>7. CASE Stop
  BY <1>7 DEF Stop, StopRequest, StopPrepare, StopPoweroff, StopRefused
<1>8. CASE \E c \in Child : KillChild(c)
  BY <1>8 DEF KillChild, GuestWithout
<1>9. CASE Environment
  <2> UNCHANGED <<groupVars, vmVars, synced, registered, events>>
    BY <1>9 DEF Environment
  <2>1. CASE ParentExits
    <3>1. ppidAlive' \in BOOLEAN
      BY <2>1 DEF ParentExits
    <3>2. QED
      BY <2>1, <3>1 DEF ParentExits
  <2>2. CASE OSSignal
    <3>1. pc' \in PC
      BY <2>2 DEF OSSignal
    <3>2. sigPending' \in BOOLEAN
      BY <2>2 DEF OSSignal
    <3>3. QED
      BY <2>2, <3>1, <3>2 DEF OSSignal
  <2>3. CASE GvproxyListens
    BY <2>3 DEF GvproxyListens
  <2>4. CASE GuestBoots
    BY <2>4 DEF GuestBoots
  <2>5. CASE GuestHangs
    BY <2>5 DEF GuestHangs
  <2>6. CASE \E c \in Child : ChildDies(c)
    BY <2>6 DEF ChildDies, GuestWithout
  <2>7. QED
    BY <1>9, <2>1, <2>2, <2>3, <2>4, <2>5, <2>6 DEF Environment
<1>10. CASE Terminated \/ UNCHANGED vars
  <2>1. UNCHANGED <<envVars, groupVars, vmVars, procVars>>
    BY <1>10 DEF Terminated, vars
  <2>2. UNCHANGED <<pc, synced, events>>
    BY <1>10 DEF Terminated, vars
  <2>3. QED
    BY <2>1, <2>2
<1>11. QED
  BY <1>1, <1>2, <1>3, <1>4, <1>5, <1>6, <1>7, <1>8, <1>9, <1>10 DEF Next

\* Every variable of `ovm start` keeps to the values its code gives it.
THEOREM TypeCorrect == Spec => []TypeOK
BY TypeInit, TypeNext, PTL DEF Spec

-----------------------------------------------------------------------------
(* What reporting an event does to the sequence of events *)

LEMMA ReportAdds ==
  ASSUME TypeOK, NEW e \in Event, Report(e)
  PROVE  /\ \A x : Reported(x)' <=> Reported(x) \/ x = e
         /\ NoReadyAfterError
            /\ (e = "Ready" => ~Reported("error") /\ ~Reported("Exit"))
            => NoReadyAfterError'
<1>1. /\ events \in Seq(Event)
      /\ events' = Append(events, e)
  BY DEF TypeOK, Report
<1>2. /\ DOMAIN events = 1 .. Len(events)
      /\ DOMAIN events' = 1 .. (Len(events) + 1)
      /\ Len(events) \in Nat
  BY <1>1
<1>3. \A i \in DOMAIN events : events'[i] = events[i]
  BY <1>1, <1>2
<1>4. events'[Len(events) + 1] = e
  BY <1>1, <1>2
<1>5. \A i \in DOMAIN events' : i \in DOMAIN events \/ i = Len(events) + 1
  BY <1>2
<1>6. \A x : Reported(x)' <=> Reported(x) \/ x = e
  BY <1>2, <1>3, <1>4, <1>5 DEF Reported
<1>7. ASSUME NoReadyAfterError,
             e = "Ready" => ~Reported("error") /\ ~Reported("Exit"),
             NEW i \in DOMAIN events', NEW j \in DOMAIN events',
             events'[i] = "Ready", events'[j] \in {"error", "Exit"}
      PROVE  i < j
  <2>1. CASE i \in DOMAIN events /\ j \in DOMAIN events
    BY <1>3, <1>7, <2>1 DEF NoReadyAfterError
  <2>2. CASE i \in DOMAIN events /\ j = Len(events) + 1
    BY <1>2, <2>2
  <2>3. CASE i = Len(events) + 1
    BY <1>3, <1>4, <1>5, <1>7, <2>3 DEF Reported
  <2>4. QED
    BY <1>5, <2>1, <2>2, <2>3
<1>8. QED
  BY <1>6, <1>7 DEF NoReadyAfterError

LEMMA NoReport ==
  ASSUME UNCHANGED events
  PROVE  /\ \A x : Reported(x)' <=> Reported(x)
         /\ NoReadyAfterError => NoReadyAfterError'
BY DEF Reported, NoReadyAfterError

-----------------------------------------------------------------------------
(* The inductive invariant *)

LEMMA InvInit == Init => IInv
<1> SUFFICES ASSUME Init PROVE IInv
    OBVIOUS
<1>1. TypeOK
  BY TypeInit
<1>2. \A e : ~Reported(e)
  BY DEF Init, Reported
<1>3. HookInv /\ StartInv /\ NoExitDuringSync /\ StopReplyTruthful
  BY DEF Init, HookInv, StartInv, NoExitDuringSync, StopReplyTruthful
<1>4. MainInv
  BY <1>2 DEF Init, MainInv
<1>5. NoReadyAfterError
  BY DEF Init, NoReadyAfterError
<1>6. QED
  BY <1>1, <1>3, <1>4, <1>5 DEF IInv

LEMMA InvMain == IInv /\ Main => IInv'
<1> SUFFICES ASSUME IInv, Main
             PROVE  IInv'
    OBVIOUS
<1>1. TypeOK'
  BY TypeNext DEF IInv, Next
<1> USE DEF IInv, TypeOK, PC, envVars, groupVars, vmVars, procVars
<1>2. CASE CheckPPID
  <2> USE <1>2 DEF CheckPPID
  <2>1. UNCHANGED events
    OBVIOUS
  <2>2. HookInv' /\ NoExitDuringSync' /\ StopReplyTruthful'
    BY DEF HookInv, StartInv, NoExitDuringSync, StopReplyTruthful, Exited
  <2>3. StartInv'
    BY DEF StartInv, HookInv, MainInv
  <2>4. MainInv' /\ NoReadyAfterError'
    BY <2>1, NoReport DEF MainInv, StartInv
  <2>5. QED
    BY <1>1, <2>2, <2>3, <2>4 DEF IInv
<1>3. CASE LoadMachine
  <2>1. /\ pc.main = "load"
        /\ UNCHANGED <<pc.hook, pc.stop>>
        /\ \/ pc'.main = "wait" /\ pc'.start = "spawned"
           \/ pc'.main = "notifyError" /\ pc'.start = pc.start
        /\ UNCHANGED <<envVars, groupVars, vmVars, synced, procVars>>
    BY <1>3, LoadStep
  <2>2. Report("LoadMachineConfig")
    BY <1>3 DEF LoadMachine
  <2>3. /\ \A x : Reported(x)' <=> Reported(x) \/ x = "LoadMachineConfig"
        /\ NoReadyAfterError'
    BY <2>1, <2>2, ReportAdds DEF Event, MainInv
  <2>4. HookInv'
    BY <2>1 DEF HookInv, StartInv, MainInv
  <2>5. NoExitDuringSync'
    BY <2>1 DEF HookInv, StartInv, NoExitDuringSync, MainInv
  <2>6. StopReplyTruthful'
    BY <2>1 DEF StartInv, StopReplyTruthful, Exited
  <2>7. StartInv'
    BY <2>1 DEF StartInv, MainInv
  <2>8. MainInv'
    BY <2>1, <2>3 DEF MainInv, StartInv
  <2>9. QED
    BY <1>1, <2>3, <2>4, <2>5, <2>6, <2>7, <2>8 DEF IInv
<1>4. CASE GroupWait
  <2> USE <1>4 DEF GroupWait, AllReturned
  <2>1. UNCHANGED events
    OBVIOUS
  <2>2. HookInv' /\ NoExitDuringSync' /\ StopReplyTruthful'
    BY DEF HookInv, StartInv, NoExitDuringSync, StopReplyTruthful, Exited
  <2>3. StartInv'
    BY DEF StartInv, HookInv, MainInv
  <2>4. MainInv' /\ NoReadyAfterError'
    BY <2>1, NoReport DEF MainInv, StartInv
  <2>5. QED
    BY <1>1, <2>2, <2>3, <2>4 DEF IInv
<1>5. CASE NotifyError
  <2> USE <1>5 DEF NotifyError
  <2>1. /\ \A x : Reported(x)' <=> Reported(x) \/ x = "error"
        /\ NoReadyAfterError'
    BY ReportAdds DEF Event, MainInv
  <2>2. HookInv' /\ NoExitDuringSync' /\ StopReplyTruthful'
    BY DEF HookInv, StartInv, NoExitDuringSync, StopReplyTruthful, Exited
  <2>3. StartInv'
    BY DEF StartInv, HookInv, MainInv
  <2>4. MainInv' /\ NoReadyAfterError'
    BY <2>1 DEF MainInv, StartInv
  <2>5. QED
    BY <1>1, <2>2, <2>3, <2>4 DEF IInv
<1>6. CASE NotifyExit
  <2> USE <1>6 DEF NotifyExit
  <2>1. /\ \A x : Reported(x)' <=> Reported(x) \/ x = "Exit"
        /\ NoReadyAfterError'
    BY ReportAdds DEF Event, MainInv
  <2>2. HookInv' /\ NoExitDuringSync' /\ StopReplyTruthful'
    BY DEF HookInv, StartInv, NoExitDuringSync, StopReplyTruthful, Exited
  <2>3. StartInv'
    BY DEF StartInv, HookInv, MainInv
  <2>4. MainInv' /\ NoReadyAfterError'
    BY <2>1 DEF MainInv, StartInv
  <2>5. QED
    BY <1>1, <2>2, <2>3, <2>4 DEF IInv
<1>7. CASE ProcessExit
  <2> USE <1>7 DEF ProcessExit
  <2>1. UNCHANGED events
    OBVIOUS
  <2>2. HookInv' /\ NoExitDuringSync' /\ StopReplyTruthful'
    BY DEF HookInv, StartInv, NoExitDuringSync, StopReplyTruthful, Exited
  <2>3. StartInv'
    BY DEF StartInv, HookInv, MainInv
  <2>4. MainInv' /\ NoReadyAfterError'
    BY <2>1, NoReport DEF MainInv, StartInv
  <2>5. QED
    BY <1>1, <2>2, <2>3, <2>4 DEF IInv
<1>8. QED
  BY <1>2, <1>3, <1>4, <1>5, <1>6, <1>7 DEF Main

LEMMA InvRest == IInv /\ Rest => IInv'
<1> SUFFICES ASSUME IInv, Rest
             PROVE  IInv'
    OBVIOUS
<1>1. TypeOK'
  BY TypeNext DEF IInv, Next
<1> USE DEF IInv, TypeOK, PC, envVars, groupVars, vmVars, procVars
<1>2. CASE RestListen
  <2> USE <1>2 DEF RestListen, Fail
  <2>1. UNCHANGED events
    OBVIOUS
  <2>2. HookInv' /\ NoExitDuringSync' /\ StopReplyTruthful'
    BY DEF HookInv, StartInv, NoExitDuringSync, StopReplyTruthful, Exited
  <2>3. StartInv'
    BY DEF StartInv, HookInv, MainInv
  <2>4. MainInv' /\ NoReadyAfterError'
    BY <2>1, NoReport DEF MainInv, StartInv
  <2>5. QED
    BY <1>1, <2>2, <2>3, <2>4 DEF IInv
<1>3. CASE RestServeFails
  <2> USE <1>3 DEF RestServeFails, Fail
  <2>1. UNCHANGED events
    OBVIOUS
  <2>2. HookInv' /\ NoExitDuringSync' /\ StopReplyTruthful'
    BY DEF HookInv, StartInv, NoExitDuringSync, StopReplyTruthful, Exited
  <2>3. StartInv'
    BY DEF StartInv, HookInv, MainInv
  <2>4. MainInv' /\ NoReadyAfterError'
    BY <2>1, NoReport DEF MainInv, StartInv
  <2>5. QED
    BY <1>1, <2>2, <2>3, <2>4 DEF IInv
<1>4. CASE RestShutdown
  <2> USE <1>4 DEF RestShutdown
  <2>1. UNCHANGED events
    OBVIOUS
  <2>2. HookInv' /\ NoExitDuringSync' /\ StopReplyTruthful'
    BY DEF HookInv, StartInv, NoExitDuringSync, StopReplyTruthful, Exited
  <2>3. StartInv'
    BY DEF StartInv, HookInv, MainInv
  <2>4. MainInv' /\ NoReadyAfterError'
    BY <2>1, NoReport DEF MainInv, StartInv
  <2>5. QED
    BY <1>1, <2>2, <2>3, <2>4 DEF IInv
<1>5. CASE RestDrained
  <2> USE <1>5 DEF RestDrained
  <2>1. UNCHANGED events
    OBVIOUS
  <2>2. HookInv' /\ NoExitDuringSync' /\ StopReplyTruthful'
    BY DEF HookInv, StartInv, NoExitDuringSync, StopReplyTruthful, Exited
  <2>3. StartInv'
    BY DEF StartInv, HookInv, MainInv
  <2>4. MainInv' /\ NoReadyAfterError'
    BY <2>1, NoReport DEF MainInv, StartInv
  <2>5. QED
    BY <1>1, <2>2, <2>3, <2>4 DEF IInv
<1>6. QED
  BY <1>2, <1>3, <1>4, <1>5 DEF Rest

LEMMA InvStart == IInv /\ Start => IInv'
<1> SUFFICES ASSUME IInv, Start
             PROVE  IInv'
    OBVIOUS
<1>1. TypeOK'
  BY TypeNext DEF IInv, Next
<1> Running
  BY DEF Start
<1> USE DEF IInv, TypeOK, PC, envVars, groupVars, vmVars, procVars
<1>2. CASE BeginStart
  <2>1. /\ pc.start = "spawned"
        /\ UNCHANGED <<pc.main, pc.stop>>
        /\ \/ /\ pc'.start = "gvproxy"
              /\ pc'.hook = "armed"
              /\ UNCHANGED groupVars
           \/ /\ pc'.start = "returned"
              /\ UNCHANGED pc.hook
              /\ Fail("start")
        /\ UNCHANGED <<envVars, vmVars, synced, procVars, events>>
    BY <1>2, BeginStep
  <2> USE DEF Fail
  <2>2. HookInv'
    BY <2>1 DEF HookInv, StartInv
  <2>3. NoExitDuringSync'
    BY <2>1 DEF HookInv, StartInv, NoExitDuringSync, MainInv
  <2>4. StopReplyTruthful'
    BY <2>1 DEF StartInv, StopReplyTruthful, Exited
  <2>5. StartInv'
    BY <2>1 DEF StartInv, HookInv
  <2>6. MainInv' /\ NoReadyAfterError'
    BY <2>1, NoReport DEF MainInv, StartInv
  <2>7. QED
    BY <1>1, <2>2, <2>3, <2>4, <2>5, <2>6 DEF IInv
<1>3. CASE GvproxyPrepareFails
  <2> USE <1>3 DEF GvproxyPrepareFails, StartReturnsError, StartGoto, Fail
  <2>1. UNCHANGED events
    OBVIOUS
  <2>2. HookInv' /\ NoExitDuringSync' /\ StopReplyTruthful'
    BY DEF HookInv, StartInv, NoExitDuringSync, StopReplyTruthful, Exited
  <2>3. StartInv'
    BY DEF StartInv, HookInv, MainInv
  <2>4. MainInv' /\ NoReadyAfterError'
    BY <2>1, NoReport DEF MainInv, StartInv
  <2>5. QED
    BY <1>1, <2>2, <2>3, <2>4 DEF IInv
<1>4. CASE GvproxyStart
  <2> USE <1>4 DEF GvproxyStart, RemoveEndpoint,
                   StartReturnsError, StartGoto, Fail
  <2>1. /\ \A x : Reported(x)' <=> Reported(x) \/ x = "StartGvProxy"
        /\ NoReadyAfterError'
    BY ReportAdds DEF Event, MainInv
  <2>2. HookInv' /\ NoExitDuringSync' /\ StopReplyTruthful'
    <3>1. HookInv'
      BY DEF HookInv, StartInv
    <3>2. NoExitDuringSync'
      BY DEF HookInv, StartInv, NoExitDuringSync, MainInv
    <3>3. StopReplyTruthful'
      BY DEF StartInv, StopReplyTruthful, Exited
    <3>4. QED
      BY <3>1, <3>2, <3>3
  <2>3. StartInv'
    BY DEF StartInv, HookInv, MainInv
  <2>4. MainInv' /\ NoReadyAfterError'
    BY <2>1 DEF MainInv, StartInv
  <2>5. QED
    BY <1>1, <2>2, <2>3, <2>4 DEF IInv
<1>5. CASE WaitForSocket
  <2> USE <1>5 DEF WaitForSocket, RegistryCmd, SocketExists,
                   StartReturnsError, StartGoto, Fail
  <2>1. UNCHANGED events
    OBVIOUS
  <2>2. HookInv' /\ NoExitDuringSync' /\ StopReplyTruthful'
    BY DEF HookInv, StartInv, NoExitDuringSync, StopReplyTruthful, Exited
  <2>3. StartInv'
    BY DEF StartInv, HookInv, MainInv
  <2>4. MainInv' /\ NoReadyAfterError'
    BY <2>1, NoReport DEF MainInv, StartInv
  <2>5. QED
    BY <1>1, <2>2, <2>3, <2>4 DEF IInv
<1>6. CASE ExtractSourceCodeDisk
  <2> USE <1>6 DEF ExtractSourceCodeDisk, StartReturnsError, StartGoto, Fail
  <2>1. UNCHANGED events
    OBVIOUS
  <2>2. HookInv' /\ NoExitDuringSync' /\ StopReplyTruthful'
    BY DEF HookInv, StartInv, NoExitDuringSync, StopReplyTruthful, Exited
  <2>3. StartInv'
    BY DEF StartInv, HookInv, MainInv
  <2>4. MainInv' /\ NoReadyAfterError'
    BY <2>1, NoReport DEF MainInv, StartInv
  <2>5. QED
    BY <1>1, <2>2, <2>3, <2>4 DEF IInv
<1>7. CASE VMMPrepareFails
  <2> USE <1>7 DEF VMMPrepareFails, StartReturnsError, StartGoto, Fail
  <2>1. UNCHANGED events
    OBVIOUS
  <2>2. HookInv' /\ NoExitDuringSync' /\ StopReplyTruthful'
    BY DEF HookInv, StartInv, NoExitDuringSync, StopReplyTruthful, Exited
  <2>3. StartInv'
    BY DEF StartInv, HookInv, MainInv
  <2>4. MainInv' /\ NoReadyAfterError'
    BY <2>1, NoReport DEF MainInv, StartInv
  <2>5. QED
    BY <1>1, <2>2, <2>3, <2>4 DEF IInv
<1>8. CASE VMMStart
  <2> USE <1>8 DEF VMMStart, StartReturnsError, StartGoto, Fail
  <2>1. /\ \A x : Reported(x)' <=> Reported(x) \/ x = "StartVMM"
        /\ NoReadyAfterError'
    BY ReportAdds DEF Event, MainInv
  <2>2. HookInv' /\ NoExitDuringSync' /\ StopReplyTruthful'
    BY DEF HookInv, StartInv, NoExitDuringSync, StopReplyTruthful, Exited
  <2>3. StartInv'
    BY DEF StartInv, HookInv, MainInv
  <2>4. MainInv' /\ NoReadyAfterError'
    BY <2>1 DEF MainInv, StartInv
  <2>5. QED
    BY <1>1, <2>2, <2>3, <2>4 DEF IInv
<1>9. CASE WritePidFile
  <2> USE <1>9 DEF WritePidFile, RegistryCmd,
                   StartReturnsError, StartGoto, Fail
  <2>1. UNCHANGED events
    OBVIOUS
  <2>2. HookInv' /\ NoExitDuringSync' /\ StopReplyTruthful'
    BY DEF HookInv, StartInv, NoExitDuringSync, StopReplyTruthful, Exited
  <2>3. StartInv'
    BY DEF StartInv, HookInv, MainInv
  <2>4. MainInv' /\ NoReadyAfterError'
    BY <2>1, NoReport DEF MainInv, StartInv
  <2>5. QED
    BY <1>1, <2>2, <2>3, <2>4 DEF IInv
<1>10. CASE WaitSSHStarted
  <2> USE <1>10 DEF WaitSSHStarted, LeaveSSHWait, StartGoto
  <2>1. UNCHANGED events
    OBVIOUS
  <2>2. HookInv' /\ NoExitDuringSync' /\ StopReplyTruthful'
    BY DEF HookInv, StartInv, NoExitDuringSync, StopReplyTruthful, Exited
  <2>3. StartInv'
    <3>1. /\ pc.start \in {"sshCheck", "sshCall"}
          /\ pc'.start \in {"sshCheck", "sshCall", "podman"}
          /\ sshReady' <=> sshReady \/ pc'.start = "podman"
          /\ UNCHANGED <<cause, sock, registered, child, guest>>
      OBVIOUS
    <3>2. QED
      BY ONLY <3>1, IInv DEF IInv, StartInv
  <2>4. MainInv' /\ NoReadyAfterError'
    BY <2>1, NoReport DEF MainInv, StartInv
  <2>5. QED
    BY <1>1, <2>2, <2>3, <2>4 DEF IInv
<1>11. CASE WaitPodmanReady
  <2> USE <1>11 DEF WaitPodmanReady, StartGoto
  <2>1. UNCHANGED events
    OBVIOUS
  <2>2. HookInv' /\ NoExitDuringSync' /\ StopReplyTruthful'
    BY DEF HookInv, StartInv, NoExitDuringSync, StopReplyTruthful, Exited
  <2>3. StartInv'
    <3>1. /\ pc.start = "podman"
          /\ pc'.start = "ready"
          /\ UNCHANGED <<sshReady, cause, sock, registered, child, guest>>
      OBVIOUS
    <3>2. sshReady
      BY DEF StartInv
    <3>3. QED
      BY ONLY <3>1, <3>2, IInv DEF IInv, StartInv
  <2>4. MainInv' /\ NoReadyAfterError'
    BY <2>1, NoReport DEF MainInv, StartInv
  <2>5. QED
    BY <1>1, <2>2, <2>3, <2>4 DEF IInv
<1>12. CASE NotifyReady
  <2> USE <1>12 DEF NotifyReady, StartGoto
  <2>1. /\ \A x : Reported(x)' <=> Reported(x) \/ x = "Ready"
        /\ NoReadyAfterError'
    <3>1. ~Reported("error") /\ ~Reported("Exit")
      BY DEF MainInv, Running
    <3>2. QED
      BY <3>1, ReportAdds DEF Event
  <2>2. HookInv' /\ NoExitDuringSync' /\ StopReplyTruthful'
    BY DEF HookInv, StartInv, NoExitDuringSync, StopReplyTruthful, Exited
  <2>3. StartInv'
    BY DEF StartInv, HookInv, MainInv
  <2>4. MainInv' /\ NoReadyAfterError'
    BY <2>1 DEF MainInv, StartInv
  <2>5. QED
    BY <1>1, <2>2, <2>3, <2>4 DEF IInv
<1>13. CASE RaceWait
  <2> USE <1>13 DEF RaceWait, SomeCmdExited, Exited,
                    StartReturnsError, StartGoto, Fail
  <2>1. UNCHANGED events
    OBVIOUS
  <2>2. HookInv' /\ NoExitDuringSync' /\ StopReplyTruthful'
    BY DEF HookInv, StartInv, NoExitDuringSync, StopReplyTruthful, Exited
  <2>3. StartInv'
    BY DEF StartInv, HookInv, MainInv
  <2>4. MainInv' /\ NoReadyAfterError'
    BY <2>1, NoReport DEF MainInv, StartInv
  <2>5. QED
    BY <1>1, <2>2, <2>3, <2>4 DEF IInv
<1>14. QED
  BY <1>2, <1>3, <1>4, <1>5, <1>6, <1>7, <1>8, <1>9,
     <1>10, <1>11, <1>12, <1>13 DEF Start

LEMMA InvHook == IInv /\ Hook => IInv'
<1> SUFFICES ASSUME IInv, Hook
             PROVE  IInv'
    OBVIOUS
<1>1. TypeOK'
  BY TypeNext DEF IInv, Next
<1> Running
  BY DEF Hook
<1> USE DEF IInv, TypeOK, PC, envVars, groupVars, vmVars, procVars
<1>2. CASE HookFire
  <2> USE <1>2 DEF HookFire, NeedsSync, GroupCtxDone
  <2>1. /\ \A x : Reported(x)' => Reported(x) \/ x = "SyncMachineDisk"
        /\ NoReadyAfterError'
    <3>1. CASE sshReady
      BY <3>1, ReportAdds DEF Event
    <3>2. CASE ~sshReady
      BY <3>2, NoReport
    <3>3. QED
      BY <3>1, <3>2
  <2>2. HookInv' /\ NoExitDuringSync' /\ StopReplyTruthful'
    BY DEF HookInv, StartInv, NoExitDuringSync, StopReplyTruthful, Exited
  <2>3. StartInv'
    BY DEF StartInv, HookInv, MainInv
  <2>4. MainInv' /\ NoReadyAfterError'
    BY <2>1 DEF MainInv, StartInv
  <2>5. QED
    BY <1>1, <2>2, <2>3, <2>4 DEF IInv
<1>3. CASE HookDoSync
  <2> USE <1>3 DEF HookDoSync
  <2>1. UNCHANGED events
    OBVIOUS
  <2>2. HookInv' /\ NoExitDuringSync' /\ StopReplyTruthful'
    BY DEF HookInv, StartInv, NoExitDuringSync, StopReplyTruthful, Exited
  <2>3. StartInv'
    BY DEF StartInv, HookInv, MainInv
  <2>4. MainInv' /\ NoReadyAfterError'
    BY <2>1, NoReport DEF MainInv, StartInv
  <2>5. QED
    BY <1>1, <2>2, <2>3, <2>4 DEF IInv
<1>4. CASE HookCancel
  <2> USE <1>4 DEF HookCancel
  <2>1. UNCHANGED events
    OBVIOUS
  <2>2. HookInv' /\ NoExitDuringSync' /\ StopReplyTruthful'
    BY DEF HookInv, StartInv, NoExitDuringSync, StopReplyTruthful, Exited
  <2>3. StartInv'
    BY DEF StartInv, HookInv, MainInv
  <2>4. MainInv' /\ NoReadyAfterError'
    BY <2>1, NoReport DEF MainInv, StartInv
  <2>5. QED
    BY <1>1, <2>2, <2>3, <2>4 DEF IInv
<1>5. QED
  BY <1>2, <1>3, <1>4 DEF Hook

LEMMA InvGuards == IInv /\ (WatchPPID \/ ListenSignal) => IInv'
<1> SUFFICES ASSUME IInv, (WatchPPID \/ ListenSignal)
             PROVE  IInv'
    OBVIOUS
<1>1. TypeOK'
  BY TypeNext DEF IInv, Next
<1> USE DEF IInv, TypeOK, PC, envVars, groupVars, vmVars, procVars
<1>2. CASE WatchPPID
  <2> USE <1>2 DEF WatchPPID, WatchTick, Fail
  <2>1. UNCHANGED events
    OBVIOUS
  <2>2. HookInv' /\ NoExitDuringSync' /\ StopReplyTruthful'
    BY DEF HookInv, StartInv, NoExitDuringSync, StopReplyTruthful, Exited
  <2>3. StartInv'
    BY DEF StartInv, HookInv, MainInv
  <2>4. MainInv' /\ NoReadyAfterError'
    BY <2>1, NoReport DEF MainInv, StartInv
  <2>5. QED
    BY <1>1, <2>2, <2>3, <2>4 DEF IInv
<1>3. CASE ListenSignal
  <2> USE <1>3 DEF ListenSignal, Fail
  <2>1. UNCHANGED events
    OBVIOUS
  <2>2. HookInv' /\ NoExitDuringSync' /\ StopReplyTruthful'
    BY DEF HookInv, StartInv, NoExitDuringSync, StopReplyTruthful, Exited
  <2>3. StartInv'
    BY DEF StartInv, HookInv, MainInv
  <2>4. MainInv' /\ NoReadyAfterError'
    BY <2>1, NoReport DEF MainInv, StartInv
  <2>5. QED
    BY <1>1, <2>2, <2>3, <2>4 DEF IInv
<1>4. QED
  BY <1>2, <1>3

LEMMA InvStop == IInv /\ Stop => IInv'
<1> SUFFICES ASSUME IInv, Stop
             PROVE  IInv'
    OBVIOUS
<1>1. TypeOK'
  BY TypeNext DEF IInv, Next
<1> USE DEF IInv, TypeOK, PC, envVars, groupVars, vmVars, procVars
<1> UNCHANGED <<ppidAlive, sigPending, sock, groupVars, vmVars, synced,
               procVars, events>>
  BY DEF Stop
<1>2. CASE StopRequest
  <2> USE <1>2 DEF StopRequest
  <2>1. UNCHANGED events
    OBVIOUS
  <2>2. HookInv' /\ NoExitDuringSync' /\ StopReplyTruthful'
    BY DEF HookInv, StartInv, NoExitDuringSync, StopReplyTruthful, Exited
  <2>3. StartInv'
    BY DEF StartInv, HookInv, MainInv
  <2>4. MainInv' /\ NoReadyAfterError'
    BY <2>1, NoReport DEF MainInv, StartInv
  <2>5. QED
    BY <1>1, <2>2, <2>3, <2>4 DEF IInv
<1>3. CASE StopPrepare
  <2> USE <1>3 DEF StopPrepare
  <2>1. UNCHANGED events
    OBVIOUS
  <2>2. HookInv' /\ NoExitDuringSync' /\ StopReplyTruthful'
    BY DEF HookInv, StartInv, NoExitDuringSync, StopReplyTruthful, Exited
  <2>3. StartInv'
    BY DEF StartInv, HookInv, MainInv
  <2>4. MainInv' /\ NoReadyAfterError'
    BY <2>1, NoReport DEF MainInv, StartInv
  <2>5. QED
    BY <1>1, <2>2, <2>3, <2>4 DEF IInv
<1>4. CASE StopPoweroff
  <2> USE <1>4 DEF StopPoweroff, StopRefused, SSHCanSucceed
  <2>1. UNCHANGED events
    OBVIOUS
  <2>2. HookInv' /\ NoExitDuringSync' /\ StopReplyTruthful'
    BY DEF HookInv, StartInv, NoExitDuringSync, StopReplyTruthful, Exited
  <2>3. StartInv'
    BY DEF StartInv, HookInv, MainInv
  <2>4. MainInv' /\ NoReadyAfterError'
    BY <2>1, NoReport DEF MainInv, StartInv
  <2>5. QED
    BY <1>1, <2>2, <2>3, <2>4 DEF IInv
<1>5. QED
  BY <1>2, <1>3, <1>4 DEF Stop

LEMMA InvEnvironment == IInv /\ Environment => IInv'
<1> SUFFICES ASSUME IInv, Environment
             PROVE  IInv'
    OBVIOUS
<1>1. TypeOK'
  BY TypeNext DEF IInv, Next
<1> USE DEF IInv, TypeOK, PC, envVars, groupVars, vmVars, procVars
<1> UNCHANGED <<groupVars, vmVars, synced, registered, events>>
  BY DEF Environment
<1>2. CASE ParentExits
  <2> USE <1>2 DEF ParentExits
  <2>1. UNCHANGED events
    OBVIOUS
  <2>2. HookInv' /\ NoExitDuringSync' /\ StopReplyTruthful'
    BY DEF HookInv, StartInv, NoExitDuringSync, StopReplyTruthful, Exited
  <2>3. StartInv'
    BY DEF StartInv, HookInv, MainInv
  <2>4. MainInv' /\ NoReadyAfterError'
    BY <2>1, NoReport DEF MainInv, StartInv
  <2>5. QED
    BY <1>1, <2>2, <2>3, <2>4 DEF IInv
<1>3. CASE OSSignal
  <2> USE <1>3 DEF OSSignal
  <2>1. UNCHANGED events
    OBVIOUS
  <2>2. HookInv' /\ NoExitDuringSync' /\ StopReplyTruthful'
    BY DEF HookInv, StartInv, NoExitDuringSync, StopReplyTruthful, Exited
  <2>3. StartInv'
    BY DEF StartInv, HookInv, MainInv
  <2>4. MainInv' /\ NoReadyAfterError'
    BY <2>1, NoReport DEF MainInv, StartInv
  <2>5. QED
    BY <1>1, <2>2, <2>3, <2>4 DEF IInv
<1>4. CASE GvproxyListens
  <2> USE <1>4 DEF GvproxyListens
  <2>1. UNCHANGED events
    OBVIOUS
  <2>2. HookInv' /\ NoExitDuringSync' /\ StopReplyTruthful'
    BY DEF HookInv, StartInv, NoExitDuringSync, StopReplyTruthful, Exited
  <2>3. StartInv'
    BY DEF StartInv, HookInv, MainInv
  <2>4. MainInv' /\ NoReadyAfterError'
    BY <2>1, NoReport DEF MainInv, StartInv
  <2>5. QED
    BY <1>1, <2>2, <2>3, <2>4 DEF IInv
<1>5. CASE GuestBoots
  <2> USE <1>5 DEF GuestBoots
  <2>1. UNCHANGED events
    OBVIOUS
  <2>2. HookInv' /\ NoExitDuringSync' /\ StopReplyTruthful'
    BY DEF HookInv, StartInv, NoExitDuringSync, StopReplyTruthful, Exited
  <2>3. StartInv'
    BY DEF StartInv, HookInv, MainInv
  <2>4. MainInv' /\ NoReadyAfterError'
    BY <2>1, NoReport DEF MainInv, StartInv
  <2>5. QED
    BY <1>1, <2>2, <2>3, <2>4 DEF IInv
<1>6. CASE GuestHangs
  <2> USE <1>6 DEF GuestHangs
  <2>1. UNCHANGED events
    OBVIOUS
  <2>2. HookInv' /\ NoExitDuringSync' /\ StopReplyTruthful'
    BY DEF HookInv, StartInv, NoExitDuringSync, StopReplyTruthful, Exited
  <2>3. StartInv'
    BY DEF StartInv, HookInv, MainInv
  <2>4. MainInv' /\ NoReadyAfterError'
    BY <2>1, NoReport DEF MainInv, StartInv
  <2>5. QED
    BY <1>1, <2>2, <2>3, <2>4 DEF IInv
<1>7. CASE \E c \in Child : ChildDies(c)
  <2> USE <1>7 DEF ChildDies, GuestWithout
  <2>1. UNCHANGED events
    OBVIOUS
  <2>2. HookInv' /\ NoExitDuringSync' /\ StopReplyTruthful'
    BY DEF HookInv, StartInv, NoExitDuringSync, StopReplyTruthful, Exited
  <2>3. StartInv'
    BY DEF StartInv, HookInv, MainInv
  <2>4. MainInv' /\ NoReadyAfterError'
    BY <2>1, NoReport DEF MainInv, StartInv
  <2>5. QED
    BY <1>1, <2>2, <2>3, <2>4 DEF IInv
<1>8. QED
  BY <1>2, <1>3, <1>4, <1>5, <1>6, <1>7 DEF Environment

LEMMA InvKill == IInv /\ (\E c \in Child : KillChild(c)) => IInv'
<1> SUFFICES ASSUME IInv, \E c \in Child : KillChild(c)
             PROVE  IInv'
    OBVIOUS
<1>1. TypeOK'
  BY TypeNext DEF IInv, Next
<1> USE DEF IInv, TypeOK, PC, envVars, groupVars, vmVars, procVars
<1>2. CASE \E c \in Child : KillChild(c)
  <2> USE <1>2 DEF KillChild, GuestWithout, VMCtxDone
  <2>1. UNCHANGED events
    OBVIOUS
  <2>2. HookInv' /\ NoExitDuringSync' /\ StopReplyTruthful'
    BY DEF HookInv, StartInv, NoExitDuringSync, StopReplyTruthful, Exited
  <2>3. StartInv'
    BY DEF StartInv, HookInv, MainInv
  <2>4. MainInv' /\ NoReadyAfterError'
    BY <2>1, NoReport DEF MainInv, StartInv
  <2>5. QED
    BY <1>1, <2>2, <2>3, <2>4 DEF IInv
<1>3. QED
  BY <1>2

LEMMA InvStutter == IInv /\ UNCHANGED vars => IInv'
<1> SUFFICES ASSUME IInv, UNCHANGED vars
             PROVE  IInv'
    OBVIOUS
<1>1. TypeOK'
  BY TypeNext DEF IInv
<1> USE DEF IInv, vars, envVars, groupVars, vmVars, procVars
<1>2. HookInv' /\ NoExitDuringSync' /\ StopReplyTruthful' /\ StartInv'
  BY DEF HookInv, StartInv, NoExitDuringSync, StopReplyTruthful, Exited
<1>3. MainInv' /\ NoReadyAfterError'
  BY NoReport DEF MainInv
<1>4. QED
  BY <1>1, <1>2, <1>3

LEMMA InvNext == IInv /\ [Next]_vars => IInv'
BY InvMain, InvGuards, InvRest, InvStart, InvHook, InvStop, InvKill,
   InvEnvironment, InvStutter DEF Next, Terminated

LEMMA Invariance == Spec => []IInv
BY InvInit, InvNext, PTL DEF Spec

-----------------------------------------------------------------------------
(* The safety properties *)

\* No child of a machine that had reported ready is killed before its sync
\* has returned.
THEOREM SyncBeforeKillHolds == Spec => []SyncBeforeKill
<1>1. IInv => SyncBeforeKill
  BY DEF IInv, HookInv, SyncBeforeKill
<1>2. QED
  BY <1>1, Invariance, PTL

\* While that sync runs the machine goroutine does not return, unless a child
\* died by itself.
THEOREM NoExitDuringSyncHolds == Spec => []NoExitDuringSync
<1>1. IInv => NoExitDuringSync
  BY DEF IInv
<1>2. QED
  BY <1>1, Invariance, PTL

\* RaceWait is given every child there is.
THEOREM RaceWaitCoversAllHolds == Spec => []RaceWaitCoversAll
<1>1. IInv => RaceWaitCoversAll
  BY DEF IInv, TypeOK, StartInv, RaceWaitCoversAll
<1>2. QED
  BY <1>1, Invariance, PTL

\* A vmm runs only behind the endpoint of this run's gvproxy.
THEOREM VMMAfterNetworkHolds == Spec => []VMMAfterNetwork
<1>1. IInv => VMMAfterNetwork
  BY DEF IInv, StartInv, VMMAfterNetwork
<1>2. QED
  BY <1>1, Invariance, PTL

\* Ready is never reported after error or Exit.
THEOREM NoReadyAfterErrorHolds == Spec => []NoReadyAfterError
<1>1. IInv => NoReadyAfterError
  BY DEF IInv
<1>2. QED
  BY <1>1, Invariance, PTL

\* A POST /stop that was answered with success stopped the guest.
THEOREM StopReplyTruthfulHolds == Spec => []StopReplyTruthful
<1>1. IInv => StopReplyTruthful
  BY DEF IInv
<1>2. QED
  BY <1>1, Invariance, PTL

-----------------------------------------------------------------------------
(* Lifecycle implements MachineLife *)

LEMMA SameLife ==
  ASSUME UNCHANGED <<child, cause, readyAtFail, synced>>,
         Reported("Ready")' <=> Reported("Ready"),
         pc'.main = pc.main \/ {pc.main, pc'.main}
                                 \cap {"exited", "signalled"} = {}
  PROVE  UNCHANGED Life!vars
BY DEF Life!vars, Reported, GroupCtxDone

LEMMA FailStops ==
  ASSUME IInv, Running, NEW who \in {"ppid", "signal", "rest", "start"},
         Fail(who), UNCHANGED <<child, synced>>, pc'.main = pc.main,
         Reported("Ready")' <=> Reported("Ready")
  PROVE  [Life!Next]_Life!vars
<1>1. CASE cause = "none"
  <2>1. synced = "no" /\ readyAtFail' = sshReady /\ cause' = who
    BY <1>1 DEF IInv, HookInv, Fail
  <2>2. Reported("Ready") => sshReady
    BY DEF IInv, MainInv
  <2>3. Life!BeginStop
    BY <1>1, <2>1, <2>2 DEF Life!BeginStop, Reported, GroupCtxDone, Running
  <2>4. QED
    BY <2>3 DEF Life!Next
<1>2. CASE cause # "none"
  BY <1>2, SameLife DEF Fail
<1>3. QED
  BY <1>1, <1>2

LEMMA LifeInit == Init => Life!Init
BY DEF Init, Life!Init, GroupCtxDone

LEMMA LifeMain == IInv /\ Main => [Life!Next]_Life!vars
<1> SUFFICES ASSUME IInv, Main
             PROVE  [Life!Next]_Life!vars
    OBVIOUS
<1> USE DEF IInv, TypeOK, PC, envVars, groupVars, vmVars, procVars
<1>1. CASE CheckPPID \/ GroupWait
  BY <1>1, SameLife, NoReport DEF CheckPPID, GroupWait
<1>2. CASE LoadMachine
  <2>1. Reported("Ready")' <=> Reported("Ready")
    BY <1>2, ReportAdds DEF LoadMachine, Event
  <2>2. QED
    BY <1>2, <2>1, SameLife DEF LoadMachine
<1>3. CASE NotifyError
  <2>1. Reported("Ready")' <=> Reported("Ready")
    BY <1>3, ReportAdds DEF NotifyError, Event
  <2>2. QED
    BY <1>3, <2>1, SameLife DEF NotifyError
<1>4. CASE NotifyExit
  <2>1. Reported("Ready")' <=> Reported("Ready")
    BY <1>4, ReportAdds DEF NotifyExit, Event
  <2>2. QED
    BY <1>4, <2>1, SameLife DEF NotifyExit
<1>5. CASE ProcessExit
  <2>1. pc.start \in {"none", "returned"}
    BY <1>5 DEF ProcessExit, MainInv
  <2>2. child["vmm"] = "none" \/ GroupCtxDone
    BY <2>1 DEF StartInv, GroupCtxDone
  <2>3. readyAtFail /\ synced = "no" => \E c \in Child : child[c] = "died"
    BY <2>1 DEF HookInv, StartInv, NoExitDuringSync
  <2>4. /\ pc.main = "exit" /\ pc'.main = "exited"
        /\ UNCHANGED <<child, cause, readyAtFail, synced, events>>
    BY <1>5 DEF ProcessExit
  <2>5. Life!End
    BY <2>2, <2>3, <2>4 DEF Life!End, GroupCtxDone
  <2>6. QED
    BY <2>5 DEF Life!Next
<1>6. QED
  BY <1>1, <1>2, <1>3, <1>4, <1>5 DEF Main

LEMMA LifeGuards ==
  IInv /\ (WatchPPID \/ ListenSignal \/ Rest) => [Life!Next]_Life!vars
<1> SUFFICES ASSUME IInv, WatchPPID \/ ListenSignal \/ Rest
             PROVE  [Life!Next]_Life!vars
    OBVIOUS
<1>1. /\ Running
      /\ UNCHANGED <<child, synced, events>>
      /\ pc'.main = pc.main
      /\ \/ UNCHANGED groupVars
         \/ \E who \in {"ppid", "signal", "rest"} : Fail(who)
  BY DEF IInv, TypeOK, PC, WatchPPID, WatchTick, ListenSignal, Rest,
         RestListen, RestServeFails, RestShutdown, RestDrained, envVars,
         vmVars, procVars
<1>2. Reported("Ready")' <=> Reported("Ready")
  BY <1>1, NoReport
<1>3. QED
  BY <1>1, <1>2, SameLife, FailStops DEF groupVars

LEMMA LifeStart == IInv /\ Start => [Life!Next]_Life!vars
<1> SUFFICES ASSUME IInv, Start
             PROVE  [Life!Next]_Life!vars
    OBVIOUS
<1>1. Running /\ synced' = synced /\ pc'.main = pc.main
  BY DEF Start, IInv, TypeOK, PC, BeginStart, GvproxyPrepareFails,
         GvproxyStart, WaitForSocket, ExtractSourceCodeDisk, VMMPrepareFails,
         VMMStart, WritePidFile, WaitSSHStarted, LeaveSSHWait,
         WaitPodmanReady, NotifyReady, RaceWait, StartReturnsError, StartGoto
<1>2. CASE VMMStart
  <2>1. Reported("Ready")' <=> Reported("Ready")
    BY <1>2, ReportAdds DEF VMMStart, Event, IInv
  <2>2. CASE UNCHANGED child /\ Fail("start")
    BY <1>1, <2>1, <2>2, FailStops
  <2>3. CASE /\ child' = [child EXCEPT !["vmm"] = "running"]
             /\ UNCHANGED groupVars
    <3>1. child["vmm"] = "none"
      BY <1>2 DEF VMMStart, IInv, StartInv
    <3>2. Life!Launch
      BY <1>1, <2>1, <2>3, <3>1
         DEF Life!Launch, IInv, TypeOK, Reported, GroupCtxDone, Running,
             groupVars
    <3>3. QED
      BY <3>2 DEF Life!Next
  <2>4. QED
    BY <1>2, <2>2, <2>3 DEF VMMStart, StartReturnsError
<1>3. CASE NotifyReady
  <2>1. ~Reported("Ready") /\ child["vmm"] # "none"
    BY <1>3 DEF NotifyReady, IInv, MainInv, StartInv
  <2>2. Reported("Ready")'
    BY <1>3, ReportAdds DEF NotifyReady, Event, IInv
  <2>3. UNCHANGED <<child, groupVars, synced>>
    BY <1>3 DEF NotifyReady, procVars
  <2>4. Life!Announce
    BY <1>1, <2>1, <2>2, <2>3
       DEF Life!Announce, Reported, GroupCtxDone, Running, groupVars, IInv,
           TypeOK
  <2>5. QED
    BY <2>4 DEF Life!Next
<1>4. CASE GvproxyStart
  <2>1. Reported("Ready")' <=> Reported("Ready")
    BY <1>4, ReportAdds DEF GvproxyStart, Event, IInv
  <2>2. CASE UNCHANGED child /\ Fail("start")
    BY <1>1, <2>1, <2>2, FailStops
  <2>3. CASE /\ child' = [child EXCEPT !["gvproxy"] = "running"]
             /\ UNCHANGED groupVars
    <3>1. child["gvproxy"] = "none"
      BY <1>4 DEF GvproxyStart, IInv, StartInv
    <3>2. /\ child'["vmm"] = child["vmm"]
          /\ (\E c \in Child : child'[c] = "died")
               <=> (\E c \in Child : child[c] = "died")
      BY <2>3, <3>1 DEF IInv, TypeOK
    <3>3. UNCHANGED Life!vars
      BY <1>1, <2>1, <2>3, <3>2
         DEF Life!vars, Reported, GroupCtxDone, groupVars
    <3>4. QED
      BY <3>3
  <2>4. QED
    BY <1>4, <2>2, <2>3 DEF GvproxyStart, StartReturnsError
<1>5. CASE \/ BeginStart \/ GvproxyPrepareFails \/ WaitForSocket
           \/ ExtractSourceCodeDisk \/ VMMPrepareFails \/ WritePidFile
           \/ WaitSSHStarted \/ WaitPodmanReady \/ RaceWait
  <2>1. UNCHANGED <<child, events>>
    BY <1>5 DEF BeginStart, GvproxyPrepareFails, WaitForSocket,
         ExtractSourceCodeDisk, VMMPrepareFails, WritePidFile,
         WaitSSHStarted, WaitPodmanReady, RaceWait, procVars
  <2>2. UNCHANGED groupVars \/ Fail("start")
    BY <1>5 DEF BeginStart, GvproxyPrepareFails, WaitForSocket,
         ExtractSourceCodeDisk, VMMPrepareFails, WritePidFile,
         WaitSSHStarted, WaitPodmanReady, RaceWait, StartReturnsError
  <2>3. Reported("Ready")' <=> Reported("Ready")
    BY <2>1, NoReport
  <2>4. QED
    BY <1>1, <2>1, <2>2, <2>3, SameLife, FailStops DEF groupVars
<1>6. QED
  BY <1>2, <1>3, <1>4, <1>5 DEF Start

LEMMA LifeHook == IInv /\ Hook => [Life!Next]_Life!vars
<1> SUFFICES ASSUME IInv, Hook
             PROVE  [Life!Next]_Life!vars
    OBVIOUS
<1>1. /\ Running
      /\ pc'.main = pc.main
      /\ UNCHANGED <<child, cause, readyAtFail>>
  BY DEF Hook, HookFire, HookDoSync, HookCancel, IInv, TypeOK, PC, groupVars,
         procVars
<1>2. CASE HookFire
  <2>1. Reported("Ready")' <=> Reported("Ready")
    BY <1>2, ReportAdds, NoReport DEF HookFire, Event, IInv
  <2>2. QED
    BY <1>1, <1>2, <2>1, SameLife DEF HookFire
<1>3. CASE HookDoSync
  <2>1. UNCHANGED events /\ synced' # "no"
    BY <1>3 DEF HookDoSync
  <2>2. Reported("Ready")' <=> Reported("Ready")
    BY <2>1, NoReport
  <2>3. CASE readyAtFail /\ synced = "no"
    <3>1. Life!Flush
      BY <1>1, <2>1, <2>2, <2>3
         DEF Life!Flush, Reported, GroupCtxDone, Running
    <3>2. QED
      BY <3>1 DEF Life!Next
  <2>4. CASE ~(readyAtFail /\ synced = "no")
    BY <1>1, <2>1, <2>2, <2>4 DEF Life!vars, Reported, GroupCtxDone
  <2>5. QED
    BY <2>3, <2>4
<1>4. CASE HookCancel
  BY <1>1, <1>4, SameLife, NoReport DEF HookCancel
<1>5. QED
  BY <1>2, <1>3, <1>4 DEF Hook

LEMMA LifeKill == ASSUME IInv, NEW c \in Child, KillChild(c)
                  PROVE  [Life!Next]_Life!vars
<1>1. /\ Running
      /\ UNCHANGED <<pc, cause, readyAtFail, synced, events>>
      /\ child[c] = "running"
      /\ child' = [child EXCEPT ![c] = "killed"]
  BY DEF KillChild, groupVars
<1>2. cause # "none" /\ ~(readyAtFail /\ synced = "no")
  BY DEF KillChild, VMCtxDone, IInv, HookInv
<1>3. (\E d \in Child : child'[d] = "died")
        <=> (\E d \in Child : child[d] = "died")
  BY <1>1 DEF IInv, TypeOK
<1>4. CASE c = "vmm"
  <2>1. child'["vmm"] = "killed"
    BY <1>1, <1>4 DEF IInv, TypeOK
  <2>2. Life!Kill
    BY <1>1, <1>2, <1>3, <1>4, <2>1 DEF Life!Kill, GroupCtxDone, Running
  <2>3. QED
    BY <2>2 DEF Life!Next
<1>5. CASE c = "gvproxy"
  <2>1. child'["vmm"] = child["vmm"]
    BY <1>1, <1>5 DEF IInv, TypeOK
  <2>2. QED
    BY <1>1, <1>3, <2>1 DEF Life!vars, GroupCtxDone
<1>6. QED
  BY <1>4, <1>5

LEMMA LifeStop == IInv /\ Stop => [Life!Next]_Life!vars
<1> SUFFICES ASSUME IInv, Stop
             PROVE  [Life!Next]_Life!vars
    OBVIOUS
<1>1. /\ pc'.main = pc.main
      /\ UNCHANGED <<child, cause, readyAtFail, synced, events>>
  BY DEF Stop, StopRequest, StopPrepare, StopPoweroff, IInv, TypeOK, PC,
         groupVars, procVars
<1>2. QED
  BY <1>1, SameLife, NoReport

LEMMA LifeEnvironment == IInv /\ Environment => [Life!Next]_Life!vars
<1> SUFFICES ASSUME IInv, Environment
             PROVE  [Life!Next]_Life!vars
    OBVIOUS
<1>1. UNCHANGED <<cause, readyAtFail, synced, events>>
  BY DEF Environment, groupVars
<1>2. CASE ParentExits \/ GvproxyListens \/ GuestBoots \/ GuestHangs
  <2>1. UNCHANGED <<pc, child>>
    BY <1>2 DEF ParentExits, GvproxyListens, GuestBoots, GuestHangs
  <2>2. QED
    BY <1>1, <2>1, SameLife, NoReport
<1>3. CASE OSSignal
  <2>1. UNCHANGED child /\ Running
    BY <1>3 DEF OSSignal
  <2>2. CASE UNCHANGED pc
    BY <1>1, <2>1, <2>2, SameLife, NoReport
  <2>3. CASE pc' = [pc EXCEPT !.main = "signalled"]
    <3>1. pc'.main = "signalled"
      BY <2>3 DEF IInv, TypeOK, PC
    <3>2. Life!Abort
      BY <1>1, <2>1, <3>1 DEF Life!Abort, GroupCtxDone, Running
    <3>3. QED
      BY <3>2 DEF Life!Next
  <2>4. QED
    BY <1>3, <2>2, <2>3 DEF OSSignal
<1>4. ASSUME NEW c \in Child, ChildDies(c)
      PROVE  [Life!Next]_Life!vars
  <2>1. /\ UNCHANGED pc
        /\ child[c] = "running"
        /\ child' = [child EXCEPT ![c] = "died"]
    BY <1>4 DEF ChildDies
  <2>2. \E d \in Child : child'[d] = "died"
    BY <2>1 DEF IInv, TypeOK
  <2>3. \/ child'["vmm"] = child["vmm"]
        \/ child["vmm"] = "running" /\ child'["vmm"] = "died"
    BY <2>1 DEF IInv, TypeOK
  <2>4. Life!Break
    BY <1>1, <2>1, <2>2, <2>3 DEF Life!Break, GroupCtxDone
  <2>5. QED
    BY <2>4 DEF Life!Next
<1>5. QED
  BY <1>2, <1>3, <1>4 DEF Environment

LEMMA LifeNext == IInv /\ [Next]_vars => [Life!Next]_Life!vars
<1> SUFFICES ASSUME IInv, [Next]_vars
             PROVE  [Life!Next]_Life!vars
    OBVIOUS
<1>1. CASE UNCHANGED vars
  BY <1>1, SameLife, NoReport DEF vars, groupVars, procVars
<1>2. CASE Next
  BY <1>1, <1>2, LifeMain, LifeGuards, LifeStart, LifeHook, LifeKill,
     LifeStop, LifeEnvironment DEF Next, Terminated
<1>3. QED
  BY <1>1, <1>2

\* `ovm start` implements MachineLife: a machine announced to the host is
\* flushed before it is killed, and the process leaves it unflushed only when
\* a child died under it or a signal came before anybody listened.
THEOREM KeepsPromiseHolds == Spec => KeepsPromise
<1>1. Init => Life!Init
  BY LifeInit
<1>2. IInv /\ [Next]_vars => [Life!Next]_Life!vars
  BY LifeNext
<1>3. QED
  BY <1>1, <1>2, Invariance, PTL DEF Spec, KeepsPromise, Life!Spec

-----------------------------------------------------------------------------
(* No child starts after the children's context has ended *)

\* The step that starts a child is taken only while its context lives.
THEOREM NoSpawnAfterCancelHolds == Spec => NoSpawnAfterCancel
<1>1. TypeOK /\ [Next]_vars
        => \A c \in Child :
             VMCtxDone /\ child[c] = "none" => child'[c] = "none"
  <2> SUFFICES ASSUME TypeOK, [Next]_vars, NEW c \in Child,
                      VMCtxDone, child[c] = "none"
               PROVE  child'[c] = "none"
    OBVIOUS
  <2>1. CASE UNCHANGED child
    BY <2>1
  <2>2. CASE \E d \in Child : KillChild(d) \/ ChildDies(d)
    BY <2>2 DEF KillChild, ChildDies, TypeOK
  <2>3. CASE Start
    BY <2>3 DEF Start, BeginStart, GvproxyPrepareFails, GvproxyStart,
           WaitForSocket, ExtractSourceCodeDisk, VMMPrepareFails, VMMStart,
           WritePidFile, WaitSSHStarted, WaitPodmanReady, NotifyReady,
           RaceWait, MayExec, procVars
  <2>4. \/ Start
        \/ \E d \in Child : KillChild(d) \/ ChildDies(d)
        \/ UNCHANGED child
    BY DEF Next, Main, CheckPPID, LoadMachine, GroupWait, NotifyError,
           NotifyExit, ProcessExit, WatchPPID, ListenSignal, Rest,
           RestListen, RestServeFails, RestShutdown, RestDrained, Hook,
           HookFire, HookDoSync, HookCancel, Stop, Environment, ParentExits,
           OSSignal, GvproxyListens, GuestBoots, GuestHangs, Terminated,
           vars, procVars
  <2>5. QED
    BY <2>1, <2>2, <2>3, <2>4
<1>2. QED
  BY <1>1, TypeCorrect, PTL DEF Spec, NoSpawnAfterCancel
=============================================================================
