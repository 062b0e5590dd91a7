--------------------------- MODULE TakeoverProofs ---------------------------
(***************************************************************************)
(* Proofs about Takeover, for any number of runs of `ovm start` on one     *)
(* workspace: the type invariant, that one guest writes to the disks, that *)
(* no guest is attached to an earlier run's gvproxy, that a run's commands *)
(* reach its own guest, and that no start kills a program that has the pid *)
(* of an earlier run's child.                                              *)
(***************************************************************************)
EXTENDS Takeover, TLAPS

Over == {"off", "exited", "crashed"}
BeforeGvproxy == {"findGvproxy", "killGvproxy", "startGvproxy"}
BeforeVmm == {"findGvproxy", "killGvproxy", "startGvproxy", "waitSock",
              "findVmm", "killVmm", "startVmm"}

\* A process has a machine goroutine, and starts after the earlier ones.
MainInv ==
    \A i \in Instance :
        /\ main[i] \in Over => mach[i] = "none"
        /\ main[i] = "off" =>
             child[i]["gvproxy"] = "none" /\ child[i]["vmm"] = "none"
        /\ \A j \in Instance : i < j /\ main[j] # "off" => main[i] # "off"

\* A run starts each child once, gvproxy first, and reaches guests by ssh only
\* when it has.
ChildInv ==
    \A i \in Instance :
        /\ mach[i] \in BeforeGvproxy => child[i]["gvproxy"] = "none"
        /\ mach[i] \in BeforeVmm => child[i]["vmm"] = "none"
        /\ mach[i] \in {"waitSock", "findVmm", "killVmm", "startVmm"}
           \/ child[i]["vmm"] # "none"
           => child[i]["gvproxy"] # "none"
        /\ mach[i] \in {"pidFile", "waitSSH", "raceWait"} \/ i \in sshReady
           \/ reached[i] # {}
           => child[i]["vmm"] # "none"

KillAt(k) == IF k = "vmm" THEN "killVmm" ELSE "killGvproxy"
StartAt(k) == IF k = "vmm" THEN "startVmm" ELSE "startGvproxy"

\* A run about to kill aims at a child that was not another program when its
\* name was checked.
AimInv ==
    \A i \in Instance, k \in Kind :
        mach[i] = KillAt(k) =>
            aim[i] \in Instance /\ child[aim[i]][k] # "other"

\* Two runs have met when the later one started before the earlier was through.
MetInv ==
    \A i, j \in Instance :
        i < j /\ main[j] # "off" /\ Unfinished(i) => {i, j} \subseteq crowded

\* Run j has killed, or need not kill, what the pid file of k named before.
PastKill(j, k) == mach[j] = StartAt(k) \/ child[j][k] # "none"

\* Child k of run i is at large, and its run has written its pid file.
OnFile(i, k) ==
    /\ child[i][k] \in AtLarge
    /\ i \notin crowded
    /\ IF k = "vmm" THEN i \notin lost /\ mach[i] # "pidFile"
                    ELSE child[i][k] # "fresh"

\* The pid file names such a child until a later run kills it, which it does
\* before it starts its own.
FileInv ==
    \A i \in Instance, k \in Kind :
        OnFile(i, k) =>
            /\ pidFile[k] = i
            /\ \A j \in Instance :
                   i < j => /\ ~PastKill(j, k)
                            /\ mach[j] = KillAt(k) => aim[j] = i

\* A run that has started its gvproxy has removed what earlier ones left.
EndpointInv ==
    \A i, j \in Instance :
        i < j /\ child[j]["gvproxy"] # "none" /\ i \notin crowded
        => endpoint # i

IInv ==
    /\ TypeOK
    /\ MainInv
    /\ ChildInv
    /\ AimInv
    /\ MetInv
    /\ FileInv
    /\ EndpointInv
    /\ NoStaleNetwork
    /\ SSHReachesOwnGuest

-----------------------------------------------------------------------------
(* What a step does to a child *)

\* An instance is a number, and none is NoOne.
LEMMA InstanceFacts ==
  /\ \A i \in Instance : i \in Nat /\ i > 0 /\ i # NoOne
  /\ \A i, j \in Instance : i < j \/ i = j \/ j < i
  /\ "gvproxy" \in Kind /\ "vmm" \in Kind /\ "gvproxy" # "vmm"
BY TakeoverAssumption DEF Instance, NoOne, Kind

\* A kill ends a process or what has its pid, and makes nothing of no process.
LEMMA KilledFacts ==
  \A s \in ProcState :
    /\ Killed(s) \in ProcState
    /\ Killed(s) = "none" <=> s = "none"
    /\ Killed(s) \notin AtLarge
    /\ Killed(s) # "other"
BY DEF ProcState, AtLarge, Killed

Children == [Instance -> [Kind -> ProcState]]

\* The one child that a step sets, and the others.
ChildSet(i, k, s) ==
    /\ child' \in Children
    /\ \A j \in Instance, l \in Kind :
           child'[j][l] = IF j = i /\ l = k THEN s ELSE child[j][l]

LEMMA SetChildFacts ==
  child \in Children =>
    \A i \in Instance, k \in Kind, s \in ProcState :
      SetChild(i, k, s) => ChildSet(i, k, s)
<1> SUFFICES ASSUME child \in Children,
                    NEW i \in Instance, NEW k \in Kind, NEW s \in ProcState,
                    SetChild(i, k, s)
             PROVE  ChildSet(i, k, s)
    OBVIOUS
<1> DEFINE row == [child[i] EXCEPT ![k] = s]
<1>1. child' = [child EXCEPT ![i] = row]
  BY DEF SetChild
<1>2. /\ row \in [Kind -> ProcState]
      /\ \A l \in Kind : row[l] = IF l = k THEN s ELSE child[i][l]
  BY DEF Children
<1> HIDE DEF row
<1>3. child' \in Children
  BY <1>1, <1>2 DEF Children
<1>4. \A j \in Instance : child'[j] = IF j = i THEN row ELSE child[j]
  BY <1>1 DEF Children
<1>5. QED
  BY <1>2, <1>3, <1>4 DEF ChildSet

LEMMA ChildrenType == TypeOK => child \in Children
BY DEF TypeOK, Children

\* A run's kill by pid file strikes the child it aims at.
LEMMA KillOldStep ==
  ASSUME TypeOK, AimInv, NEW i \in Instance, NEW k \in Kind, NEW next,
         mach[i] = KillAt(k), KillOld(i, k, next)
  PROVE  /\ aim[i] \in Instance
         /\ child[aim[i]][k] # "other"
         /\ ChildSet(aim[i], k, Killed(child[aim[i]][k]))
         /\ MachGoto(i, next)
         /\ aim' = [aim EXCEPT ![i] = NoOne]
         /\ UNCHANGED <<main, cancelled, sshReady, pidFile, net, pathVars,
                        histVars>>
<1>1. aim[i] \in Instance /\ child[aim[i]][k] # "other"
  BY DEF AimInv
<1>2. Killed(child[aim[i]][k]) \in ProcState
  BY <1>1, KilledFacts, ChildrenType DEF Children
<1>3. SetChild(aim[i], k, Killed(child[aim[i]][k]))
  BY DEF KillOld
<1>4. ChildSet(aim[i], k, Killed(child[aim[i]][k]))
  BY <1>1, <1>2, <1>3, SetChildFacts, ChildrenType
<1>5. QED
  BY <1>1, <1>4 DEF KillOld

LEMMA StartGvproxyStep ==
  ASSUME TypeOK, NEW i \in Instance, StartGvproxy(i)
  PROVE  /\ mach[i] = "startGvproxy"
         /\ \/ /\ ChildSet(i, "gvproxy", "fresh")
               /\ endpoint' = NoOne
               /\ MachGoto(i, "waitSock")
               /\ UNCHANGED main
            \/ /\ UNCHANGED child
               /\ endpoint' \in {endpoint, NoOne}
               /\ MachReturns(i)
         /\ port' \in [Instance -> {"none", "config", "free"}]
         /\ UNCHANGED <<cancelled, sshReady, aim, pidFile, net, histVars>>
<1>1. SetChild(i, "gvproxy", "fresh") => ChildSet(i, "gvproxy", "fresh")
  BY SetChildFacts, ChildrenType, InstanceFacts DEF ProcState
<1>2. port' \in [Instance -> {"none", "config", "free"}]
  BY DEF StartGvproxy, TypeOK, ChosenPort, pathVars
<1>3. QED
  BY <1>1, <1>2 DEF StartGvproxy, EndpointRemoved, pathVars

LEMMA StartVmmStep ==
  ASSUME TypeOK, NEW i \in Instance, StartVmm(i)
  PROVE  /\ mach[i] = "startVmm"
         /\ \/ /\ ChildSet(i, "vmm", "fresh")
               /\ MachGoto(i, "pidFile")
               /\ UNCHANGED main
            \/ UNCHANGED child /\ MachReturns(i)
         /\ UNCHANGED <<cancelled, sshReady, aim, pidFile, net, pathVars,
                        histVars>>
<1>1. SetChild(i, "vmm", "fresh") => ChildSet(i, "vmm", "fresh")
  BY SetChildFacts, ChildrenType, InstanceFacts DEF ProcState
<1>2. QED
  BY <1>1 DEF StartVmm

LEMMA KillChildStep ==
  ASSUME TypeOK, NEW i \in Instance, NEW k \in Kind, KillChild(i, k)
  PROVE  /\ child[i][k] \in AtLarge
         /\ ChildSet(i, k, Killed(child[i][k]))
         /\ UNCHANGED <<runVars, pidFile, net, pathVars, histVars>>
<1>1. Killed(child[i][k]) \in ProcState
  BY KilledFacts, ChildrenType DEF Children
<1>2. SetChild(i, k, Killed(child[i][k]))
  BY DEF KillChild
<1>3. ChildSet(i, k, Killed(child[i][k]))
  BY <1>1, <1>2, SetChildFacts, ChildrenType
<1>4. QED
  BY <1>3 DEF KillChild

LEMMA ProcessEndsStep ==
  ASSUME TypeOK, NEW i \in Instance, NEW k \in Kind, ProcessEnds(i, k)
  PROVE  /\ child[i][k] \in AtLarge \cup {"dying"}
         /\ ChildSet(i, k, "dead")
         /\ net' \in [Instance -> {NoOne} \cup Instance]
         /\ \A j \in Instance : net'[j] \in {net[j], NoOne}
         /\ UNCHANGED <<runVars, pidFile, pathVars, histVars>>
<1>1. ChildSet(i, k, "dead")
  BY SetChildFacts, ChildrenType DEF ProcessEnds, ProcState
<1>2. /\ net' \in [Instance -> {NoOne} \cup Instance]
      /\ \A j \in Instance : net'[j] \in {net[j], NoOne}
  BY DEF ProcessEnds, TypeOK
<1>3. QED
  BY <1>1, <1>2 DEF ProcessEnds

LEMMA GvproxyWritesPidStep ==
  ASSUME TypeOK, NEW i \in Instance, GvproxyWritesPid(i)
  PROVE  /\ child[i]["gvproxy"] = "fresh"
         /\ ChildSet(i, "gvproxy", "named")
         /\ pidFile' = [pidFile EXCEPT !["gvproxy"] = i]
         /\ UNCHANGED <<runVars, net, pathVars, histVars>>
<1>1. ChildSet(i, "gvproxy", "named")
  BY SetChildFacts, ChildrenType, InstanceFacts
     DEF GvproxyWritesPid, ProcState
<1>2. QED
  BY <1>1 DEF GvproxyWritesPid

LEMMA GvproxyListensStep ==
  ASSUME TypeOK, NEW i \in Instance, GvproxyListens(i)
  PROVE  /\ child[i]["gvproxy"] = "named"
         /\ \/ ChildSet(i, "gvproxy", "up") /\ endpoint' = i
            \/ ChildSet(i, "gvproxy", "dead") /\ UNCHANGED endpoint
         /\ UNCHANGED <<runVars, pidFile, net, port, histVars>>
<1>1. \A s \in {"up", "dead"} :
        SetChild(i, "gvproxy", s) => ChildSet(i, "gvproxy", s)
  BY SetChildFacts, ChildrenType, InstanceFacts DEF ProcState
<1>2. QED
  BY <1>1 DEF GvproxyListens

LEMMA VmmAttachesStep ==
  ASSUME TypeOK, NEW i \in Instance, VmmAttaches(i)
  PROVE  /\ child[i]["vmm"] = "fresh"
         /\ \/ ChildSet(i, "vmm", "up") \/ ChildSet(i, "vmm", "dead")
         /\ \/ net' = [net EXCEPT ![i] = endpoint]
            \/ net' = [net EXCEPT ![i] = NoOne]
         /\ UNCHANGED <<runVars, pidFile, pathVars, histVars>>
<1>1. \A s \in {"up", "dead"} : SetChild(i, "vmm", s) => ChildSet(i, "vmm", s)
  BY SetChildFacts, ChildrenType, InstanceFacts DEF ProcState
<1>2. QED
  BY <1>1 DEF VmmAttaches

LEMMA PidReusedStep ==
  ASSUME TypeOK, NEW i \in Instance, NEW k \in Kind, PidReused(i, k)
  PROVE  /\ child[i][k] = "dead"
         /\ \/ ChildSet(i, k, "late")
            \/ ChildSet(i, k, "other") /\ ~Aimed(i, k)
         /\ UNCHANGED <<runVars, pidFile, net, pathVars, histVars>>
<1>1. \A s \in {"late", "other"} : SetChild(i, k, s) => ChildSet(i, k, s)
  BY SetChildFacts, ChildrenType DEF ProcState
<1>2. QED
  BY <1>1 DEF PidReused

LEMMA KillGvproxyStep ==
  ASSUME TypeOK, AimInv, NEW i \in Instance, KillGvproxy(i)
  PROVE  /\ mach[i] = "killGvproxy"
         /\ aim[i] \in Instance
         /\ child[aim[i]]["gvproxy"] # "other"
         /\ ChildSet(aim[i], "gvproxy", Killed(child[aim[i]]["gvproxy"]))
         /\ MachGoto(i, "startGvproxy")
         /\ aim' = [aim EXCEPT ![i] = NoOne]
         /\ UNCHANGED <<main, cancelled, sshReady, pidFile, net, pathVars,
                        histVars>>
<1>1. mach[i] = KillAt("gvproxy") /\ KillOld(i, "gvproxy", "startGvproxy")
  BY InstanceFacts DEF KillGvproxy, KillAt
<1>2. QED
  BY <1>1, KillOldStep, InstanceFacts DEF KillGvproxy

LEMMA KillVmmStep ==
  ASSUME TypeOK, AimInv, NEW i \in Instance, KillVmm(i)
  PROVE  /\ mach[i] = "killVmm"
         /\ aim[i] \in Instance
         /\ child[aim[i]]["vmm"] # "other"
         /\ ChildSet(aim[i], "vmm", Killed(child[aim[i]]["vmm"]))
         /\ MachGoto(i, "startVmm")
         /\ aim' = [aim EXCEPT ![i] = NoOne]
         /\ UNCHANGED <<main, cancelled, sshReady, pidFile, net, pathVars,
                        histVars>>
<1>1. mach[i] = KillAt("vmm") /\ KillOld(i, "vmm", "startVmm")
  BY InstanceFacts DEF KillVmm, KillAt
<1>2. QED
  BY <1>1, KillOldStep, InstanceFacts DEF KillVmm

-----------------------------------------------------------------------------
(* Type correctness *)

MainType ==
    main \in [Instance -> {"off", "up", "ending", "exited", "crashed"}]
MachType ==
    mach \in [Instance ->
      {"none", "findGvproxy", "killGvproxy", "startGvproxy", "waitSock",
       "findVmm", "killVmm", "startVmm", "pidFile", "waitSSH", "raceWait",
       "returned"}]
AimType == aim \in [Instance -> {NoOne} \cup Instance]
RestType ==
    /\ {cancelled, sshReady} \subseteq SUBSET Instance
    /\ pidFile \in [Kind -> {NoOne} \cup Instance]
    /\ endpoint \in {NoOne} \cup Instance
    /\ port \in [Instance -> {"none", "config", "free"}]
    /\ net \in [Instance -> {NoOne} \cup Instance]
    /\ reached \in [Instance -> SUBSET Instance]
    /\ {crowded, lost} \subseteq SUBSET Instance

\* The primed form is what the steps use.
LEMMA TypeParts ==
  (MainType /\ MachType /\ AimType /\ child \in Children /\ RestType)'
  => TypeOK'
BY DEF TypeOK, MainType, MachType, AimType, Children, RestType

LEMMA InitIInv == Init => IInv
<1> SUFFICES ASSUME Init
             PROVE  IInv
    OBVIOUS
<1>1. TypeOK
  BY DEF Init, TypeOK, ProcState
<1>2. \A i \in Instance, k \in Kind : child[i][k] = "none"
  BY DEF Init
<1>3. MainInv /\ ChildInv /\ AimInv /\ MetInv
  BY <1>2, InstanceFacts DEF Init, MainInv, ChildInv, AimInv, MetInv, Over,
     BeforeGvproxy, BeforeVmm, KillAt, Unfinished, Alive
<1>4. FileInv
  BY <1>2 DEF FileInv, OnFile, AtLarge
<1>5. EndpointInv
  BY <1>2, InstanceFacts DEF EndpointInv
<1>6. NoStaleNetwork /\ SSHReachesOwnGuest
  BY DEF Init, NoStaleNetwork, SSHReachesOwnGuest
<1>7. QED
  BY <1>1, <1>3, <1>4, <1>5, <1>6 DEF IInv

LEMMA TypeNext == IInv /\ [Next]_vars => TypeOK'
<1> SUFFICES ASSUME TypeOK, AimInv, [Next]_vars
             PROVE  TypeOK'
    BY DEF IInv
<1>0. "gvproxy" \in Kind /\ "vmm" \in Kind
  BY InstanceFacts
<1> USE DEF runVars, procVars, pathVars, histVars
<1>1. ASSUME NEW i \in Instance, StartInstance(i)
      PROVE  TypeOK'
  BY <1>1, <1>0 DEF StartInstance, MachGoto, TypeOK, Children
<1>2. ASSUME NEW i \in Instance, FindGvproxy(i)
      PROVE  TypeOK'
  <2>1. MainType'
    BY <1>2, <1>0 DEF FindGvproxy, FindOld, Found, MachGoto, TypeOK, MainType
  <2>2. MachType'
    BY <1>2, <1>0 DEF FindGvproxy, FindOld, Found, MachGoto, TypeOK, MachType
  <2>3. AimType'
    BY <1>2, <1>0 DEF FindGvproxy, FindOld, Found, MachGoto, TypeOK, AimType
  <2>4. child' \in Children
    BY <1>2, ChildrenType DEF FindGvproxy, FindOld, Found, MachGoto
  <2>5. RestType'
    BY <1>2, <1>0 DEF FindGvproxy, FindOld, Found, MachGoto, TypeOK, RestType
  <2>6. QED
    BY <2>1, <2>2, <2>3, <2>4, <2>5, TypeParts
<1>3. ASSUME NEW i \in Instance, KillGvproxy(i)
      PROVE  TypeOK'
  <2>1. MainType'
    BY <1>3, KillGvproxyStep, <1>0 DEF MachGoto, TypeOK, MainType
  <2>2. MachType'
    BY <1>3, KillGvproxyStep, <1>0 DEF MachGoto, TypeOK, MachType
  <2>3. AimType'
    BY <1>3, KillGvproxyStep, <1>0 DEF MachGoto, TypeOK, AimType
  <2>4. child' \in Children
    BY <1>3, KillGvproxyStep, ChildrenType DEF MachGoto, ChildSet
  <2>5. RestType'
    BY <1>3, KillGvproxyStep, <1>0 DEF MachGoto, TypeOK, RestType
  <2>6. QED
    BY <2>1, <2>2, <2>3, <2>4, <2>5, TypeParts
<1>4. ASSUME NEW i \in Instance, StartGvproxy(i)
      PROVE  TypeOK'
  <2>1. MainType'
    BY <1>4, StartGvproxyStep, <1>0 DEF MachGoto, MachReturns, TypeOK, MainType
  <2>2. MachType'
    BY <1>4, StartGvproxyStep, <1>0 DEF MachGoto, MachReturns, TypeOK, MachType
  <2>3. AimType'
    BY <1>4, StartGvproxyStep, <1>0 DEF MachGoto, MachReturns, TypeOK, AimType
  <2>4. child' \in Children
    BY <1>4, StartGvproxyStep, ChildrenType DEF MachGoto, MachReturns, ChildSet
  <2>5. RestType'
    BY <1>4, StartGvproxyStep, <1>0 DEF MachGoto, MachReturns, TypeOK, RestType
  <2>6. QED
    BY <2>1, <2>2, <2>3, <2>4, <2>5, TypeParts
<1>5. ASSUME NEW i \in Instance, WaitForSocket(i)
      PROVE  TypeOK'
  <2>1. MainType'
    BY <1>5, <1>0 DEF WaitForSocket, MachGoto, MachReturns, TypeOK, MainType
  <2>2. MachType'
    <3>1. MachGoto(i, "findVmm") \/ MachGoto(i, "returned")
      BY <1>5 DEF WaitForSocket, MachReturns
    <3>2. QED
      BY <3>1 DEF MachGoto, TypeOK, MachType
  <2>3. AimType'
    BY <1>5, <1>0 DEF WaitForSocket, MachGoto, MachReturns, TypeOK, AimType
  <2>4. child' \in Children
    BY <1>5, ChildrenType DEF WaitForSocket, MachGoto, MachReturns
  <2>5. RestType'
    BY <1>5, <1>0 DEF WaitForSocket, MachGoto, MachReturns, TypeOK, RestType
  <2>6. QED
    BY <2>1, <2>2, <2>3, <2>4, <2>5, TypeParts
<1>6. ASSUME NEW i \in Instance, FindVmm(i)
      PROVE  TypeOK'
  <2>1. MainType'
    BY <1>6, <1>0 DEF FindVmm, FindOld, Found, MachGoto, TypeOK, MainType
  <2>2. MachType'
    BY <1>6, <1>0 DEF FindVmm, FindOld, Found, MachGoto, TypeOK, MachType
  <2>3. AimType'
    BY <1>6, <1>0 DEF FindVmm, FindOld, Found, MachGoto, TypeOK, AimType
  <2>4. child' \in Children
    BY <1>6, ChildrenType DEF FindVmm, FindOld, Found, MachGoto
  <2>5. RestType'
    BY <1>6, <1>0 DEF FindVmm, FindOld, Found, MachGoto, TypeOK, RestType
  <2>6. QED
    BY <2>1, <2>2, <2>3, <2>4, <2>5, TypeParts
<1>7. ASSUME NEW i \in Instance, KillVmm(i)
      PROVE  TypeOK'
  <2>1. MainType'
    BY <1>7, KillVmmStep, <1>0 DEF MachGoto, TypeOK, MainType
  <2>2. MachType'
    BY <1>7, KillVmmStep, <1>0 DEF MachGoto, TypeOK, MachType
  <2>3. AimType'
    BY <1>7, KillVmmStep, <1>0 DEF MachGoto, TypeOK, AimType
  <2>4. child' \in Children
    BY <1>7, KillVmmStep, ChildrenType DEF MachGoto, ChildSet
  <2>5. RestType'
    BY <1>7, KillVmmStep, <1>0 DEF MachGoto, TypeOK, RestType
  <2>6. QED
    BY <2>1, <2>2, <2>3, <2>4, <2>5, TypeParts
<1>8. ASSUME NEW i \in Instance, StartVmm(i)
      PROVE  TypeOK'
  <2>1. MainType'
    BY <1>8, StartVmmStep, <1>0 DEF MachGoto, MachReturns, TypeOK, MainType
  <2>2. MachType'
    BY <1>8, StartVmmStep, <1>0 DEF MachGoto, MachReturns, TypeOK, MachType
  <2>3. AimType'
    BY <1>8, StartVmmStep, <1>0 DEF MachGoto, MachReturns, TypeOK, AimType
  <2>4. child' \in Children
    BY <1>8, StartVmmStep, ChildrenType DEF MachGoto, MachReturns, ChildSet
  <2>5. RestType'
    BY <1>8, StartVmmStep, <1>0 DEF MachGoto, MachReturns, TypeOK, RestType
  <2>6. QED
    BY <2>1, <2>2, <2>3, <2>4, <2>5, TypeParts
<1>9. ASSUME NEW i \in Instance, WritePidFile(i)
      PROVE  TypeOK'
  <2>1. MainType'
    BY <1>9, <1>0 DEF WritePidFile, NamesVmm, MachGoto, MachReturns, TypeOK,
       MainType
  <2>2. MachType'
    BY <1>9, <1>0 DEF WritePidFile, NamesVmm, MachGoto, MachReturns, TypeOK,
       MachType
  <2>3. AimType'
    BY <1>9, <1>0 DEF WritePidFile, NamesVmm, MachGoto, MachReturns, TypeOK,
       AimType
  <2>4. child' \in Children
    BY <1>9, ChildrenType DEF WritePidFile, NamesVmm, MachGoto, MachReturns
  <2>5. RestType'
    BY <1>9, <1>0 DEF WritePidFile, NamesVmm, MachGoto, MachReturns, TypeOK,
       RestType
  <2>6. QED
    BY <2>1, <2>2, <2>3, <2>4, <2>5, TypeParts
<1>10. ASSUME NEW i \in Instance, WaitSSH(i)
      PROVE  TypeOK'
  BY <1>10, <1>0 DEF WaitSSH, MachGoto, SSHCall, GuestsOf, TypeOK, Children
<1>11. ASSUME NEW i \in Instance, RaceWait(i)
      PROVE  TypeOK'
  BY <1>11, <1>0 DEF RaceWait, MachGoto, MachReturns, TypeOK, Children
<1>12. ASSUME NEW i \in Instance, Hook(i)
      PROVE  TypeOK'
  BY <1>12, <1>0 DEF Hook, SSHCall, GuestsOf, TypeOK, Children
<1>13. ASSUME NEW i \in Instance, EndBegins(i)
      PROVE  TypeOK'
  BY <1>13, <1>0 DEF EndBegins, TypeOK, Children
<1>14. ASSUME NEW i \in Instance, ProcessExit(i)
      PROVE  TypeOK'
  BY <1>14, <1>0 DEF ProcessExit, Ended, MachGoto, TypeOK, Children
<1>15. ASSUME NEW i \in Instance, Crash(i)
      PROVE  TypeOK'
  BY <1>15, <1>0 DEF Crash, Ended, MachGoto, TypeOK, Children
<1>16. ASSUME NEW i \in Instance, GvproxyWritesPid(i)
      PROVE  TypeOK'
  BY <1>16, GvproxyWritesPidStep, <1>0 DEF ChildSet, TypeOK, Children
<1>17. ASSUME NEW i \in Instance, GvproxyListens(i)
      PROVE  TypeOK'
  BY <1>17, GvproxyListensStep, <1>0 DEF ChildSet, TypeOK, Children
<1>18. ASSUME NEW i \in Instance, VmmAttaches(i)
      PROVE  TypeOK'
  <2>1. MainType'
    BY <1>18, VmmAttachesStep, <1>0 DEF TypeOK, MainType
  <2>2. MachType'
    BY <1>18, VmmAttachesStep, <1>0 DEF TypeOK, MachType
  <2>3. AimType'
    BY <1>18, VmmAttachesStep, <1>0 DEF TypeOK, AimType
  <2>4. child' \in Children
    BY <1>18, VmmAttachesStep, ChildrenType DEF ChildSet
  <2>5. RestType'
    BY <1>18, VmmAttachesStep, <1>0 DEF TypeOK, RestType
  <2>6. QED
    BY <2>1, <2>2, <2>3, <2>4, <2>5, TypeParts
<1>19. ASSUME NEW i \in Instance, NEW k \in Kind, KillChild(i, k)
      PROVE  TypeOK'
  BY <1>19, KillChildStep, <1>0 DEF ChildSet, TypeOK, Children
<1>20. ASSUME NEW i \in Instance, NEW k \in Kind, ProcessEnds(i, k)
      PROVE  TypeOK'
  BY <1>20, ProcessEndsStep, <1>0 DEF ChildSet, TypeOK, Children
<1>21. ASSUME NEW i \in Instance, NEW k \in Kind, PidReused(i, k)
      PROVE  TypeOK'
  BY <1>21, PidReusedStep, <1>0 DEF ChildSet, TypeOK, Children
<1>22. CASE UNCHANGED vars
  BY <1>22 DEF vars, TypeOK, Children
<1>23. QED
  BY <1>1, <1>2, <1>3, <1>4, <1>5, <1>6, <1>7, <1>8, <1>9, <1>10, <1>11, <1>12,
     <1>13, <1>14, <1>15, <1>16, <1>17, <1>18, <1>19, <1>20, <1>21, <1>22 DEF
     Next, Machine, Processes

-----------------------------------------------------------------------------
(* What every step does to the children, and to where the runs stand *)

AfterStart(k) == IF k = "vmm" THEN "pidFile" ELSE "waitSock"

\* A child is started once, and what has ended or is dying comes to nothing
\* more; a program that has its pid is not struck.
Onward(j, l) ==
    /\ child[j][l] # "none" => child'[j][l] # "none"
    /\ child[j][l] = "none" /\ child'[j][l] # "none" =>
         /\ Alive(j)
         /\ mach[j] = StartAt(l)
         /\ mach'[j] = AfterStart(l)
         /\ child'[j][l] = "fresh"
    /\ child'[j][l] \in AtLarge /\ child[j][l] \notin AtLarge =>
         child[j][l] = "none"
    /\ child'[j][l] = "fresh" => child[j][l] \in {"none", "fresh"}
    /\ child[j][l] = "other" => child'[j][l] = "other"
    /\ child'[j][l] = "other" =>
         child[j][l] = "other" \/ (child[j][l] = "dead" /\ ~Aimed(j, l))

LEMMA OnwardNext ==
  IInv /\ [Next]_vars => \A j \in Instance, l \in Kind : Onward(j, l)
<1> SUFFICES ASSUME TypeOK, ChildInv, AimInv, [Next]_vars,
                    NEW j \in Instance, NEW l \in Kind
             PROVE  Onward(j, l)
    BY DEF IInv
<1>0. child[j][l] \in ProcState
  BY ChildrenType DEF Children
<1>a. UNCHANGED child => Onward(j, l)
  BY DEF Onward
<1> USE DEF runVars, procVars
<1>1. ASSUME NEW i \in Instance, StartInstance(i)
      PROVE  Onward(j, l)
  BY <1>1, <1>a DEF StartInstance
<1>2. ASSUME NEW i \in Instance, FindGvproxy(i)
      PROVE  Onward(j, l)
  BY <1>2, <1>a DEF FindGvproxy, FindOld
<1>3. ASSUME NEW i \in Instance, WaitForSocket(i)
      PROVE  Onward(j, l)
  BY <1>3, <1>a DEF WaitForSocket
<1>4. ASSUME NEW i \in Instance, FindVmm(i)
      PROVE  Onward(j, l)
  BY <1>4, <1>a DEF FindVmm, FindOld
<1>5. ASSUME NEW i \in Instance, WritePidFile(i)
      PROVE  Onward(j, l)
  BY <1>5, <1>a DEF WritePidFile
<1>6. ASSUME NEW i \in Instance, WaitSSH(i)
      PROVE  Onward(j, l)
  BY <1>6, <1>a DEF WaitSSH
<1>7. ASSUME NEW i \in Instance, RaceWait(i)
      PROVE  Onward(j, l)
  BY <1>7, <1>a DEF RaceWait
<1>8. ASSUME NEW i \in Instance, Hook(i)
      PROVE  Onward(j, l)
  BY <1>8, <1>a DEF Hook
<1>9. ASSUME NEW i \in Instance, EndBegins(i)
      PROVE  Onward(j, l)
  BY <1>9, <1>a DEF EndBegins
<1>10. ASSUME NEW i \in Instance, ProcessExit(i)
      PROVE  Onward(j, l)
  BY <1>10, <1>a DEF ProcessExit
<1>11. ASSUME NEW i \in Instance, Crash(i)
      PROVE  Onward(j, l)
  BY <1>11, <1>a DEF Crash
<1>12. ASSUME NEW i \in Instance, KillGvproxy(i)
      PROVE  Onward(j, l)
  <2>1. /\ child[aim[i]]["gvproxy"] \in ProcState \ {"other"}
        /\ child'[j][l] = IF j = aim[i] /\ l = "gvproxy"
                           THEN Killed(child[aim[i]]["gvproxy"])
                           ELSE child[j][l]
    BY <1>12, KillGvproxyStep, ChildrenType, InstanceFacts
       DEF ChildSet, Children
  <2>2. QED
    BY <1>0, <2>1, KilledFacts DEF Onward, ProcState, AtLarge
<1>13. ASSUME NEW i \in Instance, KillVmm(i)
      PROVE  Onward(j, l)
  <2>1. /\ child[aim[i]]["vmm"] \in ProcState \ {"other"}
        /\ child'[j][l] = IF j = aim[i] /\ l = "vmm"
                           THEN Killed(child[aim[i]]["vmm"])
                           ELSE child[j][l]
    BY <1>13, KillVmmStep, ChildrenType, InstanceFacts
       DEF ChildSet, Children
  <2>2. QED
    BY <1>0, <2>1, KilledFacts DEF Onward, ProcState, AtLarge
<1>14. ASSUME NEW i \in Instance, Alive(i), StartGvproxy(i)
      PROVE  Onward(j, l)
  <2>1. CASE /\ ChildSet(i, "gvproxy", "fresh")
             /\ MachGoto(i, AfterStart("gvproxy"))
    <3>1. /\ mach[i] = StartAt("gvproxy")
          /\ mach'[i] = AfterStart("gvproxy")
          /\ child[i]["gvproxy"] = "none"
      BY <1>14, <2>1, StartGvproxyStep DEF StartAt, MachGoto, TypeOK, ChildInv,
         BeforeGvproxy, BeforeVmm
    <3>2. child'[j][l] = IF j = i /\ l = "gvproxy" THEN "fresh" ELSE child[j][l]
      BY <2>1 DEF ChildSet
    <3>3. QED
      BY <1>14, <3>1, <3>2 DEF Onward, AtLarge
  <2>2. QED
    BY <1>14, <1>a, <2>1, StartGvproxyStep DEF AfterStart
<1>15. ASSUME NEW i \in Instance, Alive(i), StartVmm(i)
      PROVE  Onward(j, l)
  <2>1. CASE /\ ChildSet(i, "vmm", "fresh")
             /\ MachGoto(i, AfterStart("vmm"))
    <3>1. /\ mach[i] = StartAt("vmm")
          /\ mach'[i] = AfterStart("vmm")
          /\ child[i]["vmm"] = "none"
      BY <1>15, <2>1, StartVmmStep DEF StartAt, MachGoto, TypeOK, ChildInv,
         BeforeGvproxy, BeforeVmm
    <3>2. child'[j][l] = IF j = i /\ l = "vmm" THEN "fresh" ELSE child[j][l]
      BY <2>1 DEF ChildSet
    <3>3. QED
      BY <1>15, <3>1, <3>2 DEF Onward, AtLarge
  <2>2. QED
    BY <1>15, <1>a, <2>1, StartVmmStep DEF AfterStart
<1>16. ASSUME NEW i \in Instance, GvproxyWritesPid(i)
      PROVE  Onward(j, l)
  <2>1. /\ child[i]["gvproxy"] = "fresh"
        /\ \E s \in {"named"} :
             child'[j][l] = IF j = i /\ l = "gvproxy" THEN s ELSE child[j][l]
    BY <1>16, GvproxyWritesPidStep DEF ChildSet
  <2>2. QED
    BY <1>0, <2>1 DEF Onward, AtLarge
<1>17. ASSUME NEW i \in Instance, GvproxyListens(i)
      PROVE  Onward(j, l)
  <2>1. /\ child[i]["gvproxy"] = "named"
        /\ \E s \in {"up", "dead"} :
             child'[j][l] = IF j = i /\ l = "gvproxy" THEN s ELSE child[j][l]
    BY <1>17, GvproxyListensStep DEF ChildSet
  <2>2. QED
    BY <1>0, <2>1 DEF Onward, AtLarge
<1>18. ASSUME NEW i \in Instance, VmmAttaches(i)
      PROVE  Onward(j, l)
  <2>1. /\ child[i]["vmm"] = "fresh"
        /\ \E s \in {"up", "dead"} :
             child'[j][l] = IF j = i /\ l = "vmm" THEN s ELSE child[j][l]
    BY <1>18, VmmAttachesStep DEF ChildSet
  <2>2. QED
    BY <1>0, <2>1 DEF Onward, AtLarge
<1>19. ASSUME NEW i \in Instance, NEW k \in Kind, KillChild(i, k)
      PROVE  Onward(j, l)
  <2>1. /\ child[i][k] \in AtLarge
        /\ child'[j][l] = IF j = i /\ l = k
                           THEN Killed(child[i][k]) ELSE child[j][l]
    BY <1>19, KillChildStep DEF ChildSet
  <2>2. QED
    BY <1>0, <2>1, KilledFacts DEF Onward, AtLarge, ProcState
<1>20. ASSUME NEW i \in Instance, NEW k \in Kind, ProcessEnds(i, k)
      PROVE  Onward(j, l)
  <2>1. /\ child[i][k] \in AtLarge \cup {"dying"}
        /\ child'[j][l] = IF j = i /\ l = k THEN "dead" ELSE child[j][l]
    BY <1>20, ProcessEndsStep DEF ChildSet
  <2>2. QED
    BY <1>0, <2>1 DEF Onward, AtLarge
<1>21. ASSUME NEW i \in Instance, NEW k \in Kind, PidReused(i, k)
      PROVE  Onward(j, l)
  <2>1. /\ child[i][k] = "dead"
        /\ \E s \in {"late", "other"} :
             /\ s = "other" => ~Aimed(i, k)
             /\ child'[j][l] = IF j = i /\ l = k THEN s ELSE child[j][l]
    BY <1>21, PidReusedStep DEF ChildSet
  <2>2. QED
    BY <1>0, <2>1 DEF Onward, AtLarge
<1>22. CASE UNCHANGED vars
  BY <1>22, <1>a DEF vars
<1>23. QED
  BY <1>1, <1>2, <1>3, <1>4, <1>5, <1>6, <1>7, <1>8, <1>9, <1>10, <1>11, <1>12,
     <1>13, <1>14, <1>15, <1>16, <1>17, <1>18, <1>19, <1>20, <1>21, <1>22 DEF
     Next, Machine, Processes

\* The machine goroutine of one run moves along its course.
Course(a, b) ==
    \/ a = "findGvproxy"  /\ b \in {"killGvproxy", "startGvproxy"}
    \/ a = "killGvproxy"  /\ b = "startGvproxy"
    \/ a = "startGvproxy" /\ b \in {"waitSock", "returned"}
    \/ a = "waitSock"     /\ b \in {"findVmm", "returned"}
    \/ a = "findVmm"      /\ b \in {"killVmm", "startVmm"}
    \/ a = "killVmm"      /\ b = "startVmm"
    \/ a = "startVmm"     /\ b \in {"pidFile", "returned"}
    \/ a = "pidFile"      /\ b \in {"waitSSH", "returned"}
    \/ a = "waitSSH"      /\ b = "raceWait"
    \/ a = "raceWait"     /\ b = "returned"

\* A step of run i's machine goroutine ...
Moves(i) ==
    /\ \A j \in Instance \ {i} : mach'[j] = mach[j] /\ main'[j] = main[j]
    /\ Course(mach[i], mach'[i])
    /\ main'[i] \in {main[i], "ending"}

\* ... with what it does to the rest.
Effects(i) ==
    /\ mach[i] = "startGvproxy" /\ mach'[i] = "waitSock" =>
         child'[i]["gvproxy"] = "fresh"
    /\ mach[i] = "startVmm" /\ mach'[i] = "pidFile" =>
         child'[i]["vmm"] = "fresh"
    /\ UNCHANGED <<cancelled, crowded>>
    /\ mach[i] = "waitSSH" \/ UNCHANGED <<sshReady, reached>>
    /\ sshReady' \in {sshReady, sshReady \cup {i}}
    /\ \A j \in Instance \ {i} : reached'[j] = reached[j]

LEMMA MachineMoves ==
  ASSUME TypeOK, AimInv, NEW i \in Instance, Machine(i)
  PROVE  Alive(i) /\ Moves(i) /\ Effects(i)
<1>1. \A l : MachGoto(i, l) =>
        mach'[i] = l /\ \A j \in Instance \ {i} : mach'[j] = mach[j]
  BY DEF MachGoto, TypeOK
<1>2. MachReturns(i) =>
        /\ mach'[i] = "returned" /\ main'[i] = "ending"
        /\ \A j \in Instance \ {i} : mach'[j] = mach[j] /\ main'[j] = main[j]
  BY <1>1 DEF MachReturns, TypeOK
<1>3. ASSUME FindGvproxy(i)
      PROVE  Moves(i) /\ Effects(i)
  <2>1. Moves(i)
    BY <1>1, <1>2, <1>3 DEF FindGvproxy, FindOld, Moves, Course
  <2>2. Effects(i)
    BY <1>1, <1>2, <1>3, InstanceFacts DEF FindGvproxy, FindOld, Effects,
       histVars
  <2>3. QED
    BY <2>1, <2>2
<1>4. ASSUME KillGvproxy(i)
      PROVE  Moves(i) /\ Effects(i)
  <2>1. Moves(i)
    BY <1>1, <1>2, <1>4, KillGvproxyStep DEF Moves, Course
  <2>2. Effects(i)
    BY <1>1, <1>2, <1>4, KillGvproxyStep, InstanceFacts DEF Effects, histVars
  <2>3. QED
    BY <2>1, <2>2
<1>5. ASSUME StartGvproxy(i)
      PROVE  Moves(i) /\ Effects(i)
  <2>1. Moves(i)
    BY <1>1, <1>2, <1>5, StartGvproxyStep DEF Moves, Course
  <2>2. Effects(i)
    BY <1>1, <1>2, <1>5, StartGvproxyStep, InstanceFacts DEF ChildSet, Effects,
       histVars
  <2>3. QED
    BY <2>1, <2>2
<1>6. ASSUME WaitForSocket(i)
      PROVE  Moves(i) /\ Effects(i)
  <2>1. Moves(i)
    BY <1>1, <1>2, <1>6 DEF WaitForSocket, Moves, Course
  <2>2. Effects(i)
    BY <1>1, <1>2, <1>6, InstanceFacts DEF WaitForSocket, Effects, histVars
  <2>3. QED
    BY <2>1, <2>2
<1>7. ASSUME FindVmm(i)
      PROVE  Moves(i) /\ Effects(i)
  <2>1. Moves(i)
    BY <1>1, <1>2, <1>7 DEF FindVmm, FindOld, Moves, Course
  <2>2. Effects(i)
    BY <1>1, <1>2, <1>7, InstanceFacts DEF FindVmm, FindOld, Effects, histVars
  <2>3. QED
    BY <2>1, <2>2
<1>8. ASSUME KillVmm(i)
      PROVE  Moves(i) /\ Effects(i)
  <2>1. Moves(i)
    BY <1>1, <1>2, <1>8, KillVmmStep DEF Moves, Course
  <2>2. Effects(i)
    BY <1>1, <1>2, <1>8, KillVmmStep, InstanceFacts DEF Effects, histVars
  <2>3. QED
    BY <2>1, <2>2
<1>9. ASSUME StartVmm(i)
      PROVE  Moves(i) /\ Effects(i)
  <2>1. Moves(i)
    BY <1>1, <1>2, <1>9, StartVmmStep DEF Moves, Course
  <2>2. Effects(i)
    BY <1>1, <1>2, <1>9, StartVmmStep, InstanceFacts DEF ChildSet, Effects,
       histVars
  <2>3. QED
    BY <2>1, <2>2
<1>10. ASSUME WritePidFile(i)
      PROVE  Moves(i) /\ Effects(i)
  <2>1. Moves(i)
    BY <1>1, <1>2, <1>10 DEF WritePidFile, Moves, Course
  <2>2. Effects(i)
    BY <1>1, <1>2, <1>10, InstanceFacts DEF WritePidFile, Effects, histVars
  <2>3. QED
    BY <2>1, <2>2
<1>11. ASSUME WaitSSH(i)
      PROVE  Moves(i) /\ Effects(i)
  <2>1. Moves(i)
    BY <1>1, <1>2, <1>11 DEF WaitSSH, Moves, Course
  <2>2. \A j \in Instance \ {i} : reached'[j] = reached[j]
    BY <1>11 DEF WaitSSH, SSHCall, TypeOK
  <2>3. Effects(i)
    BY <2>2, <1>11 DEF WaitSSH, Effects, histVars
  <2>4. QED
    BY <2>1, <2>3
<1>12. ASSUME RaceWait(i)
      PROVE  Moves(i) /\ Effects(i)
  <2>1. Moves(i)
    BY <1>1, <1>2, <1>12 DEF RaceWait, Moves, Course
  <2>2. Effects(i)
    BY <1>1, <1>2, <1>12, InstanceFacts DEF RaceWait, Effects, histVars
  <2>3. QED
    BY <2>1, <2>2
<1>13. QED
  BY <1>3, <1>4, <1>5, <1>6, <1>7, <1>8, <1>9, <1>10, <1>11, <1>12 DEF Machine

\* The processes leave the runs alone.
LEMMA ProcessesKeepRuns ==
  ASSUME NEW i \in Instance, Processes(i)
  PROVE  UNCHANGED <<runVars, histVars>>
BY DEF Processes, GvproxyWritesPid, GvproxyListens, VmmAttaches, KillChild,
   ProcessEnds, PidReused

\* What any step does to run j.
Begins(j) ==
    /\ main[j] = "off" /\ main'[j] = "up" /\ mach'[j] = "findGvproxy"
    /\ \A m \in Instance : m < j => main[m] # "off"
    /\ \A m \in Instance : Unfinished(m) => {m, j} \subseteq crowded'

GoesOn(j) ==
    /\ Alive(j)
    /\ Course(mach[j], mach'[j])
    /\ main'[j] \in {main[j], "ending"}
    /\ mach[j] = "startGvproxy" /\ mach'[j] = "waitSock" =>
         child'[j]["gvproxy"] = "fresh"
    /\ mach[j] = "startVmm" /\ mach'[j] = "pidFile" =>
         child'[j]["vmm"] = "fresh"

Stays(j) ==
    /\ mach'[j] = mach[j]
    /\ main'[j] = main[j] \/ (main[j] = "up" /\ main'[j] = "ending")

Leaves(j) ==
    Alive(j) /\ main'[j] \in {"exited", "crashed"} /\ mach'[j] = "none"

RunStep(j) ==
    /\ Begins(j) \/ GoesOn(j) \/ Stays(j) \/ Leaves(j)
    /\ crowded \subseteq crowded'
    /\ j \in sshReady' \/ reached'[j] # {} =>
         j \in sshReady \/ reached[j] # {} \/ mach[j] = "waitSSH"

LEMMA RunsNext ==
  IInv /\ [Next]_vars => \A j \in Instance : RunStep(j)
<1> SUFFICES ASSUME TypeOK, AimInv, [Next]_vars, NEW j \in Instance
             PROVE  RunStep(j)
    BY DEF IInv
<1>1. ASSUME NEW i \in Instance, StartInstance(i)
      PROVE  RunStep(j)
  <2>1. CASE j = i
    <3>1. /\ main[j] = "off" /\ main'[j] = "up" /\ mach'[j] = "findGvproxy"
          /\ \A m \in Instance : m < j => main[m] # "off"
      BY <1>1, <2>1 DEF StartInstance, MachGoto, TypeOK, Instance
    <3>2. \A m \in Instance : Unfinished(m) => {m, j} \subseteq crowded'
      BY <1>1, <2>1 DEF StartInstance
    <3>3. QED
      BY <1>1, <3>1, <3>2 DEF StartInstance, RunStep, Begins
  <2>2. CASE j # i
    <3>1. Stays(j)
      BY <1>1, <2>2 DEF StartInstance, MachGoto, Stays, TypeOK
    <3>2. QED
      BY <1>1, <3>1 DEF StartInstance, RunStep, runVars
  <2>3. QED
    BY <2>1, <2>2
<1>2. ASSUME NEW i \in Instance, Machine(i)
      PROVE  RunStep(j)
  <2>1. CASE j = i
    BY <1>2, <2>1, MachineMoves
       DEF RunStep, GoesOn, Moves, Effects, TypeOK
  <2>2. CASE j # i
    BY <1>2, <2>2, MachineMoves
       DEF RunStep, Stays, Moves, Effects, TypeOK
  <2>3. QED
    BY <2>1, <2>2
<1>3. ASSUME NEW i \in Instance, Hook(i)
      PROVE  RunStep(j)
  <2>1. reached'[j] # {} => j \in sshReady \/ reached[j] # {}
    BY <1>3 DEF Hook, SSHCall, TypeOK
  <2>2. QED
    BY <1>3, <2>1 DEF Hook, RunStep, Stays
<1>4. ASSUME NEW i \in Instance, EndBegins(i)
      PROVE  RunStep(j)
  BY <1>4 DEF EndBegins, RunStep, Stays, TypeOK, histVars
<1>5. ASSUME NEW i \in Instance, ProcessExit(i)
      PROVE  RunStep(j)
  <2>1. Stays(j) \/ Leaves(j)
    BY <1>5 DEF ProcessExit, Ended, MachGoto, Stays, Leaves, Alive, TypeOK
  <2>2. reached'[j] # {} => reached[j] # {}
    BY <1>5 DEF ProcessExit, Ended, TypeOK
  <2>3. QED
    BY <1>5, <2>1, <2>2 DEF ProcessExit, Ended, RunStep
<1>6. ASSUME NEW i \in Instance, Crash(i)
      PROVE  RunStep(j)
  <2>1. Stays(j) \/ Leaves(j)
    BY <1>6 DEF Crash, Ended, MachGoto, Stays, Leaves, TypeOK
  <2>2. reached'[j] # {} => reached[j] # {}
    BY <1>6 DEF Crash, Ended, TypeOK
  <2>3. QED
    BY <1>6, <2>1, <2>2 DEF Crash, Ended, RunStep
<1>7. ASSUME NEW i \in Instance, Processes(i)
      PROVE  RunStep(j)
  BY <1>7, ProcessesKeepRuns DEF RunStep, Stays, runVars, histVars
<1>8. CASE UNCHANGED vars
  BY <1>8 DEF vars, RunStep, Stays, runVars, histVars
<1>9. QED
  BY <1>1, <1>2, <1>3, <1>4, <1>5, <1>6, <1>7, <1>8 DEF Next

-----------------------------------------------------------------------------
(* Where a run stands, what it has started, and which runs have met *)

LEMMA MainNext == IInv /\ [Next]_vars => MainInv'
<1> SUFFICES ASSUME IInv, [Next]_vars, NEW i \in Instance
             PROVE  MainInv!(i)'
    BY DEF MainInv
<1>1. RunStep(i) /\ Onward(i, "gvproxy") /\ Onward(i, "vmm")
  BY RunsNext, OnwardNext, InstanceFacts
<1>2. MainInv!(i)
  BY DEF IInv, MainInv
<1>3. main'[i] \in Over => mach'[i] = "none"
  BY <1>1, <1>2 DEF RunStep, Begins, GoesOn, Stays, Leaves, Alive, Over
<1>4. main'[i] = "off" =>
        child'[i]["gvproxy"] = "none" /\ child'[i]["vmm"] = "none"
  BY <1>1, <1>2 DEF RunStep, Begins, GoesOn, Stays, Leaves, Alive, Onward
<1>5. ASSUME NEW j \in Instance, i < j, main'[j] # "off"
      PROVE  main'[i] # "off"
  <2>1. RunStep(j)
    BY RunsNext
  <2>2. main[i] # "off"
    BY <1>2, <1>5, <2>1 DEF RunStep, Begins, GoesOn, Stays, Leaves, Alive
  <2>3. QED
    BY <1>1, <2>2 DEF RunStep, Begins, GoesOn, Stays, Leaves, Alive
<1>6. QED
  BY <1>3, <1>4, <1>5

LEMMA ChildNext == IInv /\ [Next]_vars => ChildInv'
<1> SUFFICES ASSUME IInv, [Next]_vars, NEW i \in Instance
             PROVE  ChildInv!(i)'
    BY DEF ChildInv
<1>1. RunStep(i) /\ Onward(i, "gvproxy") /\ Onward(i, "vmm")
  BY RunsNext, OnwardNext, InstanceFacts
<1>2. ChildInv!(i) /\ MainInv!(i)
  BY DEF IInv, ChildInv, MainInv
<1> USE DEF RunStep, Begins, GoesOn, Stays, Leaves, Course, Onward, AfterStart,
            StartAt, BeforeGvproxy, BeforeVmm
<1>3. mach'[i] \in BeforeGvproxy => child'[i]["gvproxy"] = "none"
  BY <1>1, <1>2, InstanceFacts
<1>4. mach'[i] \in BeforeVmm => child'[i]["vmm"] = "none"
  BY <1>1, <1>2, InstanceFacts
<1>5. mach'[i] \in {"waitSock", "findVmm", "killVmm", "startVmm"}
      \/ child'[i]["vmm"] # "none"
      => child'[i]["gvproxy"] # "none"
  BY <1>1, <1>2, InstanceFacts
<1>6. mach'[i] \in {"pidFile", "waitSSH", "raceWait"} \/ i \in sshReady'
      \/ reached'[i] # {}
      => child'[i]["vmm"] # "none"
  BY <1>1, <1>2, InstanceFacts
<1>7. QED
  BY <1>3, <1>4, <1>5, <1>6

\* Only a run that begins can become unfinished.
LEMMA UnfinishedNext ==
  IInv /\ [Next]_vars =>
    \A i \in Instance : Unfinished(i)' => Unfinished(i) \/ main[i] = "off"
<1> SUFFICES ASSUME IInv, [Next]_vars, NEW i \in Instance, Unfinished(i)'
             PROVE  Unfinished(i) \/ main[i] = "off"
    OBVIOUS
<1>1. RunStep(i) /\ Onward(i, "gvproxy")
  BY RunsNext, OnwardNext, InstanceFacts
<1>2. CASE child'[i]["gvproxy"] = "fresh"
  BY <1>1, <1>2, InstanceFacts DEF Onward, StartAt, Unfinished
<1>3. CASE /\ Alive(i)'
           /\ mach'[i] \in {"findGvproxy", "killGvproxy", "startGvproxy",
                            "waitSock", "findVmm", "killVmm", "startVmm",
                            "pidFile"}
  BY <1>1, <1>3 DEF RunStep, Begins, GoesOn, Stays, Leaves, Course, Alive,
     Unfinished
<1>4. QED
  BY <1>2, <1>3 DEF Unfinished

LEMMA MetNext == IInv /\ [Next]_vars => MetInv'
<1> SUFFICES ASSUME IInv, [Next]_vars, NEW i \in Instance, NEW j \in Instance,
                    i < j, main'[j] # "off", Unfinished(i)'
             PROVE  {i, j} \subseteq crowded'
    BY DEF MetInv
<1>1. RunStep(j)
  BY RunsNext
<1>2. Unfinished(i) \/ main[i] = "off"
  BY UnfinishedNext
<1>3. CASE main[j] # "off"
  <2>1. main[i] # "off"
    BY <1>3 DEF IInv, MainInv
  <2>2. {i, j} \subseteq crowded
    BY <1>2, <1>3, <2>1 DEF IInv, MetInv
  <2>3. QED
    BY <1>1, <2>2 DEF RunStep
<1>4. CASE main[j] = "off"
  <2>1. Begins(j)
    BY <1>1, <1>4 DEF RunStep, GoesOn, Stays, Leaves, Alive
  <2>2. main[i] # "off"
    BY <2>1 DEF Begins
  <2>3. QED
    BY <1>2, <2>1, <2>2 DEF Begins
<1>5. QED
  BY <1>3, <1>4

-----------------------------------------------------------------------------
(* The kills by pid file *)

FindAt(k) == IF k = "vmm" THEN "findVmm" ELSE "findGvproxy"

\* How run j comes to aim, and how it comes past its kill.
KillStep(j, k) ==
    /\ mach'[j] = KillAt(k) =>
         \/ mach[j] = KillAt(k) /\ aim'[j] = aim[j]
         \/ mach[j] = FindAt(k) /\ Found(k) /\ aim'[j] = pidFile[k]
    /\ mach'[j] = StartAt(k) =>
         \/ mach[j] = StartAt(k)
         \/ mach[j] = FindAt(k) /\ ~Found(k)
         \/ mach[j] = KillAt(k) /\ child'[aim[j]][k] \notin AtLarge

LEMMA KillNext ==
  IInv /\ [Next]_vars => \A j \in Instance, k \in Kind : KillStep(j, k)
<1> SUFFICES ASSUME IInv, [Next]_vars, NEW j \in Instance, NEW k \in Kind
             PROVE  KillStep(j, k)
    OBVIOUS
<1>0. TypeOK /\ AimInv
  BY DEF IInv
<1>a. k = "gvproxy" \/ k = "vmm"
  BY DEF Kind
<1>b. mach'[j] = mach[j] /\ aim'[j] = aim[j] => KillStep(j, k)
  BY DEF KillStep
<1>c. mach'[j] # KillAt(k) /\ mach'[j] # StartAt(k) => KillStep(j, k)
  BY DEF KillStep
<1>1. ASSUME NEW i \in Instance, StartInstance(i)
      PROVE  KillStep(j, k)
  <2>1. mach'[j] = mach[j] \/ mach'[j] = "findGvproxy"
    BY <1>0, <1>1 DEF StartInstance, MachGoto, TypeOK
  <2>2. QED
    BY <1>1, <1>b, <1>c, <2>1 DEF StartInstance, KillAt, StartAt
<1>2. ASSUME NEW i \in Instance, FindGvproxy(i)
      PROVE  KillStep(j, k)
  <2>1. /\ mach[i] = "findGvproxy"
        /\ \/ /\ Found("gvproxy")
              /\ aim'[i] = pidFile["gvproxy"] /\ mach'[i] = "killGvproxy"
           \/ ~Found("gvproxy") /\ aim' = aim /\ mach'[i] = "startGvproxy"
    BY <1>0, <1>2 DEF FindGvproxy, FindOld, MachGoto, TypeOK
  <2>2. j # i => mach'[j] = mach[j] /\ aim'[j] = aim[j]
    BY <1>0, <1>2 DEF FindGvproxy, FindOld, MachGoto, TypeOK
  <2>3. QED
    BY <1>a, <1>b, <2>1, <2>2 DEF KillStep, FindAt, KillAt, StartAt
<1>3. ASSUME NEW i \in Instance, FindVmm(i)
      PROVE  KillStep(j, k)
  <2>1. /\ mach[i] = "findVmm"
        /\ \/ /\ Found("vmm")
              /\ aim'[i] = pidFile["vmm"] /\ mach'[i] = "killVmm"
           \/ ~Found("vmm") /\ aim' = aim /\ mach'[i] = "startVmm"
    BY <1>0, <1>3 DEF FindVmm, FindOld, MachGoto, TypeOK
  <2>2. j # i => mach'[j] = mach[j] /\ aim'[j] = aim[j]
    BY <1>0, <1>3 DEF FindVmm, FindOld, MachGoto, TypeOK
  <2>3. QED
    BY <1>a, <1>b, <2>1, <2>2 DEF KillStep, FindAt, KillAt, StartAt
<1>4. ASSUME NEW i \in Instance, KillGvproxy(i)
      PROVE  KillStep(j, k)
  <2>1. /\ mach[i] = "killGvproxy"
        /\ mach'[i] = "startGvproxy"
        /\ j # i => mach'[j] = mach[j] /\ aim'[j] = aim[j]
    BY <1>0, <1>4, KillGvproxyStep DEF MachGoto, TypeOK
  <2>2. child'[aim[i]]["gvproxy"] = Killed(child[aim[i]]["gvproxy"])
    BY <1>0, <1>4, KillGvproxyStep, InstanceFacts DEF ChildSet
  <2>3. child[aim[i]]["gvproxy"] \in ProcState
    BY <1>0, <1>4, KillGvproxyStep, ChildrenType, InstanceFacts DEF Children
  <2>4. child'[aim[i]]["gvproxy"] \notin AtLarge
    BY <2>2, <2>3, KilledFacts
  <2>5. QED
    BY <1>a, <1>b, <2>1, <2>4 DEF KillStep, KillAt, StartAt
<1>5. ASSUME NEW i \in Instance, KillVmm(i)
      PROVE  KillStep(j, k)
  <2>1. /\ mach[i] = "killVmm"
        /\ mach'[i] = "startVmm"
        /\ j # i => mach'[j] = mach[j] /\ aim'[j] = aim[j]
    BY <1>0, <1>5, KillVmmStep DEF MachGoto, TypeOK
  <2>2. child'[aim[i]]["vmm"] = Killed(child[aim[i]]["vmm"])
    BY <1>0, <1>5, KillVmmStep, InstanceFacts DEF ChildSet
  <2>3. child[aim[i]]["vmm"] \in ProcState
    BY <1>0, <1>5, KillVmmStep, ChildrenType, InstanceFacts DEF Children
  <2>4. child'[aim[i]]["vmm"] \notin AtLarge
    BY <2>2, <2>3, KilledFacts
  <2>5. QED
    BY <1>a, <1>b, <2>1, <2>4 DEF KillStep, KillAt, StartAt
<1>6. ASSUME NEW i \in Instance, StartGvproxy(i)
      PROVE  KillStep(j, k)
  <2>1. (MachGoto(i, "waitSock") \/ MachGoto(i, "returned")) /\ UNCHANGED aim
    BY <1>0, <1>6, StartGvproxyStep DEF MachReturns
  <2>2. mach'[j] \in {mach[j], "waitSock", "returned"}
    BY <1>0, <2>1 DEF MachGoto, TypeOK
  <2>3. QED
    BY <2>1, <2>2, <1>b, <1>c DEF KillAt, StartAt
<1>7. ASSUME NEW i \in Instance, WaitForSocket(i)
      PROVE  KillStep(j, k)
  <2>1. (MachGoto(i, "findVmm") \/ MachGoto(i, "returned")) /\ UNCHANGED aim
    BY <1>7 DEF WaitForSocket, MachReturns
  <2>2. mach'[j] \in {mach[j], "findVmm", "returned"}
    BY <1>0, <2>1 DEF MachGoto, TypeOK
  <2>3. QED
    BY <2>1, <2>2, <1>b, <1>c DEF KillAt, StartAt
<1>8. ASSUME NEW i \in Instance, StartVmm(i)
      PROVE  KillStep(j, k)
  <2>1. (MachGoto(i, "pidFile") \/ MachGoto(i, "returned")) /\ UNCHANGED aim
    BY <1>0, <1>8, StartVmmStep DEF MachReturns
  <2>2. mach'[j] \in {mach[j], "pidFile", "returned"}
    BY <1>0, <2>1 DEF MachGoto, TypeOK
  <2>3. QED
    BY <2>1, <2>2, <1>b, <1>c DEF KillAt, StartAt
<1>9. ASSUME NEW i \in Instance, WritePidFile(i)
      PROVE  KillStep(j, k)
  <2>1. (MachGoto(i, "waitSSH") \/ MachGoto(i, "returned")) /\ UNCHANGED aim
    BY <1>9 DEF WritePidFile, MachReturns
  <2>2. mach'[j] \in {mach[j], "waitSSH", "returned"}
    BY <1>0, <2>1 DEF MachGoto, TypeOK
  <2>3. QED
    BY <2>1, <2>2, <1>b, <1>c DEF KillAt, StartAt
<1>10. ASSUME NEW i \in Instance, WaitSSH(i)
      PROVE  KillStep(j, k)
  <2>1. (MachGoto(i, "raceWait")) /\ UNCHANGED aim
    BY <1>10 DEF WaitSSH, MachReturns
  <2>2. mach'[j] \in {mach[j], "raceWait"}
    BY <1>0, <2>1 DEF MachGoto, TypeOK
  <2>3. QED
    BY <2>1, <2>2, <1>b, <1>c DEF KillAt, StartAt
<1>11. ASSUME NEW i \in Instance, RaceWait(i)
      PROVE  KillStep(j, k)
  <2>1. (MachGoto(i, "returned")) /\ UNCHANGED aim
    BY <1>11 DEF RaceWait, MachReturns
  <2>2. mach'[j] \in {mach[j], "returned"}
    BY <1>0, <2>1 DEF MachGoto, TypeOK
  <2>3. QED
    BY <2>1, <2>2, <1>b, <1>c DEF KillAt, StartAt
<1>12. ASSUME NEW i \in Instance, Hook(i)
      PROVE  KillStep(j, k)
  BY <1>12, <1>b DEF Hook
<1>13. ASSUME NEW i \in Instance, EndBegins(i)
      PROVE  KillStep(j, k)
  BY <1>13, <1>b DEF EndBegins
<1>14. ASSUME NEW i \in Instance, ProcessExit(i)
      PROVE  KillStep(j, k)
  <2>1. j = i => mach'[j] = "none"
    BY <1>0, <1>14 DEF ProcessExit, Ended, MachGoto, TypeOK
  <2>2. j # i => mach'[j] = mach[j] /\ aim'[j] = aim[j]
    BY <1>0, <1>14 DEF ProcessExit, Ended, MachGoto, TypeOK
  <2>3. QED
    BY <1>b, <1>c, <2>1, <2>2 DEF KillAt, StartAt
<1>15. ASSUME NEW i \in Instance, Crash(i)
      PROVE  KillStep(j, k)
  <2>1. j = i => mach'[j] = "none"
    BY <1>0, <1>15 DEF Crash, Ended, MachGoto, TypeOK
  <2>2. j # i => mach'[j] = mach[j] /\ aim'[j] = aim[j]
    BY <1>0, <1>15 DEF Crash, Ended, MachGoto, TypeOK
  <2>3. QED
    BY <1>b, <1>c, <2>1, <2>2 DEF KillAt, StartAt
<1>16. ASSUME NEW i \in Instance, Processes(i)
      PROVE  KillStep(j, k)
  BY <1>16, <1>b, ProcessesKeepRuns DEF runVars
<1>17. CASE UNCHANGED vars
  BY <1>17, <1>b DEF vars, runVars
<1>18. QED
  BY <1>1, <1>2, <1>3, <1>4, <1>5, <1>6, <1>7, <1>8, <1>9, <1>10, <1>11, <1>12,
     <1>13, <1>14, <1>15, <1>16, <1>17 DEF Next, Machine

LEMMA AimNext == IInv /\ [Next]_vars => AimInv'
<1> SUFFICES ASSUME IInv, [Next]_vars, NEW i \in Instance, NEW k \in Kind,
                    mach'[i] = KillAt(k)
             PROVE  aim'[i] \in Instance /\ child'[aim'[i]][k] # "other"
    BY DEF AimInv
<1>1. KillStep(i, k)
  BY KillNext
<1>2. CASE mach[i] = KillAt(k) /\ aim'[i] = aim[i]
  <2>1. aim[i] \in Instance /\ child[aim[i]][k] # "other"
    BY <1>2 DEF IInv, AimInv
  <2>2. Aimed(aim[i], k)
    BY <1>2 DEF Aimed, KillAt
  <2>3. Onward(aim[i], k)
    BY <2>1, OnwardNext
  <2>4. QED
    BY <1>2, <2>1, <2>2, <2>3 DEF Onward
<1>3. CASE mach[i] = FindAt(k) /\ Found(k) /\ aim'[i] = pidFile[k]
  <2>1. /\ pidFile[k] \in Instance
        /\ child[pidFile[k]][k] \in AtLarge \cup {"dying"}
    BY <1>3 DEF Found, HasName, IInv, TypeOK
  <2>2. Onward(pidFile[k], k)
    BY <2>1, OnwardNext
  <2>3. QED
    BY <1>3, <2>1, <2>2 DEF Onward, AtLarge
<1>4. QED
  BY <1>1, <1>2, <1>3 DEF KillStep

-----------------------------------------------------------------------------
(* The pid files *)

\* A run named by a pid file is about to be, or its process is.
Names(m, k) == IF k = "vmm" THEN Alive(m) /\ mach[m] = "pidFile"
                            ELSE child[m]["gvproxy"] = "fresh"

\* A pid file changes only to name the child of such a run, and a child comes
\* to be on file only when it does.
FileStep(k) ==
    \/ pidFile'[k] = pidFile[k]
    \/ \E m \in Instance : pidFile'[k] = m /\ Names(m, k)

ComesOnFile(i) ==
    /\ /\ child[i]["gvproxy"] = "fresh"
       /\ child'[i]["gvproxy"] \in AtLarge \ {"fresh"}
       => pidFile'["gvproxy"] = i
    /\ mach[i] = "pidFile" /\ mach'[i] # "pidFile" /\ i \notin lost' =>
         pidFile'["vmm"] = i
    /\ lost \subseteq lost'

LEMMA FilesNext ==
  IInv /\ [Next]_vars => /\ \A k \in Kind : FileStep(k)
                         /\ \A j \in Instance : ComesOnFile(j)
<1> SUFFICES ASSUME IInv, [Next]_vars
             PROVE  /\ \A k \in Kind : FileStep(k)
                    /\ \A j \in Instance : ComesOnFile(j)
    OBVIOUS
<1> DEFINE Files == \A k \in Kind : FileStep(k)
           Come == \A j \in Instance : ComesOnFile(j)
<1>0. TypeOK /\ AimInv
  BY DEF IInv
<1>a. UNCHANGED pidFile => Files
  BY DEF FileStep
<1>b. UNCHANGED <<child, mach, lost>> => Come
  BY DEF ComesOnFile, AtLarge
<1>c. \A j \in Instance : child[j]["gvproxy"] \in ProcState
  BY <1>0, ChildrenType, InstanceFacts DEF Children
<1>1. ASSUME NEW i \in Instance, StartInstance(i)
      PROVE  Files /\ Come
  <2>1. \A j \in Instance : mach[j] = "pidFile" => mach'[j] = mach[j]
    BY <1>0, <1>1 DEF StartInstance, MachGoto, TypeOK, IInv, MainInv, Over
  <2>2. UNCHANGED <<child, pidFile, lost>>
    BY <1>1 DEF StartInstance, procVars
  <2>3. QED
    BY <1>a, <2>1, <2>2 DEF ComesOnFile, AtLarge
<1>2. ASSUME NEW i \in Instance, FindGvproxy(i)
      PROVE  Files /\ Come
  <2>1. \A j \in Instance : mach[j] = "pidFile" => mach'[j] = mach[j]
    BY <1>0, <1>2 DEF FindGvproxy, FindOld, MachGoto, MachReturns, TypeOK
  <2>2. UNCHANGED <<child, pidFile, lost>>
    BY <1>2 DEF FindGvproxy, FindOld, procVars, histVars
  <2>3. QED
    BY <1>a, <2>1, <2>2 DEF ComesOnFile, AtLarge
<1>3. ASSUME NEW i \in Instance, WaitForSocket(i)
      PROVE  Files /\ Come
  <2>1. \A j \in Instance : mach[j] = "pidFile" => mach'[j] = mach[j]
    BY <1>0, <1>3 DEF WaitForSocket, MachGoto, MachReturns, TypeOK
  <2>2. UNCHANGED <<child, pidFile, lost>>
    BY <1>3 DEF WaitForSocket, procVars, histVars
  <2>3. QED
    BY <1>a, <2>1, <2>2 DEF ComesOnFile, AtLarge
<1>4. ASSUME NEW i \in Instance, FindVmm(i)
      PROVE  Files /\ Come
  <2>1. \A j \in Instance : mach[j] = "pidFile" => mach'[j] = mach[j]
    BY <1>0, <1>4 DEF FindVmm, FindOld, MachGoto, MachReturns, TypeOK
  <2>2. UNCHANGED <<child, pidFile, lost>>
    BY <1>4 DEF FindVmm, FindOld, procVars, histVars
  <2>3. QED
    BY <1>a, <2>1, <2>2 DEF ComesOnFile, AtLarge
<1>5. ASSUME NEW i \in Instance, WaitSSH(i)
      PROVE  Files /\ Come
  <2>1. \A j \in Instance : mach[j] = "pidFile" => mach'[j] = mach[j]
    BY <1>0, <1>5 DEF WaitSSH, MachGoto, MachReturns, TypeOK
  <2>2. UNCHANGED <<child, pidFile, lost>>
    BY <1>5 DEF WaitSSH, procVars, histVars
  <2>3. QED
    BY <1>a, <2>1, <2>2 DEF ComesOnFile, AtLarge
<1>6. ASSUME NEW i \in Instance, RaceWait(i)
      PROVE  Files /\ Come
  <2>1. \A j \in Instance : mach[j] = "pidFile" => mach'[j] = mach[j]
    BY <1>0, <1>6 DEF RaceWait, MachGoto, MachReturns, TypeOK
  <2>2. UNCHANGED <<child, pidFile, lost>>
    BY <1>6 DEF RaceWait, procVars, histVars
  <2>3. QED
    BY <1>a, <2>1, <2>2 DEF ComesOnFile, AtLarge
<1>7. ASSUME NEW i \in Instance, KillGvproxy(i)
      PROVE  Files /\ Come
  <2>1. \A j \in Instance : mach[j] = "pidFile" => mach'[j] = mach[j]
    BY <1>0, <1>7, KillGvproxyStep DEF MachGoto, TypeOK
  <2>2. UNCHANGED <<pidFile, lost>>
    BY <1>0, <1>7, KillGvproxyStep DEF histVars
  <2>3. ASSUME NEW j \in Instance, child'[j]["gvproxy"] # child[j]["gvproxy"]
        PROVE  child'[j]["gvproxy"] \notin AtLarge
    BY <1>0, <1>c, <1>7, <2>3, KillGvproxyStep, KilledFacts, InstanceFacts
       DEF ChildSet
  <2>4. QED
    BY <1>a, <2>1, <2>2, <2>3 DEF ComesOnFile, AtLarge
<1>8. ASSUME NEW i \in Instance, KillVmm(i)
      PROVE  Files /\ Come
  <2>1. \A j \in Instance : mach[j] = "pidFile" => mach'[j] = mach[j]
    BY <1>0, <1>8, KillVmmStep DEF MachGoto, TypeOK
  <2>2. UNCHANGED <<pidFile, lost>>
    BY <1>0, <1>8, KillVmmStep DEF histVars
  <2>3. ASSUME NEW j \in Instance, child'[j]["gvproxy"] # child[j]["gvproxy"]
        PROVE  child'[j]["gvproxy"] \notin AtLarge
    BY <1>0, <1>c, <1>8, <2>3, KillVmmStep, KilledFacts, InstanceFacts
       DEF ChildSet
  <2>4. QED
    BY <1>a, <2>1, <2>2, <2>3 DEF ComesOnFile, AtLarge
<1>9. ASSUME NEW i \in Instance, Alive(i), StartGvproxy(i)
      PROVE  Files /\ Come
  <2>1. \A j \in Instance : mach[j] = "pidFile" => mach'[j] = mach[j]
    BY <1>0, <1>9, StartGvproxyStep DEF MachGoto, MachReturns, TypeOK
  <2>2. UNCHANGED <<pidFile, lost>>
    BY <1>0, <1>9, StartGvproxyStep DEF histVars
  <2>3. ASSUME NEW j \in Instance, child'[j]["gvproxy"] # child[j]["gvproxy"]
        PROVE  child'[j]["gvproxy"] = "fresh"
    BY <1>0, <1>9, <2>3, StartGvproxyStep, InstanceFacts DEF ChildSet
  <2>4. QED
    BY <1>a, <2>1, <2>2, <2>3 DEF ComesOnFile, AtLarge
<1>10. ASSUME NEW i \in Instance, Alive(i), StartVmm(i)
      PROVE  Files /\ Come
  <2>1. \A j \in Instance : mach[j] = "pidFile" => mach'[j] = mach[j]
    BY <1>0, <1>10, StartVmmStep DEF MachGoto, MachReturns, TypeOK
  <2>2. UNCHANGED <<pidFile, lost>>
    BY <1>0, <1>10, StartVmmStep DEF histVars
  <2>3. ASSUME NEW j \in Instance, child'[j]["gvproxy"] # child[j]["gvproxy"]
        PROVE  child'[j]["gvproxy"] = "fresh"
    BY <1>0, <1>10, <2>3, StartVmmStep, InstanceFacts DEF ChildSet
  <2>4. QED
    BY <1>a, <2>1, <2>2, <2>3 DEF ComesOnFile, AtLarge
<1>11. ASSUME NEW i \in Instance, Alive(i), WritePidFile(i)
      PROVE  Files /\ Come
  <2>1. CASE NamesVmm(i) /\ MachGoto(i, "waitSSH") /\ UNCHANGED lost
    <3>1. pidFile'["vmm"] = i /\ pidFile'["gvproxy"] = pidFile["gvproxy"]
      BY <1>0, <2>1, InstanceFacts DEF NamesVmm, TypeOK
    <3>2. Names(i, "vmm")
      BY <1>11 DEF Names, WritePidFile
    <3>3. \A j \in Instance \ {i} : mach'[j] = mach[j]
      BY <1>0, <2>1 DEF MachGoto, TypeOK
    <3>4. Files
      BY <3>1, <3>2 DEF FileStep, Kind
    <3>5. Come
      BY <1>11, <2>1, <3>1, <3>3 DEF ComesOnFile, WritePidFile, AtLarge
    <3>6. QED
      BY <3>4, <3>5
  <2>2. CASE /\ MachReturns(i)
             /\ lost' = lost \cup {i}
             /\ UNCHANGED pidFile
    <3>1. \A j \in Instance \ {i} : mach'[j] = mach[j]
      BY <1>0, <2>2 DEF MachReturns, MachGoto, TypeOK
    <3>2. Come
      BY <1>11, <2>2, <3>1 DEF ComesOnFile, WritePidFile, AtLarge
    <3>3. QED
      BY <1>a, <2>2, <3>2
  <2>3. QED
    BY <1>11, <2>1, <2>2 DEF WritePidFile
<1>12. ASSUME NEW i \in Instance, Hook(i)
      PROVE  Files /\ Come
  BY <1>12, <1>a, <1>b DEF Hook, procVars
<1>13. ASSUME NEW i \in Instance, EndBegins(i)
      PROVE  Files /\ Come
  BY <1>13, <1>a, <1>b DEF EndBegins, procVars, histVars
<1>14. ASSUME NEW i \in Instance, ProcessExit(i)
      PROVE  Files /\ Come
  <2>1. \A j \in Instance : mach[j] = "pidFile" => mach'[j] = mach[j]
    BY <1>0, <1>14 DEF ProcessExit, Ended, MachGoto, TypeOK
  <2>2. UNCHANGED <<child, pidFile, lost>>
    BY <1>14 DEF ProcessExit, procVars
  <2>3. QED
    BY <1>a, <2>1, <2>2 DEF ComesOnFile, AtLarge
<1>15. ASSUME NEW i \in Instance, Crash(i)
      PROVE  Files /\ Come
  <2>1. \A j \in Instance : mach[j] = "pidFile" =>
          mach'[j] = mach[j] \/ j \in lost'
    BY <1>0, <1>15 DEF Crash, Ended, MachGoto, TypeOK
  <2>2. UNCHANGED <<child, pidFile>> /\ lost \subseteq lost'
    BY <1>15 DEF Crash, procVars
  <2>3. QED
    BY <1>a, <2>1, <2>2 DEF ComesOnFile, AtLarge
<1>16. ASSUME NEW i \in Instance, GvproxyWritesPid(i)
      PROVE  Files /\ Come
  <2>1. /\ UNCHANGED <<mach, lost>>
        /\ pidFile'["gvproxy"] = i /\ pidFile'["vmm"] = pidFile["vmm"]
        /\ Names(i, "gvproxy")
    BY <1>0, <1>16, GvproxyWritesPidStep, InstanceFacts
       DEF TypeOK, Names, runVars, histVars
  <2>2. \A j \in Instance \ {i} : child'[j]["gvproxy"] = child[j]["gvproxy"]
    BY <1>0, <1>16, GvproxyWritesPidStep, InstanceFacts DEF ChildSet
  <2>3. Files
    BY <2>1 DEF FileStep, Kind
  <2>4. Come
    BY <2>1, <2>2 DEF ComesOnFile, AtLarge
  <2>5. QED
    BY <2>3, <2>4
<1>17. ASSUME NEW i \in Instance, GvproxyListens(i)
      PROVE  Files /\ Come
  <2>1. UNCHANGED <<pidFile, mach, lost>>
    BY <1>0, <1>17, GvproxyListensStep DEF runVars, histVars
  <2>2. ASSUME NEW j \in Instance, child[j]["gvproxy"] = "fresh",
               child'[j]["gvproxy"] # "fresh"
        PROVE  child'[j]["gvproxy"] \notin AtLarge
    BY <1>0, <1>c, <1>17, <2>2, GvproxyListensStep, InstanceFacts
       DEF ChildSet, AtLarge
  <2>3. QED
    BY <1>a, <2>1, <2>2 DEF ComesOnFile
<1>18. ASSUME NEW i \in Instance, VmmAttaches(i)
      PROVE  Files /\ Come
  <2>1. UNCHANGED <<pidFile, mach, lost>>
    BY <1>0, <1>18, VmmAttachesStep DEF runVars, histVars
  <2>2. ASSUME NEW j \in Instance, child[j]["gvproxy"] = "fresh",
               child'[j]["gvproxy"] # "fresh"
        PROVE  child'[j]["gvproxy"] \notin AtLarge
    BY <1>0, <1>c, <1>18, <2>2, VmmAttachesStep, InstanceFacts
       DEF ChildSet, AtLarge
  <2>3. QED
    BY <1>a, <2>1, <2>2 DEF ComesOnFile
<1>19. ASSUME NEW i \in Instance, NEW k \in Kind, KillChild(i, k)
      PROVE  Files /\ Come
  <2>1. UNCHANGED <<pidFile, mach, lost>>
    BY <1>0, <1>19, KillChildStep DEF runVars, histVars
  <2>2. ASSUME NEW j \in Instance, child[j]["gvproxy"] = "fresh",
               child'[j]["gvproxy"] # "fresh"
        PROVE  child'[j]["gvproxy"] \notin AtLarge
    BY <1>0, <1>c, <1>19, <2>2, KillChildStep, KilledFacts, InstanceFacts
       DEF ChildSet, AtLarge
  <2>3. QED
    BY <1>a, <2>1, <2>2 DEF ComesOnFile
<1>20. ASSUME NEW i \in Instance, NEW k \in Kind, ProcessEnds(i, k)
      PROVE  Files /\ Come
  <2>1. UNCHANGED <<pidFile, mach, lost>>
    BY <1>0, <1>20, ProcessEndsStep DEF runVars, histVars
  <2>2. ASSUME NEW j \in Instance, child[j]["gvproxy"] = "fresh",
               child'[j]["gvproxy"] # "fresh"
        PROVE  child'[j]["gvproxy"] \notin AtLarge
    BY <1>0, <1>c, <1>20, <2>2, ProcessEndsStep, InstanceFacts
       DEF ChildSet, AtLarge
  <2>3. QED
    BY <1>a, <2>1, <2>2 DEF ComesOnFile
<1>21. ASSUME NEW i \in Instance, NEW k \in Kind, PidReused(i, k)
      PROVE  Files /\ Come
  <2>1. UNCHANGED <<pidFile, mach, lost>>
    BY <1>0, <1>21, PidReusedStep DEF runVars, histVars
  <2>2. ASSUME NEW j \in Instance, child[j]["gvproxy"] = "fresh",
               child'[j]["gvproxy"] # "fresh"
        PROVE  child'[j]["gvproxy"] \notin AtLarge
    BY <1>0, <1>c, <1>21, <2>2, PidReusedStep, InstanceFacts
       DEF ChildSet, AtLarge
  <2>3. QED
    BY <1>a, <2>1, <2>2 DEF ComesOnFile
<1>22. ASSUME UNCHANGED vars
      PROVE  Files /\ Come
  BY <1>22, <1>a, <1>b DEF vars, runVars, procVars, histVars
<1> HIDE DEF Files, Come
<1>23. Files /\ Come
  BY <1>1, <1>2, <1>3, <1>4, <1>5, <1>6, <1>7, <1>8, <1>9, <1>10, <1>11, <1>12,
     <1>13, <1>14, <1>15, <1>16, <1>17, <1>18, <1>19, <1>20, <1>21, <1>22 DEF
     Next, Machine, Processes
<1>24. QED
  BY <1>23 DEF Files, Come

\* A child comes on file while its run is unfinished, so a later run that was
\* not met has not begun; once there it can only be struck by a later run that
\* aims at it.
LEMMA FileNext == IInv /\ [Next]_vars => FileInv'
<1> SUFFICES ASSUME IInv, [Next]_vars, NEW i \in Instance, NEW k \in Kind,
                    OnFile(i, k)'
             PROVE  /\ pidFile'[k] = i
                    /\ \A j \in Instance :
                         i < j => /\ ~PastKill(j, k)'
                                  /\ mach'[j] = KillAt(k) => aim'[j] = i
    BY DEF FileInv
<1>1. /\ \A j \in Instance : RunStep(j) /\ Onward(j, k) /\ KillStep(j, k)
      /\ FileStep(k) /\ ComesOnFile(i)
  BY RunsNext, OnwardNext, KillNext, FilesNext
<1>2. /\ TypeOK
      /\ \A j \in Instance : MainInv!(j) /\ ChildInv!(j)
  BY DEF IInv, MainInv, ChildInv
<1>3. k = "gvproxy" \/ k = "vmm"
  BY DEF Kind
<1>4. i \notin crowded /\ child'[i][k] \in AtLarge
  BY <1>1 DEF OnFile, RunStep
<1>5. child[i][k] \in AtLarge
  <2>1. ~(child[i][k] = "none" /\ child'[i][k] # "none")
    BY <1>1, <1>3 DEF Onward, AfterStart, OnFile
  <2>2. QED
    BY <1>1, <1>4, <2>1 DEF Onward, AtLarge
<1>6. CASE OnFile(i, k)
  <2>1. /\ pidFile[k] = i
        /\ \A j \in Instance :
             i < j => /\ ~PastKill(j, k)
                      /\ mach[j] = KillAt(k) => aim[j] = i
    BY <1>6 DEF IInv, FileInv
  <2>2. ASSUME NEW m \in Instance, m # i
        PROVE  ~Names(m, k)
    <3>1. CASE m < i
      <4>1. main[i] # "off"
        BY <1>2, <1>3, <1>5 DEF AtLarge
      <4>2. ~Unfinished(m)
        BY <1>4, <3>1, <4>1 DEF IInv, MetInv
      <4>3. QED
        BY <4>2 DEF Unfinished, Names
    <3>2. CASE i < m
      <4>1. mach[m] # StartAt(k) /\ child[m][k] = "none"
        BY <2>1, <3>2 DEF PastKill
      <4>2. QED
        BY <1>2, <1>3, <4>1 DEF Names
    <3>3. QED
      BY <2>2, <3>1, <3>2, InstanceFacts
  <2>3. ~Names(i, k)
    BY <1>3, <1>6 DEF OnFile, Names
  <2>4. pidFile'[k] = i
    BY <1>1, <2>1, <2>2, <2>3 DEF FileStep
  <2>5. ASSUME NEW j \in Instance, i < j
        PROVE  ~PastKill(j, k)' /\ (mach'[j] = KillAt(k) => aim'[j] = i)
    <3>1. /\ mach[j] # StartAt(k)
          /\ child[j][k] = "none"
          /\ mach[j] = KillAt(k) => aim[j] = i
      BY <2>1, <2>5 DEF PastKill
    <3>2. Found(k)
      BY <1>5, <2>1, InstanceFacts DEF Found, HasName
    <3>3. mach'[j] # StartAt(k)
      BY <1>1, <1>4, <3>1, <3>2 DEF KillStep
    <3>4. child'[j][k] = "none"
      BY <1>1, <3>1 DEF Onward
    <3>5. mach'[j] = KillAt(k) => aim'[j] = i
      BY <1>1, <2>1, <3>1 DEF KillStep
    <3>6. QED
      BY <3>3, <3>4, <3>5 DEF PastKill
  <2>6. QED
    BY <2>4, <2>5
<1>7. CASE ~OnFile(i, k)
  <2>1. pidFile'[k] = i /\ Unfinished(i)
    <3>1. CASE k = "gvproxy"
      <4>1. child[i]["gvproxy"] = "fresh"
        BY <1>4, <1>5, <1>7, <3>1 DEF OnFile
      <4>2. child'[i]["gvproxy"] # "fresh"
        BY <3>1, InstanceFacts DEF OnFile
      <4>3. QED
        BY <1>1, <1>4, <3>1, <4>1, <4>2 DEF ComesOnFile, Unfinished
    <3>2. CASE k = "vmm"
      <4>1. i \notin lost' /\ i \notin lost /\ mach'[i] # "pidFile"
        BY <1>1, <3>2 DEF OnFile, ComesOnFile
      <4>2. mach[i] = "pidFile"
        BY <1>4, <1>5, <1>7, <3>2, <4>1 DEF OnFile
      <4>3. Alive(i)
        BY <1>2, <4>2 DEF Alive, Over, TypeOK
      <4>4. QED
        BY <1>1, <3>2, <4>1, <4>2, <4>3 DEF ComesOnFile, Unfinished
    <3>3. QED
      BY <1>3, <3>1, <3>2
  <2>2. ASSUME NEW j \in Instance, i < j
        PROVE  ~PastKill(j, k)' /\ mach'[j] # KillAt(k)
    <3>1. main[j] = "off"
      BY <1>4, <2>1, <2>2 DEF IInv, MetInv
    <3>2. ~Begins(j)
      BY <1>1, <2>1, <2>2, MetNext DEF Begins, OnFile
    <3>3. mach'[j] = "none" /\ child[j][k] = "none"
      BY <1>1, <1>2, <1>3, <3>1, <3>2
         DEF RunStep, GoesOn, Stays, Leaves, Alive, Over
    <3>4. child'[j][k] = "none"
      BY <1>1, <3>1, <3>3 DEF Onward, Alive
    <3>5. QED
      BY <1>3, <3>3, <3>4 DEF PastKill, StartAt, KillAt
  <2>3. QED
    BY <2>1, <2>2
<1>8. QED
  BY <1>6, <1>7

-----------------------------------------------------------------------------
(* The endpoint, the network and ssh *)

\* What a step does to what the runs share by path, and to whom they reach.
PathStep ==
    /\ \/ endpoint' \in {endpoint, NoOne}
       \/ \E m \in Instance :
            endpoint' = m /\ child[m]["gvproxy"] = "named"
    /\ \A j \in Instance :
         child[j]["gvproxy"] = "none" /\ child'[j]["gvproxy"] # "none"
         => endpoint' = NoOne

ReachStep(j) ==
    /\ \/ net'[j] \in {net[j], NoOne}
       \/ net'[j] = endpoint /\ child[j]["vmm"] # "none"
    /\ \/ reached'[j] \subseteq reached[j]
       \/ /\ mach[j] = "waitSSH" \/ j \in sshReady
          /\ \A g \in reached'[j] \ reached[j] : child[g]["vmm"] = "up"

LEMMA PathsNext ==
  IInv /\ [Next]_vars => PathStep /\ \A j \in Instance : ReachStep(j)
<1> SUFFICES ASSUME IInv, [Next]_vars
             PROVE  PathStep /\ \A j \in Instance : ReachStep(j)
    OBVIOUS
<1> DEFINE Reach == \A j \in Instance : ReachStep(j)
<1>0. TypeOK /\ AimInv
  BY DEF IInv
<1>a. /\ UNCHANGED endpoint
      /\ \A j \in Instance : child'[j]["gvproxy"] # "none" =>
           child[j]["gvproxy"] # "none"
      => PathStep
  BY DEF PathStep
<1>b. UNCHANGED <<net, reached>> => Reach
  BY DEF ReachStep
<1>c. \A j \in Instance : child[j]["gvproxy"] \in ProcState
  BY <1>0, ChildrenType, InstanceFacts DEF Children
<1> USE DEF procVars, pathVars, histVars
<1>1. ASSUME NEW i \in Instance, StartInstance(i)
      PROVE  PathStep /\ Reach
  BY <1>1, <1>a, <1>b DEF StartInstance
<1>2. ASSUME NEW i \in Instance, FindGvproxy(i)
      PROVE  PathStep /\ Reach
  BY <1>2, <1>a, <1>b DEF FindGvproxy, FindOld
<1>3. ASSUME NEW i \in Instance, WaitForSocket(i)
      PROVE  PathStep /\ Reach
  BY <1>3, <1>a, <1>b DEF WaitForSocket
<1>4. ASSUME NEW i \in Instance, FindVmm(i)
      PROVE  PathStep /\ Reach
  BY <1>4, <1>a, <1>b DEF FindVmm, FindOld
<1>5. ASSUME NEW i \in Instance, WritePidFile(i)
      PROVE  PathStep /\ Reach
  BY <1>5, <1>a, <1>b DEF WritePidFile
<1>6. ASSUME NEW i \in Instance, RaceWait(i)
      PROVE  PathStep /\ Reach
  BY <1>6, <1>a, <1>b DEF RaceWait
<1>7. ASSUME NEW i \in Instance, EndBegins(i)
      PROVE  PathStep /\ Reach
  BY <1>7, <1>a, <1>b DEF EndBegins
<1>8. ASSUME NEW i \in Instance, KillGvproxy(i)
      PROVE  PathStep /\ Reach
  <2>1. UNCHANGED <<endpoint, net, reached>>
    BY <1>0, <1>8, KillGvproxyStep
  <2>2. ASSUME NEW j \in Instance, child'[j]["gvproxy"] # "none"
        PROVE  child[j]["gvproxy"] # "none"
    BY <1>0, <1>c, <1>8, <2>2, KillGvproxyStep, KilledFacts, InstanceFacts
       DEF ChildSet
  <2>3. QED
    BY <1>a, <1>b, <2>1, <2>2
<1>9. ASSUME NEW i \in Instance, KillVmm(i)
      PROVE  PathStep /\ Reach
  <2>1. UNCHANGED <<endpoint, net, reached>>
    BY <1>0, <1>9, KillVmmStep
  <2>2. ASSUME NEW j \in Instance, child'[j]["gvproxy"] # "none"
        PROVE  child[j]["gvproxy"] # "none"
    BY <1>0, <1>c, <1>9, <2>2, KillVmmStep, KilledFacts, InstanceFacts
       DEF ChildSet
  <2>3. QED
    BY <1>a, <1>b, <2>1, <2>2
<1>10. ASSUME NEW i \in Instance, StartGvproxy(i)
      PROVE  PathStep /\ Reach
  <2>1. endpoint' \in {endpoint, NoOne} /\ UNCHANGED <<net, reached>>
    BY <1>0, <1>10, StartGvproxyStep
  <2>2. UNCHANGED child \/ endpoint' = NoOne
    BY <1>0, <1>10, StartGvproxyStep
  <2>3. PathStep
    BY <2>1, <2>2 DEF PathStep
  <2>4. QED
    BY <1>b, <2>1, <2>3
<1>11. ASSUME NEW i \in Instance, StartVmm(i)
      PROVE  PathStep /\ Reach
  <2>1. UNCHANGED <<endpoint, net, reached>>
    BY <1>0, <1>11, StartVmmStep
  <2>2. \A j \in Instance : child'[j]["gvproxy"] = child[j]["gvproxy"]
    BY <1>0, <1>11, StartVmmStep, InstanceFacts DEF ChildSet
  <2>3. QED
    BY <1>a, <1>b, <2>1, <2>2
<1>12. ASSUME NEW i \in Instance, WaitSSH(i)
      PROVE  PathStep /\ Reach
  <2>1. UNCHANGED <<endpoint, child, net>>
    BY <1>12 DEF WaitSSH
  <2>2. CASE UNCHANGED reached
    BY <1>a, <1>b, <2>1, <2>2
  <2>3. CASE mach[i] = "waitSSH" /\ SSHCall(i)
    <3>1. ASSUME NEW g \in GuestsOf(i),
                 reached' = [reached EXCEPT ![i] = @ \cup {g}],
                 NEW j \in Instance
          PROVE  ReachStep(j)
      BY <1>0, <2>1, <2>3, <3>1 DEF ReachStep, GuestsOf, TypeOK
    <3>2. QED
      BY <1>a, <1>b, <2>1, <2>3, <3>1 DEF SSHCall
  <2>4. QED
    BY <1>12, <2>2, <2>3 DEF WaitSSH
<1>13. ASSUME NEW i \in Instance, Hook(i)
      PROVE  PathStep /\ Reach
  <2>1. UNCHANGED <<endpoint, child, net>>
    BY <1>13 DEF Hook
  <2>2. CASE UNCHANGED reached
    BY <1>a, <1>b, <2>1, <2>2
  <2>3. CASE i \in sshReady /\ SSHCall(i)
    <3>1. ASSUME NEW g \in GuestsOf(i),
                 reached' = [reached EXCEPT ![i] = @ \cup {g}],
                 NEW j \in Instance
          PROVE  ReachStep(j)
      BY <1>0, <2>1, <2>3, <3>1 DEF ReachStep, GuestsOf, TypeOK
    <3>2. QED
      BY <1>a, <1>b, <2>1, <2>3, <3>1 DEF SSHCall
  <2>4. QED
    BY <1>13, <2>2, <2>3 DEF Hook
<1>14. ASSUME NEW i \in Instance, ProcessExit(i)
      PROVE  PathStep /\ Reach
  <2>1. UNCHANGED <<endpoint, child, net>>
    BY <1>14 DEF ProcessExit
  <2>2. \A j \in Instance : reached'[j] \subseteq reached[j]
    BY <1>0, <1>14 DEF ProcessExit, Ended, TypeOK
  <2>3. QED
    BY <1>a, <2>1, <2>2 DEF ReachStep
<1>15. ASSUME NEW i \in Instance, Crash(i)
      PROVE  PathStep /\ Reach
  <2>1. UNCHANGED <<endpoint, child, net>>
    BY <1>15 DEF Crash
  <2>2. \A j \in Instance : reached'[j] \subseteq reached[j]
    BY <1>0, <1>15 DEF Crash, Ended, TypeOK
  <2>3. QED
    BY <1>a, <2>1, <2>2 DEF ReachStep
<1>16. ASSUME NEW i \in Instance, GvproxyListens(i)
      PROVE  PathStep /\ Reach
  <2>1. /\ child[i]["gvproxy"] = "named"
        /\ endpoint' = i \/ UNCHANGED endpoint
        /\ UNCHANGED <<net, reached>>
    BY <1>0, <1>16, GvproxyListensStep
  <2>2. ASSUME NEW j \in Instance, child'[j]["gvproxy"] # "none"
        PROVE  child[j]["gvproxy"] # "none"
    BY <1>0, <1>16, <2>1, <2>2, GvproxyListensStep, InstanceFacts DEF ChildSet
  <2>3. QED
    BY <1>b, <2>1, <2>2 DEF PathStep
<1>17. ASSUME NEW i \in Instance, VmmAttaches(i)
      PROVE  PathStep /\ Reach
  <2>1. UNCHANGED <<endpoint, reached>>
    BY <1>0, <1>17, VmmAttachesStep
  <2>2. \A j \in Instance : child'[j]["gvproxy"] = child[j]["gvproxy"]
    BY <1>0, <1>17, VmmAttachesStep, InstanceFacts DEF ChildSet
  <2>3. ASSUME NEW j \in Instance
        PROVE  net'[j] \in {net[j], NoOne} \/ (j = i /\ net'[j] = endpoint)
    BY <1>0, <1>17, VmmAttachesStep DEF TypeOK
  <2>4. child[i]["vmm"] # "none"
    BY <1>0, <1>17, VmmAttachesStep
  <2>5. QED
    BY <1>a, <2>1, <2>2, <2>3, <2>4 DEF ReachStep
<1>18. ASSUME NEW i \in Instance, GvproxyWritesPid(i)
      PROVE  PathStep /\ Reach
  <2>1. /\ UNCHANGED <<endpoint, reached>>
        /\ \A j \in Instance : net'[j] \in {net[j], NoOne}
    BY <1>0, <1>18, GvproxyWritesPidStep
  <2>2. ASSUME NEW j \in Instance, child'[j]["gvproxy"] # "none"
        PROVE  child[j]["gvproxy"] # "none"
    BY <1>0, <1>c, <1>18, <2>2, GvproxyWritesPidStep, InstanceFacts
       DEF ChildSet, AtLarge
  <2>3. QED
    BY <1>a, <2>1, <2>2 DEF ReachStep
<1>19. ASSUME NEW i \in Instance, NEW k \in Kind, KillChild(i, k)
      PROVE  PathStep /\ Reach
  <2>1. /\ UNCHANGED <<endpoint, reached>>
        /\ \A j \in Instance : net'[j] \in {net[j], NoOne}
    BY <1>0, <1>19, KillChildStep
  <2>2. ASSUME NEW j \in Instance, child'[j]["gvproxy"] # "none"
        PROVE  child[j]["gvproxy"] # "none"
    BY <1>0, <1>c, <1>19, <2>2, KillChildStep, KilledFacts, InstanceFacts
       DEF ChildSet, AtLarge
  <2>3. QED
    BY <1>a, <2>1, <2>2 DEF ReachStep
<1>20. ASSUME NEW i \in Instance, NEW k \in Kind, ProcessEnds(i, k)
      PROVE  PathStep /\ Reach
  <2>1. /\ UNCHANGED <<endpoint, reached>>
        /\ \A j \in Instance : net'[j] \in {net[j], NoOne}
    BY <1>0, <1>20, ProcessEndsStep
  <2>2. ASSUME NEW j \in Instance, child'[j]["gvproxy"] # "none"
        PROVE  child[j]["gvproxy"] # "none"
    BY <1>0, <1>c, <1>20, <2>2, ProcessEndsStep, InstanceFacts
       DEF ChildSet, AtLarge
  <2>3. QED
    BY <1>a, <2>1, <2>2 DEF ReachStep
<1>21. ASSUME NEW i \in Instance, NEW k \in Kind, PidReused(i, k)
      PROVE  PathStep /\ Reach
  <2>1. /\ UNCHANGED <<endpoint, reached>>
        /\ \A j \in Instance : net'[j] \in {net[j], NoOne}
    BY <1>0, <1>21, PidReusedStep
  <2>2. ASSUME NEW j \in Instance, child'[j]["gvproxy"] # "none"
        PROVE  child[j]["gvproxy"] # "none"
    BY <1>0, <1>c, <1>21, <2>2, PidReusedStep, InstanceFacts
       DEF ChildSet, AtLarge
  <2>3. QED
    BY <1>a, <2>1, <2>2 DEF ReachStep
<1>22. ASSUME UNCHANGED vars
      PROVE  PathStep /\ Reach
  BY <1>22, <1>a, <1>b DEF vars
<1> HIDE DEF Reach
<1>23. PathStep /\ Reach
  BY <1>1, <1>2, <1>3, <1>4, <1>5, <1>6, <1>7, <1>8, <1>9, <1>10, <1>11, <1>12,
     <1>13, <1>14, <1>15, <1>16, <1>17, <1>18, <1>19, <1>20, <1>21, <1>22 DEF
     Next, Machine, Processes
<1>24. QED
  BY <1>23 DEF Reach

LEMMA EndpointNext == IInv /\ [Next]_vars => EndpointInv'
<1> SUFFICES ASSUME IInv, [Next]_vars, NEW i \in Instance, NEW j \in Instance,
                    i < j, child'[j]["gvproxy"] # "none", i \notin crowded'
             PROVE  endpoint' # i
    BY DEF EndpointInv
<1>1. PathStep /\ RunStep(i)
  BY PathsNext, RunsNext
<1>2. i \notin crowded
  BY <1>1 DEF RunStep
<1>3. CASE child[j]["gvproxy"] = "none"
  BY <1>1, <1>3, InstanceFacts DEF PathStep
<1>4. CASE child[j]["gvproxy"] # "none"
  <2>1. endpoint # i
    BY <1>2, <1>4 DEF IInv, EndpointInv
  <2>2. child[i]["gvproxy"] # "named"
    <3>1. OnFile(i, "gvproxy") => ~PastKill(j, "gvproxy")
      BY InstanceFacts DEF IInv, FileInv
    <3>2. QED
      BY <1>2, <1>4, <3>1, InstanceFacts DEF OnFile, PastKill, AtLarge
  <2>3. QED
    BY <1>1, <2>1, <2>2, InstanceFacts DEF PathStep
<1>5. QED
  BY <1>3, <1>4

LEMMA NetworkNext == IInv /\ [Next]_vars => NoStaleNetwork'
<1> SUFFICES ASSUME IInv, [Next]_vars, NEW i \in Instance
             PROVE  \/ net'[i] = NoOne
                    \/ net'[i] >= i
                    \/ net'[i] \in crowded'
    BY DEF NoStaleNetwork
<1>1. ReachStep(i) /\ RunStep(i)
  BY PathsNext, RunsNext
<1>2. net[i] = NoOne \/ net[i] >= i \/ net[i] \in crowded
  BY DEF IInv, NoStaleNetwork
<1>3. CASE net'[i] = endpoint /\ child[i]["vmm"] # "none"
  <2>1. child[i]["gvproxy"] # "none"
    BY <1>3 DEF IInv, ChildInv
  <2>2. endpoint \in {NoOne} \cup Instance
    BY DEF IInv, TypeOK
  <2>3. endpoint \in Instance /\ endpoint < i => endpoint \in crowded
    BY <2>1 DEF IInv, EndpointInv
  <2>4. endpoint \in Instance => endpoint < i \/ endpoint >= i
    BY DEF Instance
  <2>5. QED
    BY <1>1, <1>3, <2>2, <2>3, <2>4 DEF RunStep
<1>4. QED
  BY <1>1, <1>2, <1>3 DEF ReachStep, RunStep

\* While run i's gvproxy is at large, no other guest is up than those that the
\* pid files have lost: an earlier run's has been killed before i's vmm was
\* started, and a later run kills i's gvproxy before it starts its own.
LEMMA OthersDown ==
  ASSUME IInv, NEW i \in Instance, NEW g \in Instance,
         child[i]["vmm"] # "none", child[i]["gvproxy"] \in AtLarge,
         i \notin crowded, child[g]["vmm"] \in AtLarge
  PROVE  g \in {i} \cup lost \cup crowded
<1>1. main[g] # "off" /\ main[i] # "off"
  BY DEF IInv, MainInv, AtLarge
<1>2. CASE g < i /\ g \notin lost \cup crowded
  <2>1. mach[g] # "pidFile"
    <3>1. ~Unfinished(g)
      BY <1>1, <1>2 DEF IInv, MetInv
    <3>2. mach[g] = "pidFile" => Alive(g)
      BY DEF IInv, MainInv, TypeOK, Over, Alive
    <3>3. QED
      BY <3>1, <3>2 DEF Unfinished
  <2>2. OnFile(g, "vmm")
    BY <1>2, <2>1 DEF OnFile
  <2>3. ~PastKill(i, "vmm")
    BY <1>2, <2>2, InstanceFacts DEF IInv, FileInv
  <2>4. QED
    BY <2>3 DEF PastKill
<1>3. CASE i < g
  <2>1. child[i]["gvproxy"] # "fresh"
    <3>1. ~Unfinished(i)
      BY <1>1, <1>3 DEF IInv, MetInv
    <3>2. QED
      BY <3>1 DEF Unfinished
  <2>2. OnFile(i, "gvproxy")
    BY <2>1, InstanceFacts DEF OnFile
  <2>3. ~PastKill(g, "gvproxy")
    BY <1>3, <2>2, InstanceFacts DEF IInv, FileInv
  <2>4. child[g]["gvproxy"] # "none"
    BY DEF IInv, ChildInv, AtLarge
  <2>5. QED
    BY <2>3, <2>4 DEF PastKill
<1>4. QED
  BY <1>2, <1>3, InstanceFacts

LEMMA ReachNext == IInv /\ [Next]_vars => SSHReachesOwnGuest'
<1> SUFFICES ASSUME IInv, [Next]_vars, NEW i \in Instance, i \notin crowded',
                    child'[i]["gvproxy"] \notin Gone \cup {"dying"}
             PROVE  reached'[i] \subseteq {i} \cup lost' \cup crowded'
    BY DEF SSHReachesOwnGuest
<1>1. ReachStep(i) /\ RunStep(i) /\ ComesOnFile(i) /\ Onward(i, "gvproxy")
  BY PathsNext, RunsNext, FilesNext, OnwardNext, InstanceFacts
<1>2. i \notin crowded /\ crowded \subseteq crowded' /\ lost \subseteq lost'
  BY <1>1 DEF RunStep, ComesOnFile
<1>3. child[i]["gvproxy"] \in {"none"} \cup AtLarge
  <2>1. {child[i]["gvproxy"], child'[i]["gvproxy"]} \subseteq ProcState
    BY TypeNext, InstanceFacts DEF IInv, TypeOK
  <2>2. QED
    BY <1>1, <2>1 DEF Onward, ProcState, AtLarge, Gone
<1>4. reached[i] \subseteq {i} \cup lost \cup crowded
  BY <1>2, <1>3 DEF IInv, SSHReachesOwnGuest, AtLarge, Gone
<1>5. CASE reached'[i] \subseteq reached[i]
  BY <1>2, <1>4, <1>5
<1>6. CASE /\ mach[i] = "waitSSH" \/ i \in sshReady
           /\ \A g \in reached'[i] \ reached[i] : child[g]["vmm"] = "up"
  <2>1. child[i]["vmm"] # "none" /\ child[i]["gvproxy"] # "none"
    BY <1>6 DEF IInv, ChildInv
  <2>2. reached'[i] \subseteq Instance
    BY TypeNext DEF TypeOK
  <2>3. ASSUME NEW g \in reached'[i] \ reached[i]
        PROVE  g \in {i} \cup lost \cup crowded
    <3>1. g \in Instance /\ child[g]["vmm"] \in AtLarge
      BY <1>6, <2>2, <2>3 DEF AtLarge
    <3>2. QED
      BY <1>2, <1>3, <2>1, <3>1, OthersDown
  <2>4. QED
    BY <1>2, <1>4, <2>3
<1>7. QED
  BY <1>1, <1>5, <1>6 DEF ReachStep

-----------------------------------------------------------------------------
(* The theorems *)

LEMMA Invariance == Spec => []IInv
<1>1. IInv /\ [Next]_vars => IInv'
  BY TypeNext, MainNext, ChildNext, AimNext, MetNext, FileNext, EndpointNext,
     NetworkNext, ReachNext DEF IInv
<1>2. QED
  BY <1>1, InitIInv, PTL DEF Spec

\* The variables keep their types, for any number of runs.
THEOREM TypeCorrect == Spec => []TypeOK
<1>1. IInv => TypeOK
  BY DEF IInv
<1>2. QED
  BY <1>1, Invariance, PTL

\* However many runs there have been, at most one guest writes to the disks of
\* the workspace, save that of a run that overlapped with another's start or
\* that died with its vmm not on file: KillExpectProcNameFromPPIDFile, run
\* before cmd.Start, has struck the one before.
THEOREM DisksHaveOneWriter == Spec => []OneWriter
<1>1. IInv => OneWriter
  <2> SUFFICES ASSUME IInv, NEW i \in Instance, NEW j \in Instance, i < j,
                      child[i]["vmm"] \in AtLarge,
                      child[j]["vmm"] \in AtLarge,
                      i \notin crowded \cup lost
               PROVE  FALSE
      BY DEF OneWriter
  <2>1. main[j] # "off"
    BY DEF IInv, MainInv, AtLarge
  <2>2. ~Unfinished(i)
    BY <2>1 DEF IInv, MetInv
  <2>3. mach[i] # "pidFile"
    BY <2>2 DEF IInv, MainInv, TypeOK, Over, Alive, Unfinished
  <2>4. OnFile(i, "vmm")
    BY <2>3 DEF OnFile
  <2>5. ~PastKill(j, "vmm")
    BY <2>4, InstanceFacts DEF IInv, FileInv
  <2>6. QED
    BY <2>5 DEF PastKill, AtLarge
<1>2. QED
  BY <1>1, Invariance, PTL

\* No guest is attached to the gvproxy of an earlier run that it has not met:
\* gvproxy.Start removed that one's endpoint.
THEOREM NetworkIsNotStale == Spec => []NoStaleNetwork
<1>1. IInv => NoStaleNetwork
  BY DEF IInv
<1>2. QED
  BY <1>1, Invariance, PTL

\* The ssh commands of a run reach its own guest.
THEOREM ReachesOwnGuest == Spec => []SSHReachesOwnGuest
<1>1. IInv => SSHReachesOwnGuest
  BY DEF IInv
<1>2. QED
  BY <1>1, Invariance, PTL

\* A program that has taken the pid of an earlier run's child is left alone:
\* the name is checked before the kill.
THEOREM OthersAreSpared == Spec => SparesOthers
<1>1. IInv /\ [Next]_vars =>
        [\A i \in Instance, k \in Kind :
           child[i][k] = "other" => child'[i][k] = "other"]_vars
  BY OnwardNext DEF Onward
<1>2. QED
  BY <1>1, Invariance, PTL DEF Spec, SparesOthers

=============================================================================
