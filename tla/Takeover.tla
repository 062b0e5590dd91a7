------------------------------ MODULE Takeover ------------------------------
(***************************************************************************)
(* Several runs of `ovm start` on one workspace.  The host application has *)
(* been restarted: the old run has yet to notice, is on its way out, or    *)
(* was killed and left its children behind, while the new one starts.      *)
(*                                                                         *)
(* No lock keeps them apart.  They share the two pid files, the path of    *)
(* gvproxy's endpoint, the ssh port and the disks.  Lifecycle is one run   *)
(* alone; here a run has only the steps that touch what is shared.  The    *)
(* files that runs share by path alone are in HostFiles.                   *)
(***************************************************************************)
EXTENDS Naturals

CONSTANT MaxStarts      \* runs of `ovm start`, numbered as they begin

ASSUME TakeoverAssumption == MaxStarts \in Nat

Instance == 1 .. MaxStarts
NoOne == 0
Kind == {"gvproxy", "vmm"}

VARIABLES
    main,       \* the ovm process; ending: the group's context has ended
    mach,       \* where its machine goroutine stands
    cancelled,  \* the runs whose hook has ended the children's context
    sshReady,   \* the runs whose VMState.SSHReady is set
    aim,        \* the process a run has found by a pid file and is to kill
    child,      \* the processes the runs have started
    pidFile,    \* whose child each pid file names
    endpoint,   \* whose gvproxy made the file at the endpoint's path
    port,       \* which ssh port a run has chosen
    net,        \* the gvproxy to which a run's vmm is attached
    reached,    \* the guests a run's ssh calls have reached
    crowded,    \* history: the runs whose start met an unfinished one
    lost        \* history: the runs whose vmm no pid file ever named

runVars == <<main, mach, cancelled, sshReady, aim>>
procVars == <<child, pidFile, net>>
pathVars == <<endpoint, port>>
histVars == <<reached, crowded, lost>>
vars == <<runVars, procVars, pathVars, histVars>>

\* fresh: a gvproxy that has not written its pid file, a vmm not yet attached;
\* named: a gvproxy that has, but does not listen; dying: SIGKILL is sent;
\* other, late: the process is gone and its pid is another program's, taken in
\* the second case while somebody was about to kill it.
ProcState == {"none", "fresh", "named", "up", "dying", "dead", "other", "late"}
AtLarge == {"fresh", "named", "up"}
Gone == {"dead", "other", "late"}

TypeOK ==
    /\ main \in [Instance -> {"off", "up", "ending", "exited", "crashed"}]
    /\ mach \in [Instance ->
         {"none", "findGvproxy", "killGvproxy", "startGvproxy", "waitSock",
          "findVmm", "killVmm", "startVmm", "pidFile", "waitSSH", "raceWait",
          "returned"}]
    /\ {cancelled, sshReady} \subseteq SUBSET Instance
    /\ aim \in [Instance -> {NoOne} \cup Instance]
    /\ child \in [Instance -> [Kind -> ProcState]]
    /\ pidFile \in [Kind -> {NoOne} \cup Instance]
    /\ endpoint \in {NoOne} \cup Instance
    /\ port \in [Instance -> {"none", "config", "free"}]
    /\ net \in [Instance -> {NoOne} \cup Instance]
    /\ reached \in [Instance -> SUBSET Instance]
    /\ {crowded, lost} \subseteq SUBSET Instance

Init ==
    /\ main = [i \in Instance |-> "off"]
    /\ mach = [i \in Instance |-> "none"]
    /\ cancelled = {} /\ sshReady = {}
    /\ aim = [i \in Instance |-> NoOne]
    /\ child = [i \in Instance |-> [k \in Kind |-> "none"]]
    /\ pidFile = [k \in Kind |-> NoOne]
    /\ endpoint = NoOne
    /\ port = [i \in Instance |-> "none"]
    /\ net = [i \in Instance |-> NoOne]
    /\ reached = [i \in Instance |-> {}]
    /\ crowded = {} /\ lost = {}

Alive(i) == main[i] \in {"up", "ending"}

\* Run i may still start a child, or has started one that no pid file names.
Unfinished(i) ==
    \/ /\ Alive(i)
       /\ mach[i] \in {"findGvproxy", "killGvproxy", "startGvproxy",
                       "waitSock", "findVmm", "killVmm", "startVmm", "pidFile"}
    \/ child[i]["gvproxy"] = "fresh"

MachGoto(i, l) == mach' = [mach EXCEPT ![i] = l]

\* The machine goroutine returns, which ends the group's context.
MachReturns(i) ==
    /\ MachGoto(i, "returned")
    /\ main' = [main EXCEPT ![i] = "ending"]

SetChild(i, k, s) == child' = [child EXCEPT ![i][k] = s]

\* SIGKILL to what holds the pid of run i's child: whoever it is by now.
Killed(s) == CASE s = "up"                                    -> "dying"
               [] s \in {"fresh", "named", "other", "late"}   -> "dead"
               [] OTHER                                       -> s

-----------------------------------------------------------------------------
(* The run of an instance *)

\* The parent is alive and the config loads; shim.Start attaches its hook.
StartInstance(i) ==
    /\ main[i] = "off"
    /\ \A j \in 1 .. i - 1 : main[j] # "off"
    /\ main' = [main EXCEPT ![i] = "up"]
    /\ MachGoto(i, "findGvproxy")
    /\ LET met == {j \in Instance : Unfinished(j)}
       IN crowded' = crowded \cup met \cup {x \in {i} : met # {}}
    /\ UNCHANGED <<cancelled, sshReady, aim, procVars, pathVars, reached,
                   lost>>

BugNoNameCheck(s) == s \notin {"none", "dead"}

\* FindProcessByPid and proc.Name: the pid is running and has the name expected.
HasName(s) == s \in AtLarge \cup {"dying"}
Found(k) == pidFile[k] # NoOne /\ HasName(child[pidFile[k]][k])

\* KillExpectProcNameFromPPIDFile, up to its check; every error is only logged.
FindOld(i, k, found, next) ==
    /\ \/ /\ Found(k)
          /\ aim' = [aim EXCEPT ![i] = pidFile[k]]
          /\ MachGoto(i, found)
       \/ /\ ~Found(k)
          /\ MachGoto(i, next)
          /\ UNCHANGED aim
    /\ UNCHANGED <<main, cancelled, sshReady, procVars, pathVars, histVars>>

\* ... and its kill, which does not wait for the process to end.
KillOld(i, k, next) ==
    /\ SetChild(aim[i], k, Killed(child[aim[i]][k]))
    /\ MachGoto(i, next)
    /\ aim' = [aim EXCEPT ![i] = NoOne]
    /\ UNCHANGED <<main, cancelled, sshReady, pidFile, net, pathVars,
                   histVars>>

FindGvproxy(i) ==
    /\ mach[i] = "findGvproxy"
    /\ FindOld(i, "gvproxy", "killGvproxy", "startGvproxy")

KillGvproxy(i) ==
    /\ mach[i] = "killGvproxy"
    /\ KillOld(i, "gvproxy", "startGvproxy")

\* The processes that listen on the port of the config.
ConfigPortUsers ==
    {j \in Instance : /\ port[j] = "config"
                      /\ child[j]["gvproxy"] \in {"up", "dying"}}

BugPortUnset == "unset"

\* GetSSHPort: another port than the config's when somebody listens there.
ChosenPort == IF ConfigPortUsers # {} THEN "free" ELSE "config"

BugKeepEndpoint == endpoint
EndpointRemoved == NoOne

StartGvproxy(i) ==
    /\ mach[i] = "startGvproxy"
    /\ \/ /\ port' = [port EXCEPT ![i] = ChosenPort]
          /\ endpoint' = EndpointRemoved
          /\ \/ /\ i \notin cancelled
                /\ SetChild(i, "gvproxy", "fresh")
                /\ MachGoto(i, "waitSock")
                /\ UNCHANGED main
             \/ MachReturns(i) /\ UNCHANGED child
       \/ MachReturns(i) /\ UNCHANGED <<child, pathVars>>
    /\ UNCHANGED <<cancelled, sshReady, aim, pidFile, net, histVars>>

\* waitForSocket asks whether the file is there, not whose it is.
WaitForSocket(i) ==
    /\ mach[i] = "waitSock"
    /\ \/ endpoint # NoOne /\ MachGoto(i, "findVmm") /\ UNCHANGED main
       \/ i \in cancelled /\ MachReturns(i)
       \/ endpoint = NoOne /\ MachReturns(i)
    /\ UNCHANGED <<cancelled, sshReady, aim, procVars, pathVars, histVars>>

FindVmm(i) ==
    /\ mach[i] = "findVmm"
    /\ FindOld(i, "vmm", "killVmm", "startVmm")

KillVmm(i) ==
    /\ mach[i] = "killVmm"
    /\ KillOld(i, "vmm", "startVmm")

StartVmm(i) ==
    /\ mach[i] = "startVmm"
    /\ \/ /\ i \notin cancelled
          /\ SetChild(i, "vmm", "fresh")
          /\ MachGoto(i, "pidFile")
          /\ UNCHANGED main
       \/ MachReturns(i) /\ UNCHANGED child
    /\ UNCHANGED <<cancelled, sshReady, aim, pidFile, net, pathVars, histVars>>

BugNoPidFile(i) == pidFile' = pidFile
NamesVmm(i) == pidFile' = [pidFile EXCEPT !["vmm"] = i]

\* The vmm is running while its pid file is written, which may fail.
WritePidFile(i) ==
    /\ mach[i] = "pidFile"
    /\ \/ /\ NamesVmm(i)
          /\ MachGoto(i, "waitSSH")
          /\ UNCHANGED <<main, lost>>
       \/ /\ MachReturns(i)
          /\ lost' = lost \cup {i}
          /\ UNCHANGED pidFile
    /\ UNCHANGED <<cancelled, sshReady, aim, child, net, pathVars, reached,
                   crowded>>

\* The gvproxy that answers on the port run i talks to.
PortServer(i) ==
    {j \in Instance : /\ child[j]["gvproxy"] = "up"
                      /\ j = i \/ (port[i] = "config" /\ port[j] = "config")}

\* The guests behind it.
GuestsOf(i) ==
    {g \in Instance : child[g]["vmm"] = "up" /\ net[g] \in PortServer(i)}

\* An ssh call of run i reaches a guest, or fails.
SSHCall(i) ==
    \/ \E g \in GuestsOf(i) : reached' = [reached EXCEPT ![i] = @ \cup {g}]
    \/ UNCHANGED reached

\* WaitSSHStarted: a guest answers, the tries are used up, or the context ends;
\* SSHReady is set and Ready is reported in each case.
WaitSSH(i) ==
    /\ mach[i] = "waitSSH"
    /\ SSHCall(i)
    /\ sshReady' = sshReady \cup {i}
    /\ MachGoto(i, "raceWait")
    /\ UNCHANGED <<main, cancelled, aim, procVars, pathVars, crowded,
                   lost>>

SomeChildExited(i) == \E k \in Kind : child[i][k] \in Gone

RaceWait(i) ==
    /\ mach[i] = "raceWait"
    /\ SomeChildExited(i)
    /\ MachReturns(i)
    /\ UNCHANGED <<cancelled, sshReady, aim, procVars, pathVars, histVars>>

Machine(i) ==
    /\ Alive(i)
    /\ \/ FindGvproxy(i) \/ KillGvproxy(i) \/ StartGvproxy(i)
       \/ WaitForSocket(i)
       \/ FindVmm(i) \/ KillVmm(i) \/ StartVmm(i) \/ WritePidFile(i)
       \/ WaitSSH(i) \/ RaceWait(i)

\* The hook runs when the group's context ends: DoSync over ssh if the machine
\* was ready, then cancel.
Hook(i) ==
    /\ main[i] = "ending"
    /\ i \notin cancelled
    /\ IF i \in sshReady THEN SSHCall(i) ELSE UNCHANGED reached
    /\ cancelled' = cancelled \cup {i}
    /\ UNCHANGED <<main, mach, sshReady, aim, procVars, pathVars, crowded,
                   lost>>

-----------------------------------------------------------------------------
(* The end of an instance *)

\* The parent is gone, or a signal came: the group's context ends.
EndBegins(i) ==
    /\ main[i] = "up"
    /\ main' = [main EXCEPT ![i] = "ending"]
    /\ UNCHANGED <<mach, cancelled, sshReady, aim, procVars, pathVars,
                   histVars>>

\* The goroutines of run i are gone with its process.
Ended(i, how) ==
    /\ main' = [main EXCEPT ![i] = how]
    /\ MachGoto(i, "none")
    /\ cancelled' = cancelled \ {i}
    /\ sshReady' = sshReady \ {i}
    /\ aim' = [aim EXCEPT ![i] = NoOne]
    /\ reached' = [reached EXCEPT ![i] = {}]

\* g.Wait returns and main exits, whether or not the hook has run.
ProcessExit(i) ==
    /\ main[i] = "ending"
    /\ mach[i] = "returned"
    /\ Ended(i, "exited")
    /\ UNCHANGED <<procVars, pathVars, crowded, lost>>

\* ovm is killed: its goroutines stop where they are, its children run on.
Crash(i) ==
    /\ Alive(i)
    /\ Ended(i, "crashed")
    /\ lost' = lost \cup {x \in {i} : mach[i] = "pidFile"}
    /\ UNCHANGED <<procVars, pathVars, crowded>>

-----------------------------------------------------------------------------
(* The processes *)

\* os/exec kills a child whose context has ended, by its own handle.
KillChild(i, k) ==
    /\ Alive(i)
    /\ i \in cancelled
    /\ child[i][k] \in AtLarge
    /\ SetChild(i, k, Killed(child[i][k]))
    /\ UNCHANGED <<runVars, pidFile, net, pathVars, histVars>>

\* A killed process ends; any process may fail, and a guest may power off.
ProcessEnds(i, k) ==
    /\ child[i][k] \in AtLarge \cup {"dying"}
    /\ SetChild(i, k, "dead")
    /\ net' = IF k = "vmm" THEN [net EXCEPT ![i] = NoOne] ELSE net
    /\ UNCHANGED <<runVars, pidFile, pathVars, histVars>>

\* gvproxy writes its pid file first and then makes its two listeners; it ends
\* if the port or the path is taken.
GvproxyWritesPid(i) ==
    /\ child[i]["gvproxy"] = "fresh"
    /\ SetChild(i, "gvproxy", "named")
    /\ pidFile' = [pidFile EXCEPT !["gvproxy"] = i]
    /\ UNCHANGED <<runVars, net, pathVars, histVars>>

GvproxyListens(i) ==
    /\ child[i]["gvproxy"] = "named"
    /\ \/ /\ endpoint = NoOne
          /\ port[i] = "config" => ConfigPortUsers = {}
          /\ SetChild(i, "gvproxy", "up")
          /\ endpoint' = i
       \/ /\ endpoint # NoOne \/ (port[i] = "config" /\ ConfigPortUsers # {})
          /\ SetChild(i, "gvproxy", "dead")
          /\ UNCHANGED endpoint
    /\ UNCHANGED <<runVars, pidFile, net, port, histVars>>

\* The vmm attaches to the gvproxy behind the endpoint's path, which may have
\* been killed and not yet be gone, or ends.
VmmAttaches(i) ==
    /\ child[i]["vmm"] = "fresh"
    /\ LET there == /\ endpoint # NoOne
                    /\ child[endpoint]["gvproxy"] \in {"up", "dying"}
       IN /\ SetChild(i, "vmm", IF there THEN "up" ELSE "dead")
          /\ net' = [net EXCEPT ![i] = IF there THEN endpoint ELSE NoOne]
    /\ UNCHANGED <<runVars, pidFile, pathVars, histVars>>

Aimed(i, k) ==
    \E j \in Instance :
        /\ aim[j] = i
        /\ mach[j] = IF k = "vmm" THEN "killVmm" ELSE "killGvproxy"

\* The pid of a child that was waited for goes to another program.
PidReused(i, k) ==
    /\ child[i][k] = "dead"
    /\ ~Alive(i) \/ mach[i] \in {"raceWait", "returned"}
    /\ Aimed(i, k) \/ pidFile[k] = i
    /\ SetChild(i, k, IF Aimed(i, k) THEN "late" ELSE "other")
    /\ UNCHANGED <<runVars, pidFile, net, pathVars, histVars>>

Processes(i) ==
    \/ GvproxyWritesPid(i) \/ GvproxyListens(i) \/ VmmAttaches(i)
    \/ \E k \in Kind : KillChild(i, k) \/ ProcessEnds(i, k) \/ PidReused(i, k)

Next ==
    \E i \in Instance :
        \/ StartInstance(i) \/ Machine(i) \/ Hook(i)
        \/ EndBegins(i) \/ ProcessExit(i) \/ Crash(i)
        \/ Processes(i)

Spec == Init /\ [][Next]_vars

-----------------------------------------------------------------------------
(* Properties *)

\* At most one guest writes to the disks of the workspace: when a later run's
\* vmm is at large the earlier run's has been killed by its pid file, unless
\* two starts overlapped or a run died with its vmm not yet on file.
OneWriter ==
    \A i, j \in Instance :
        /\ i < j
        /\ child[i]["vmm"] \in AtLarge
        /\ child[j]["vmm"] \in AtLarge
        => i \in crowded \cup lost

\* A guest is never attached to the gvproxy of an earlier run, which is about
\* to be killed: gvproxy.Start removes the endpoint's file before it starts
\* its own, and waitForSocket, which only asks whether the file is there,
\* relies on that.  A gvproxy whose start overlapped with another's may have
\* lost its pid file to that one, and make the endpoint late.
NoStaleNetwork ==
    \A i \in Instance :
        net[i] = NoOne \/ net[i] >= i \/ net[i] \in crowded

\* The commands of a run, the sync of its disks among them, reach its own guest
\* and no other, for as long as its gvproxy runs: two runs do not listen on
\* one port (GetSSHPort), and a gvproxy serves the one guest of its run, unless
\* a guest that no pid file names, or no longer, comes to it late.
SSHReachesOwnGuest ==
    \A i \in Instance :
        \/ reached[i] \subseteq {i} \cup lost \cup crowded
        \/ i \in crowded
        \/ child[i]["gvproxy"] \in Gone \cup {"dying"}

\* A pid file outlives its process, and the pid may be another program's by the
\* next start: KillExpectProcNameFromPPIDFile leaves that program alone.
SparesOthers ==
    [][\A i \in Instance, k \in Kind :
         child[i][k] = "other" => child'[i][k] = "other"]_vars

=============================================================================
