------------------------------ MODULE Lifecycle ------------------------------
(***************************************************************************)
(* The process started by `ovm start`: the errgroup of cmd/start.go (the   *)
(* parent watcher, the signal listener, the REST service and the goroutine *)
(* that boots the machine), the hook shim.Start attaches to the errgroup   *)
(* context, the gvproxy and krunkit/vfkit children, the guest, and the     *)
(* POST /stop handler.  One action is one step of one goroutine between    *)
(* two points where another goroutine, a child or the guest can act.       *)
(*                                                                         *)
(* An operator named Bug... is a seeded fault: a plausible wrong form of   *)
(* the definition that follows it, used only to show that the properties   *)
(* notice it.                                                              *)
(***************************************************************************)
EXTENDS Naturals, Sequences

CONSTANTS
    MaxTried,      \* attempts of WaitSSHStarted (maxTried, 100 in the code)
    SockTries,     \* attempts of waitForSocket (100 in the code)
    GuestMayHang,  \* may an ssh connection to the guest stay open and silent?
    StopRequests   \* do clients send POST /stop?

ASSUME LifecycleAssumption ==
    /\ MaxTried \in Nat
    /\ SockTries \in Nat
    /\ GuestMayHang \in BOOLEAN
    /\ StopRequests \in BOOLEAN

Child == {"gvproxy", "vmm"}                     \* vmm: krunkit or vfkit
Goroutine == {"watch", "signal", "rest", "start"}   \* the errgroup's

VARIABLES
    ppidAlive,   \* the process named by --ppid exists
    sigPending,  \* sigChan holds a signal
    guest,       \* what the guest's sshd would do with a connection
    sock,        \* gvproxy's endpoint file: absent, left by an old run, ours
    pc,          \* where each goroutine stands
    cause,       \* first error of the errgroup; "none" while its context lives
    readyAtFail, \* history: SSHReady at the moment cause was set
    tries,       \* iterations of the running retry loop
    sshReady, podmanReady,  \* VMState
    synced,      \* history: outcome of the hook's DoSync
    child,       \* state of each child process
    registered,  \* registry.cmds
    events       \* events reported, in order

envVars == <<ppidAlive, sigPending, guest, sock>>
groupVars == <<cause, readyAtFail>>
vmVars == <<tries, sshReady, podmanReady>>
procVars == <<child, registered>>
vars == <<envVars, pc, groupVars, vmVars, synced, procVars, events>>

PC == [main   : {"checkPPID", "load", "wait", "notifyError", "notifyExit",
                 "exit", "exited", "signalled"},
       watch  : {"none", "loop", "returned"},
       signal : {"none", "spawned", "listening", "returned"},
       rest   : {"none", "spawned", "serving", "draining", "returned"},
       start  : {"none", "spawned", "gvproxy", "waitSock", "source", "vmm",
                 "pidFile", "sshCheck", "sshCall", "podman", "ready",
                 "raceWait", "returned"},
       hook   : {"unset", "armed", "sync", "cancel", "done"},
       stop   : {"idle", "podman", "sync", "poweroff", "ok", "failed"}]

Event == {"LoadMachineConfig", "StartGvProxy", "StartVMM", "Ready",
          "SyncMachineDisk", "error", "Exit"}

TypeOK ==
    /\ ppidAlive \in BOOLEAN
    /\ sigPending \in BOOLEAN
    /\ guest \in {"none", "booting", "up", "silent", "halted"}
    /\ sock \in {"none", "stale", "ours"}
    /\ pc \in PC
    /\ cause \in {"none"} \cup {"ppid", "signal", "rest", "start"}
    /\ readyAtFail \in BOOLEAN
    /\ tries \in Nat
    /\ sshReady \in BOOLEAN
    /\ podmanReady \in BOOLEAN
    /\ synced \in {"no", "ok", "failed"}
    /\ child \in [Child -> {"none", "running", "died", "killed"}]
    /\ registered \in SUBSET Child
    /\ events \in Seq(Event)

Init ==
    /\ ppidAlive = TRUE
    /\ sigPending = FALSE
    /\ guest = "none"
    /\ sock \in {"none", "stale"}
    /\ pc = [main |-> "checkPPID", watch |-> "none", signal |-> "none",
             rest |-> "none", start |-> "none", hook |-> "unset",
             stop |-> "idle"]
    /\ cause = "none"
    /\ readyAtFail = FALSE
    /\ tries = 0
    /\ sshReady = FALSE
    /\ podmanReady = FALSE
    /\ synced = "no"
    /\ child = [c \in Child |-> "none"]
    /\ registered = {}
    /\ events = <<>>

-----------------------------------------------------------------------------
(* Contexts, errors, events *)

Running == pc.main \notin {"exited", "signalled"}
GroupCtxDone == cause # "none"

\* errgroup.Go: the first non-nil error is kept and cancels the context.
Fail(who) ==
    /\ cause' = IF cause = "none" THEN who ELSE cause
    /\ readyAtFail' = IF cause = "none" THEN sshReady ELSE readyAtFail

Report(e) == events' = Append(events, e)

\* The context handed to the children and the services is made from
\* context.Background(): it ends when the hook has called cancel.
BugVMCtxFromParent == GroupCtxDone /\ pc.hook # "unset"
VMCtxDone == pc.hook = "done"

BugRegistryForgets(c) == registered' = registered
BugRegistersNil(c) == registered' = registered \cup {"nil"}
RegistryCmd(c) == registered' = registered \cup {c}

Exited(c) == child[c] \in {"died", "killed"}

\* An ssh command succeeds or returns an error; while the guest is silent it
\* does neither until gvproxy drops the connection, for no dial, handshake or
\* command of pkg/ssh has a deadline.
SSHCanReturn == guest = "silent" => child["gvproxy"] # "running"
SSHCanSucceed == guest = "up" /\ child["gvproxy"] = "running"

-----------------------------------------------------------------------------
(* main: cmd/start.go start, cmd/main.go notifyAndExit *)

CheckPPID ==
    /\ pc.main = "checkPPID"
    /\ pc' = [pc EXCEPT !.main = IF ppidAlive THEN "load" ELSE "notifyError"]
    /\ UNCHANGED <<envVars, groupVars, vmVars, synced, procVars, events>>

LoadMachine ==
    /\ pc.main = "load"
    /\ Report("LoadMachineConfig")
    /\ \/ pc' = [pc EXCEPT !.main = "wait", !.watch = "loop",
                   !.signal = "spawned", !.rest = "spawned",
                   !.start = "spawned"]
       \/ pc' = [pc EXCEPT !.main = "notifyError"]
    /\ UNCHANGED <<envVars, groupVars, vmVars, synced, procVars>>

BugGroupForgetsStart ==
    \A g \in Goroutine \ {"start"} : pc[g] = "returned"
AllReturned == \A g \in Goroutine : pc[g] = "returned"

GroupWait ==
    /\ pc.main = "wait"
    /\ AllReturned
    /\ pc' = [pc EXCEPT !.main =
                IF cause = "none" THEN "notifyExit" ELSE "notifyError"]
    /\ UNCHANGED <<envVars, groupVars, vmVars, synced, procVars, events>>

NotifyError ==
    /\ pc.main = "notifyError"
    /\ Report("error")
    /\ pc' = [pc EXCEPT !.main = "notifyExit"]
    /\ UNCHANGED <<envVars, groupVars, vmVars, synced, procVars>>

NotifyExit ==
    /\ pc.main = "notifyExit"
    /\ Report("Exit")
    /\ pc' = [pc EXCEPT !.main = "exit"]
    /\ UNCHANGED <<envVars, groupVars, vmVars, synced, procVars>>

\* logrus.Exit ends every goroutine, the hook and os/exec's killers included.
ProcessExit ==
    /\ pc.main = "exit"
    /\ pc' = [pc EXCEPT !.main = "exited"]
    /\ UNCHANGED <<envVars, groupVars, vmVars, synced, procVars, events>>

Main == \/ CheckPPID \/ LoadMachine \/ GroupWait
        \/ NotifyError \/ NotifyExit \/ ProcessExit

-----------------------------------------------------------------------------
(* The three guard goroutines of the errgroup *)

BugWatchOnlyCtx ==
    /\ GroupCtxDone
    /\ UNCHANGED groupVars
WatchTick ==
    \/ GroupCtxDone /\ UNCHANGED groupVars
    \/ ~ppidAlive /\ Fail("ppid")

WatchPPID ==
    /\ Running
    /\ pc.watch = "loop"
    /\ WatchTick
    /\ pc' = [pc EXCEPT !.watch = "returned"]
    /\ UNCHANGED <<envVars, vmVars, synced, procVars, events>>

ListenSignal ==
    /\ Running
    /\ \/ /\ pc.signal = "spawned"
          /\ pc' = [pc EXCEPT !.signal = "listening"]
          /\ UNCHANGED groupVars
       \/ /\ pc.signal = "listening"
          /\ \/ GroupCtxDone /\ UNCHANGED groupVars
             \/ sigPending /\ Fail("signal")
          /\ pc' = [pc EXCEPT !.signal = "returned"]
    /\ UNCHANGED <<envVars, vmVars, synced, procVars, events>>

RestListen ==
    /\ Running
    /\ pc.rest = "spawned"
    /\ \/ pc' = [pc EXCEPT !.rest = "serving"] /\ UNCHANGED groupVars
       \/ pc' = [pc EXCEPT !.rest = "returned"] /\ Fail("rest")
    /\ UNCHANGED <<envVars, vmVars, synced, procVars, events>>

\* The listener breaks: Serve and then RestService return the error.
RestServeFails ==
    /\ Running
    /\ pc.rest = "serving"
    /\ pc' = [pc EXCEPT !.rest = "returned"]
    /\ Fail("rest")
    /\ UNCHANGED <<envVars, vmVars, synced, procVars, events>>

\* <-ctx.Done(): Shutdown closes the listener, Serve returns nil.
BugRestIgnoresCtx == FALSE
RestSeesCtx == GroupCtxDone

RestShutdown ==
    /\ Running
    /\ pc.rest = "serving"
    /\ RestSeesCtx
    /\ pc' = [pc EXCEPT !.rest = "draining"]
    /\ UNCHANGED <<envVars, groupVars, vmVars, synced, procVars, events>>

\* The deferred Shutdown waits one second for handlers, then Close.
RestDrained ==
    /\ Running
    /\ pc.rest = "draining"
    /\ pc' = [pc EXCEPT !.rest = "returned"]
    /\ UNCHANGED <<envVars, groupVars, vmVars, synced, procVars, events>>

Rest == RestListen \/ RestServeFails \/ RestShutdown \/ RestDrained

-----------------------------------------------------------------------------
(* The machine goroutine: shim.Start, gvproxy.Start, startKrunKit and      *)
(* startVFkit, the two readiness waits, shim.RaceWait.  The kill of an     *)
(* earlier run's child by its pid file and the two optional services       *)
(* started at the end change nothing the other goroutines here see.        *)

StartReturnsError ==
    /\ pc' = [pc EXCEPT !.start = "returned"]
    /\ Fail("start")

StartGoto(l) == pc' = [pc EXCEPT !.start = l]

\* shim.Start attaches its hook; a vmType that names no provider is refused.
BeginStart ==
    /\ pc.start = "spawned"
    /\ \/ /\ pc' = [pc EXCEPT !.start = "gvproxy", !.hook = "armed"]
          /\ UNCHANGED groupVars
       \/ StartReturnsError
    /\ UNCHANGED <<envVars, vmVars, synced, procVars, events>>

BugKeepEndpoint == sock' = sock
RemoveEndpoint == sock' = "none"

\* exec.CommandContext refuses to start a command whose context has ended.
BugStartIgnoresCtx == TRUE
MayExec == ~VMCtxDone

\* No binary, no free port, or the endpoint file cannot be removed.
GvproxyPrepareFails ==
    /\ pc.start = "gvproxy"
    /\ StartReturnsError
    /\ UNCHANGED <<envVars, vmVars, synced, procVars, events>>

GvproxyStart ==
    /\ pc.start = "gvproxy"
    /\ RemoveEndpoint
    /\ Report("StartGvProxy")
    /\ \/ /\ MayExec
          /\ child' = [child EXCEPT !["gvproxy"] = "running"]
          /\ tries' = 0
          /\ StartGoto("waitSock")
          /\ UNCHANGED groupVars
       \/ /\ StartReturnsError
          /\ UNCHANGED <<child, tries>>
    /\ UNCHANGED <<ppidAlive, sigPending, guest, sshReady, podmanReady,
                   synced, registered>>

SocketExists == sock # "none"

\* waitForSocket; the deferred RegistryCmd runs whatever it returns.
WaitForSocket ==
    /\ pc.start = "waitSock"
    /\ \/ /\ tries < SockTries /\ ~VMCtxDone /\ ~SocketExists
          /\ tries' = tries + 1
          /\ UNCHANGED <<pc, groupVars, registered>>
       \/ /\ tries < SockTries /\ ~VMCtxDone /\ SocketExists
          /\ RegistryCmd("gvproxy")
          /\ StartGoto("source")
          /\ UNCHANGED <<tries, groupVars>>
       \/ /\ tries >= SockTries \/ VMCtxDone
          /\ RegistryCmd("gvproxy")
          /\ StartReturnsError
          /\ UNCHANGED tries
    /\ UNCHANGED <<envVars, sshReady, podmanReady, synced, child, events>>

\* Skipped when source.ext4 is there, else tar runs and may fail.
ExtractSourceCodeDisk ==
    /\ pc.start = "source"
    /\ \/ StartGoto("vmm") /\ UNCHANGED groupVars
       \/ StartReturnsError
    /\ UNCHANGED <<envVars, vmVars, synced, procVars, events>>

\* Devices, mounts, ignition script or binary path cannot be made.
VMMPrepareFails ==
    /\ pc.start = "vmm"
    /\ StartReturnsError
    /\ UNCHANGED <<envVars, vmVars, synced, procVars, events>>

VMMStart ==
    /\ pc.start = "vmm"
    /\ Report("StartVMM")
    /\ \/ /\ MayExec
          /\ child' = [child EXCEPT !["vmm"] = "running"]
          /\ guest' = "booting"
          /\ StartGoto("pidFile")
          /\ UNCHANGED groupVars
       \/ /\ StartReturnsError
          /\ UNCHANGED <<child, guest>>
    /\ UNCHANGED <<ppidAlive, sigPending, sock, vmVars, synced, registered>>

\* When the pid file cannot be written the running vmm is not registered.
WritePidFile ==
    /\ pc.start = "pidFile"
    /\ \/ /\ RegistryCmd("vmm")
          /\ tries' = 0
          /\ StartGoto("sshCheck")
          /\ UNCHANGED groupVars
       \/ /\ StartReturnsError
          /\ UNCHANGED <<registered, tries>>
    /\ UNCHANGED <<envVars, sshReady, podmanReady, synced, child, events>>

\* SSHReady is set when WaitSSHStarted returns, whatever it returns.  The hook
\* reads it unsynchronised: this step is the store's becoming visible.
LeaveSSHWait ==
    /\ sshReady' = TRUE
    /\ StartGoto("podman")
    /\ UNCHANGED tries

WaitSSHStarted ==
    /\ \/ /\ pc.start = "sshCheck"
          /\ tries >= MaxTried \/ VMCtxDone
          /\ LeaveSSHWait
       \/ /\ pc.start = "sshCheck"
          /\ tries < MaxTried /\ ~VMCtxDone
          /\ StartGoto("sshCall")
          /\ UNCHANGED <<tries, sshReady>>
       \/ /\ pc.start = "sshCall"
          /\ SSHCanSucceed
          /\ LeaveSSHWait
       \/ /\ pc.start = "sshCall"
          /\ SSHCanReturn
          /\ tries' = tries + 1
          /\ StartGoto("sshCheck")
          /\ UNCHANGED sshReady
    /\ UNCHANGED <<envVars, groupVars, podmanReady, synced, procVars, events>>

\* A ping answered, five seconds, or the context ended: PodmanReady is set.
WaitPodmanReady ==
    /\ pc.start = "podman"
    /\ podmanReady' = TRUE
    /\ StartGoto("ready")
    /\ UNCHANGED <<envVars, groupVars, tries, sshReady, synced, procVars,
                   events>>

NotifyReady ==
    /\ pc.start = "ready"
    /\ Report("Ready")
    /\ StartGoto("raceWait")
    /\ UNCHANGED <<envVars, groupVars, vmVars, synced, procVars>>

BugRaceWaitTakesCtx == GroupCtxDone \/ \E c \in registered : Exited(c)
BugRaceWaitForAll == \A c \in registered : Exited(c)
SomeCmdExited == \E c \in registered : Exited(c)

\* The first command to exit ends the wait, always with an error.
RaceWait ==
    /\ pc.start = "raceWait"
    /\ SomeCmdExited
    /\ StartReturnsError
    /\ UNCHANGED <<envVars, vmVars, synced, procVars, events>>

Start ==
    /\ Running
    /\ \/ BeginStart \/ GvproxyPrepareFails \/ GvproxyStart \/ WaitForSocket
       \/ ExtractSourceCodeDisk \/ VMMPrepareFails \/ VMMStart
       \/ WritePidFile \/ WaitSSHStarted \/ WaitPodmanReady \/ NotifyReady
       \/ RaceWait

-----------------------------------------------------------------------------
(* The hook of shim.Start, run in a goroutine of its own *)

BugHookNeverSyncs == FALSE
NeedsSync == sshReady

HookFire ==
    /\ pc.hook = "armed"
    /\ GroupCtxDone
    /\ IF NeedsSync
       THEN /\ Report("SyncMachineDisk")
            /\ pc' = [pc EXCEPT !.hook = "sync"]
       ELSE /\ pc' = [pc EXCEPT !.hook = "cancel"]
            /\ UNCHANGED events
    /\ UNCHANGED <<envVars, groupVars, vmVars, synced, procVars>>

\* service.DoSync runs under context.Background().
HookDoSync ==
    /\ pc.hook = "sync"
    /\ \/ SSHCanSucceed /\ synced' = "ok"
       \/ SSHCanReturn /\ synced' = "failed"
    /\ pc' = [pc EXCEPT !.hook = "cancel"]
    /\ UNCHANGED <<envVars, groupVars, vmVars, procVars, events>>

HookCancel ==
    /\ pc.hook = "cancel"
    /\ pc' = [pc EXCEPT !.hook = "done"]
    /\ UNCHANGED <<envVars, groupVars, vmVars, synced, procVars, events>>

Hook == Running /\ (HookFire \/ HookDoSync \/ HookCancel)

\* A vmm that ends without closing its guest's connections leaves them silent.
GuestWithout(c) ==
    CASE c = "gvproxy" -> {guest}
      [] c = "vmm" /\ GuestMayHang -> {"none", "silent"}
      [] OTHER -> {"none"}

\* os/exec's goroutine for one command: kill when the context has ended.
KillChild(c) ==
    /\ Running
    /\ VMCtxDone
    /\ child[c] = "running"
    /\ child' = [child EXCEPT ![c] = "killed"]
    /\ guest' \in GuestWithout(c)
    /\ UNCHANGED <<ppidAlive, sigPending, sock, pc, groupVars, vmVars, synced,
                   registered, events>>

-----------------------------------------------------------------------------
(* POST /stop: GracefulShutdownVK, three ssh commands without a deadline *)

\* A client that was refused may ask again; one request runs at a time.
StopRequest ==
    /\ StopRequests
    /\ pc.rest = "serving"
    /\ pc.stop \in {"idle", "failed"}
    /\ pc' = [pc EXCEPT !.stop = "podman"]
    /\ UNCHANGED guest

\* Errors of podman stop and of sync are logged and ignored.
StopPrepare ==
    /\ pc.stop \in {"podman", "sync"}
    /\ SSHCanReturn
    /\ pc' = [pc EXCEPT !.stop = IF @ = "podman" THEN "sync" ELSE "poweroff"]
    /\ UNCHANGED guest

BugStopIgnoresError == {"ok", "failed"}
StopRefused == {"failed"}

\* The guest may go down before the command's exit status is read.
StopPoweroff ==
    /\ pc.stop = "poweroff"
    /\ \/ /\ SSHCanSucceed
          /\ guest' = "halted"
          /\ \E r \in {"ok", "failed"} : pc' = [pc EXCEPT !.stop = r]
       \/ /\ SSHCanReturn
          /\ guest' = guest
          /\ \E r \in StopRefused : pc' = [pc EXCEPT !.stop = r]

Stop ==
    /\ Running
    /\ StopRequest \/ StopPrepare \/ StopPoweroff
    /\ UNCHANGED <<ppidAlive, sigPending, sock, groupVars, vmVars, synced,
                   procVars, events>>

-----------------------------------------------------------------------------
(* The world outside the process *)

ParentExits ==
    /\ ppidAlive
    /\ ppidAlive' = FALSE
    /\ UNCHANGED <<sigPending, guest, sock, pc, child>>

\* Before signal.Notify the default action ends the process; afterwards the
\* channel holds one signal, and once its reader has left, signals are lost.
OSSignal ==
    /\ Running
    /\ \/ /\ pc.signal \in {"none", "spawned"}
          /\ pc' = [pc EXCEPT !.main = "signalled"]
          /\ UNCHANGED sigPending
       \/ /\ pc.signal = "listening"
          /\ ~sigPending
          /\ sigPending' = TRUE
          /\ UNCHANGED pc
    /\ UNCHANGED <<ppidAlive, guest, sock, child>>

GvproxyListens ==
    /\ child["gvproxy"] = "running"
    /\ sock # "ours"
    /\ sock' = "ours"
    /\ UNCHANGED <<ppidAlive, sigPending, guest, pc, child>>

GuestBoots ==
    /\ guest = "booting"
    /\ guest' = "up"
    /\ UNCHANGED <<ppidAlive, sigPending, sock, pc, child>>

GuestHangs ==
    /\ GuestMayHang
    /\ guest \in {"booting", "up"}
    /\ guest' = "silent"
    /\ UNCHANGED <<ppidAlive, sigPending, sock, pc, child>>

ChildDies(c) ==
    /\ child[c] = "running"
    /\ child' = [child EXCEPT ![c] = "died"]
    /\ guest' \in GuestWithout(c)
    /\ UNCHANGED <<ppidAlive, sigPending, sock, pc>>

\* poweroff makes krunkit exit (service.go:53-54).
PoweredOff == guest = "halted" /\ ChildDies("vmm")

Environment ==
    /\ \/ ParentExits \/ OSSignal \/ GvproxyListens \/ GuestBoots
       \/ GuestHangs \/ \E c \in Child : ChildDies(c)
    /\ UNCHANGED <<groupVars, vmVars, synced, registered, events>>

Terminated == ~Running /\ UNCHANGED vars

Next ==
    \/ Main \/ WatchPPID \/ ListenSignal \/ Rest \/ Start \/ Hook \/ Stop
    \/ \E c \in Child : KillChild(c)
    \/ Environment
    \/ Terminated

Spec == Init /\ [][Next]_vars

\* Every goroutine the Go scheduler runs makes its next step; the ticker of
\* WatchPPID and the timers of the waits fire; SIGKILL and poweroff end their
\* process.  Nothing outside the process is fair otherwise.
Fairness ==
    /\ WF_vars(Main)
    /\ WF_vars(WatchPPID)
    /\ WF_vars(ListenSignal)
    /\ WF_vars(RestListen)
    /\ WF_vars(RestShutdown)
    /\ WF_vars(RestDrained)
    /\ WF_vars(Start)
    /\ WF_vars(Hook)
    /\ WF_vars(Stop /\ pc'.stop # "podman")
    /\ \A c \in Child : WF_vars(KillChild(c))
    /\ WF_vars(PoweredOff /\ Environment)

FairSpec == Spec /\ Fairness

-----------------------------------------------------------------------------
(* Safety *)

\* A machine that had reported ready when the shutdown began is not killed
\* before the hook's DoSync has returned (shim/host.go:89-99).
SyncBeforeKill ==
    readyAtFail /\ (\E c \in Child : child[c] = "killed") => synced # "no"

\* The process cannot leave while that sync runs: as long as no child dies by
\* itself, RaceWait holds the group until the hook has cancelled the children
\* (the NOTE at cmd/start.go:114-117).
NoExitDuringSync ==
    /\ pc.start = "returned"
    /\ readyAtFail
    /\ \A c \in Child : child[c] # "died"
    => pc.hook = "done"

\* RaceWait watches every child that was started: none can exit unnoticed
\* (registry/cmds.go with gvproxy.go:78 and stubber.go:117).
RaceWaitCoversAll ==
    pc.start = "raceWait" => registered = Child

\* The vmm is started only once this run's gvproxy has made its endpoint: a
\* socket file left by an earlier run does not count (gvproxy.go:54,80).
VMMAfterNetwork ==
    child["vmm"] # "none" => sock = "ours"

\* The host application never hears Ready after error or Exit: main reports
\* them only when the machine goroutine has returned (main.go:66-75).
NoReadyAfterError ==
    \A i, j \in DOMAIN events :
        events[i] = "Ready" /\ events[j] \in {"error", "Exit"} => i < j

\* POST /stop answers success only when the guest is going down
\* (stop.go:23-25 with service.go:57-59).
StopReplyTruthful ==
    pc.stop = "ok" => guest = "halted" \/ Exited("vmm")

\* No child is started once the children's context has ended
\* (exec.CommandContext in gvproxy.go:64 and stubber.go:99).
NoSpawnAfterCancel ==
    [][\A c \in Child :
         VMCtxDone /\ child[c] = "none" => child'[c] = "none"]_vars

-----------------------------------------------------------------------------
(* Liveness *)

\* A guest that stays silent may hold the hook's sync for ever.
Stuck == guest = "silent" /\ child["gvproxy"] = "running"

\* Once any goroutine of the group has failed, the process ends, unless the
\* guest has gone silent (cmd/start.go:60-120).
ShutdownCompletes == GroupCtxDone ~> ~Running \/ Stuck

\* When the parent has gone, `ovm start` ends (README.md:27), with the same
\* exception.
ParentGoneEndsStart == ~ppidAlive ~> ~Running \/ Stuck

\* When gvproxy dies, `ovm start` ends, even if the guest has gone silent.
GvproxyDeathEndsStart == Exited("gvproxy") ~> ~Running

\* When both waits are over, any child's death ends `ovm start`, even if the
\* hook's sync never returns.
RaceWaitEndsStart ==
    pc.start = "raceWait" /\ (\E c \in Child : Exited(c)) ~> ~Running

-----------------------------------------------------------------------------
(* What the repository says and the code does not do *)

\* README.md:27: when the process named by --ppid disappears, the virtual
\* machine is closed too.  Stated of a machine that has finished booting, and
\* of a process no early signal has ended.
ParentGoneStopsVM ==
    pc.start = "raceWait" /\ ~ppidAlive
        ~> child["vmm"] # "running" \/ pc.main = "signalled"

-----------------------------------------------------------------------------
(* Implementation of MachineLife *)

Life == INSTANCE MachineLife WITH
    vm <- CASE child["vmm"] = "none" -> "absent"
            [] child["vmm"] = "running" -> "running"
            [] OTHER -> "gone",
    announced <- \E i \in DOMAIN events : events[i] = "Ready",
    stopping <- GroupCtxDone,
    owed <- readyAtFail /\ synced = "no",
    broken <- \E c \in Child : child[c] = "died",
    over <- CASE pc.main = "exited" -> "ended"
              [] pc.main = "signalled" -> "aborted"
              [] OTHER -> "no"

\* `ovm start` keeps the promise of MachineLife (shim/host.go:87-131 with
\* cmd/start.go:60-120).
KeepsPromise == Life!Spec
=============================================================================
