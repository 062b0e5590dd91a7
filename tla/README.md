# A TLA+ model of ovm

`ovm` runs one Linux virtual machine for a host application: `ovm init`
provisions a workspace, `ovm start` boots the machine and stays until a reason
to stop appears. This directory models the parts of the program that are hard to
test, checks them with TLC and proves their safety with TLAPS. Paths are relative to
`src/`; line numbers are those of this commit.

## Inventory

| Component | State | Operations | What makes it correct |
|---|---|---|---|
| start supervisor (`cmd/start.go`, `cmd/main.go`, `pkg/machine/shim/host.go`) | errgroup and its context, the hook, the children's context | check the parent, four goroutines, hook, `RaceWait`, `g.Wait`, report, exit | the guest is flushed before the children are killed; every failure ends the process; nothing is started once the end has begun |
| gvproxy (`pkg/machine/gvproxy`) | child process, endpoint socket | start, wait for the socket, register | the vmm starts only behind this run's gvproxy |
| krunkit / vfkit (`pkg/machine/krunkit`, `vfkit`) | child process, pid file, `VMState` | start, wait for ssh and podman, report Ready | Ready at most once and never after the end |
| command registry (`pkg/registry`) | list of commands | append, list | `RaceWait` sees every child |
| provisioning (`cmd/init.go`, `shim` `Init`/`Update`, `machine_common.go`, `pkg/decompress`) | config, boot image, key pair, data disk | full reset, update, migration of an old disk | a success leaves what was asked for, a failure can be repeated, user data survive |
| machine config (`pkg/machine/vmconfig`) | the JSON file | load and validate, write atomically | accepted only when every file it names is there |
| ssh runner (`pkg/ssh/cmd.go`, `pkg/machine/ssh/service`) | session, connection, context callback | run a command, cancel it | the result is true, nothing is left open, a cancel is heard |
| REST server (`pkg/api/server`) | listener, handlers | serve, shut down | ends with the group |
| `POST /exec` (`pkg/api/backend/exec.go`) | three channels, an ssh session, the response | stream output as events | output in order, error at most once, end after everything |
| `POST /stop` (`stop.go`, `service.go`) | none of its own | podman stop, sync, poweroff | a success means the machine goes down |
| event reporter (`pkg/machine/events`) | none | one http request per event | order |
| process and pid files (`pkg/system`) | pid files | kill what an older run left | kills its own kind and no stranger; one guest at a time writes to the disks |
| source disk (`pkg/machine/disk`) | `source.ext4` | extract if absent | whole when a guest is started |
| volumes (`pkg/machine/volumes`) | mounts in the config | parse, tag | the guest mounts what was asked for |
| ignition (`pkg/machine/ignition`) | one script for the whole host | delete, create, write | a guest runs its own machine's |
| ports, paths (`pkg/port`, `pkg/machine/fs`) | none of their own | probe a port, delete a file | a run talks to its own gvproxy |
| time sync on wake, ssh agent forward, logging, pty, http client | little or none | | |

Interactions. `cmd/start.go` owns the errgroup; `shim.Start` runs in one of its
goroutines and hangs a hook on its context. The hook owns the second context,
made from `context.Background()`, under which the children and the services run;
calling its `cancel` is what kills the children. `RaceWait` holds the goroutine,
and with it the group, until a registered child has exited. The REST server is a
goroutine of the group; its handlers talk to the guest through ssh, as do the
readiness wait and the hook. `ovm init` shares only files with `ovm start`.

Hard behaviours. A shutdown racing a boot; a child dying while the shutdown
runs; a guest that stops answering under ssh calls without deadlines; fields
shared without locks (`VMState`, `mySession`); `select` taking any ready case;
a kill of `init` between two changes of the disk, and retries after it; two
instances on one workspace.

## Modules

| Module | Models | Status |
|---|---|---|
| `Lifecycle` | one `ovm start`: supervisor, hook, children, guest, `/stop` | built |
| `MachineLife` | what `ovm start` promises about a machine, abstractly | built; `Lifecycle` implements it |
| `LifecycleProofs`, `ProvisionProofs`, `SshCmdProofs`, `ExecStreamProofs`, `TakeoverProofs`, `HostFilesProofs` | theorems about the module each is named for | built |
| `Provision` | the workspace under runs of `ovm init` | built |
| `SshCmd` | one call of `Cmd.RunCtx` | built |
| `ExecStream` | one `POST /exec` | built |
| `CommandStream` | what `/exec` promises, abstractly | built; `ExecStream` implements it |
| `Takeover` | several `ovm start` on one workspace: processes, pid files, port, endpoint | built |
| `HostFiles` | what runs share by path: REST socket, source disk, the host's boot script and the mounts it makes | built |
| `MCLifecycle`, `MCProvision`, `MCExecStream`, `MCHostFiles` | the bounds | built |

`Lifecycle` uses of ssh only its outcome (`SSHCanReturn`, `SSHCanSucceed`);
`SshCmd` opens that call up. In every module an operator named `Bug...` is a
seeded fault that stands just before the definition it spoils. No run uses it;
it shows that each property would notice a bug of that kind.

### Lifecycle

`pc` says where each goroutine stands: `main` is `start` with `notifyAndExit`;
`watch`, `signal`, `rest` and `start` are the errgroup's; `hook` is the one
`shim.Start` spawns; `stop` a `POST /stop`. `cause` is the group's first error,
and its context has ended when `cause # "none"`; the children's context has
ended when the hook is `done`. `child`, `registered`, `sock` and `guest` are the
processes, the registry, gvproxy's socket file and what the guest's sshd would
answer: a *silent* guest lets connections stay open and returns nothing.
An action is one step between two points where somebody else may act. A
goroutine of a process that has exited takes no step, while children, guest and
parent go on. The data race on `SSHReady` is the freedom of `LeaveSSHWait` to
come any time after the wait: the hook may read the flag before it.

Left out: the kill of an earlier run's child (`Takeover`), the two
optional services started last, the arguments of the binaries, the contents of
events. A stage event (`ConfigureNetwork` and the like) that says nothing about
readiness or the end is left out too.

### Provision

One action per change of a file, so that a run may stop between any two.
`InitAborts` is both an error return and a kill: no step undoes an earlier one,
so both leave the same files. `image` has a version and is `whole` or torn,
`disk` has a version, a size and user data, `keys` tells which run made each
half. `asked`, `askedData`, `migrated`, `written` and `resetDue` are history.
Runs follow one another, with machine sessions in between.

### SshCmd

`caller` is `RunCtx`, `callback` the function given to `context.AfterFunc`,
which reads `mySession` twice (`found` is between the reads). Deferred calls are
steps of their own, in reverse order.

### ExecStream

`runner` is the goroutine that calls `exec`, `handler` the loop of `DoExec`,
`killer` the callback, `copying` the two copiers of the session. `outCh` is the
library's unbounded channel. `stream` is what was written to the response. Ping
and the `continue` after a closed channel change nothing and have no action.

### Takeover

`main` and `mach` say where the process and the machine goroutine of each run
stand, `child` in which state its gvproxy and its vmm are, `pidFile` whose
process a pid file names, `net` to which gvproxy a guest is attached. A kill by
pid file is two steps, `Find...` and `Kill...`, with the target in `aim`: between
them the process may end and its pid be reused (`late`), and before them too
(`other`). A kill is not waited for (`dying`). The host application restarts:
the old run may still live, be ending, or be dead with its children left behind.

`crowded` and `lost` are history and name the two ways in which the code does let
two guests write to one disk: two starts that overlap, since nothing locks the
workspace, and a run that died between starting its vmm and writing the pid
file. Every other history is shown to be safe. Not promised either, and in the
model: a run that is being replaced flushes the disks through an ssh port that
the new gvproxy may have taken, so its `sync` reaches the new guest
(`SSHReachesOwnGuest` speaks of a run whose gvproxy is still there); and a pid
reused by another workspace's gvproxy or vmm is killed, since the name is all
that is compared.

`NoStaleNetwork` and `SSHReachesOwnGuest` excuse a run of which the *other* one
was crowded, and three runs show why: runs 1 and 2 overlap and are both killed,
so the pid files name only the children of run 2. Run 3 meets nobody and kills
those. Run 1's gvproxy still runs; if it is slow it makes the endpoint only now,
after run 3 has removed it, and run 3's vmm is attached to it; or its vmm, slow
too, comes to the endpoint of run 3, whose ssh commands then reach that guest.

### HostFiles

`rest` and `pc` are the REST and the machine goroutine of a run, here for one
machine or for two; gvproxy is left to `Takeover`. `restSock` is whose socket is
at a machine's path, `disk` its `source.ext4`. `script` is the set of runs whose
text is in the file `/tmp/initfs/ovm_ign.sh`, more than one when two runs wrote
into one file at a time, and `open` who still holds that file: a run whose file
was deleted under it writes to no path. `MountsOf`, `TagOf`, `ScriptOf`,
`Devices` and `Mounted` are the way of a `--volume` argument to a mount in the
guest, and `Wanted` says independently what it should be. The code makes a list
of mounts without the empty arguments; here a mount keeps the number of its
argument, as only the order of mounts matters. A path is a name and
`HasPrefix` the relation the code tests. The tag, a hash of the target, is the
target itself: collisions are left out. `raced`, `torn` and `crowded` are
history: what two runs do to each other when they overlap.

`MountsOnlyAsAsked` holds without exception, and rests on the tag: even a guest
that runs another machine's script finds only its own devices under the targets
it was asked to have. A tag made from the index, which `SplitVolume` also
computes and drops, would break it.

## Runs

| Run | Shows |
|---|---|
| `lifecycle_safety` | order of flush, kill, reports and exit under every interleaving; `KeepsPromise` is the refinement of `MachineLife` |
| `lifecycle_live` | any failure, the parent's end, a dead gvproxy, or a dead child after the boot, ends the process, unless it is `Stuck` |
| `lifecycle_parent_vm` | a statement of the repository that fails (below) |
| `provision_safety` | a retried init repairs the image it was asked for; keys match; user data survive |
| `provision_disk_size`, `provision_reset` | two statements that fail |
| `ssh_cmd` | the result is true, nothing is left open, a cancel ends the call |
| `ssh_cmd_nil` | a statement that fails |
| `exec_stream` | order and truth of the stream; `KeepsStreamPromise` is the refinement of `CommandStream`; handler and goroutine end when they should, with a silent guest too |
| `exec_done_mark` | a statement that fails |
| `takeover` | one writer of the disks, the right network and guest, no stranger killed, whatever dies when |
| `host_files` | REST socket, source disk and boot script survive earlier runs and company; the guest mounts what was asked for |

`Stuck` is the one way in which the code can wait for ever: the hook asks a
guest that is silent, and ssh has no deadline. `lifecycle_live` lets the guest
hang and excuses only that state, so every other wait is shown to end.

### Bounds

`MaxTried` and `SockTries` are 100 in the code and 2 in the safety run: first
attempt, retry and exhaustion all occur; 1 where liveness is checked. Four runs
of init with two versions of each kind fit a success, an upgrade cut short, its
retry cut short and a last run. One file is lost from outside, which forces one
full reset of a used machine. Two chunks per pipe let one be heard and one be
lost, repeated or overtaken. `SshCmd` has no bound and is run as it stands.
`Takeover` and `HostFiles` have two runs of `ovm start`: every pair of an old and
a new run, in every overlap; nothing is bounded but their number. Two are not
enough for everything `Takeover` can do (above): its theorems hold for any
number, and the trace of three runs was found when one of them could not be
proved of the properties as they then stood. Four volume arguments clash in each way the code tells apart: an empty one, one
target given twice, no target, the script's directory and a name that begins
like it. Nothing is symmetric enough to reduce, and no run takes more than about
a minute.

Deadlock is checked for `Lifecycle`, whose `Terminated` step is the ended
process. The others may really stop: init runs are bounded, one call of
`RunCtx` returns, an exec against a silent guest waits for ever, and runs of
`Takeover` and `HostFiles` come to an end. These two state no fairness: they are
about safety, and that one run ends is `lifecycle_live`.

### Fairness

Weak fairness of every goroutine's step: the Go scheduler runs what is
runnable, and timers fire. In `ExecStream` each case of the `select` has its own
weak fairness: Go chooses uniformly among ready cases, so a case that stays
ready is taken in the end. A kill of a child whose context has ended takes
effect, and a guest that was powered off makes the vmm exit. Nothing is assumed
of the parent, of clients, of commands in the guest, of the guest's boot, nor
that a silent guest ever answers.

## Proofs

Every safety property that a passing run checks on a small instance is proved
for every value of the constants; so are both refinements. Each module's only
assumption is the one its model states on its constants, which TLC evaluates:
their types, and that `Provision` has versions to ask for.

`LifecycleProofs` proves:

- `TypeCorrect`, and the safety invariants `SyncBeforeKill`, `NoExitDuringSync`,
  `RaceWaitCoversAll`, `VMMAfterNetwork`, `NoReadyAfterError`,
  `StopReplyTruthful`;
- the action property `NoSpawnAfterCancel`;
- `KeepsPromise`: `Lifecycle` implements `MachineLife`.

No single invariant above is inductive. `IInv` joins them with what they rest on:
`HookInv` (the hook fires only after the group's context has ended; past its
sync, `synced` is set whenever it was needed; only a finished hook kills),
`StartInv` (what the machine goroutine's position says about children, socket,
registry and `SSHReady`), and `MainInv` (main leaves its wait only when all four
goroutines have returned, and reports end only then). Type correctness is proved
first and cited by every later step; each invariant's step lemma has one step
per action. `NoExitDuringSync` is the heart: the machine goroutine, once it was
ready, returns only through `RaceWait`, which needs an exited child; if no child
died by itself it was killed, which only a finished hook can do. The refinement
maps a vmm, the announcement, the debt of a flush and the end of the process; a
step is a step of `MachineLife` or a stutter, with `IInv` supplying the guards
(`End` needs that no debt remains unless something broke).

`ProvisionProofs` proves, for any sets of versions and any number of runs and of
lost files, its `TypeOK`, `KeysMatch`, `DataSurvives` and `RetryRepairsImage`,
from `ProvisionAssumption`. `KeyInv` says that two key files on the disk have
one maker, and that only a resetting run has made one itself. `DataInv` says
that every data version in the config or in memory was asked for, so a disk is
deleted only when two were. `ImageInv` carries the retry: while one boot version
alone has been asked for, the image under its config is whole; a run that spoils
the image either resets, which `resetDue` remembers, or was asked for another
version than the config's; and after the image is written, it is the one asked
for. Lemmas spell out what `EXCEPT` does to a record that may also be `Absent`.

`SshCmdProofs` proves `TypeOK`, `NilMeansSuccess`, `NothingLeftOpen` and
`OutputComplete` of a call, whether the guest may hang or not. `CallInv` gives
what the caller's position says about result, connection and copiers.

`ExecStreamProofs` proves, for any number of chunks and a guest that may hang or
not, `TypeOK`, `OutInOrder`, `DoneAfterEnd`, `ErrorQuotesLastStderr` and
`KeepsStreamPromise`. `TypeOK` is not inductive: that `errCh`, of capacity one,
never holds two errors rests on `RunnerInv`, which says what the goroutine has
not done yet and has done for good. `KillerInv`, `HandlerInv` and `CommandInv`
say the same of the callback, the handler and the command: a copier ends with
its pipe empty unless the connection broke, which is why the record of stderr is
complete when the error quotes it (`ErrorInv`). `OrderInv` is the heart: for each
pipe there is a place `h` such that the stream holds its chunks `1 .. h` and
`outCh` the chunks after it, each once and in order (`InOrder`). That says by
positions what a filtered sequence would say, since the provers know nothing of
`SelectSeq`; the refinement maps the stream for the same reason with `Heard`, a
function from positions to chunks, and lemmas say what one more event does to it;
`HeardAssumption` of `MCExecStream` compares it with `SelectSeq` on short streams.
A copier's step is then `Say`, the select's `Hear` or `Tell`, and every other
step a return, the closing mark or a stutter.

`TakeoverProofs` proves, for any number of runs on one workspace, `TypeOK`,
`OneWriter`, `NoStaleNetwork`, `SSHReachesOwnGuest` and the action property
`SparesOthers`. A step sets at most a child or two, so first come lemmas that say
what any step does to the children, to the runs, to the aims and kills, to the
pid files and to the endpoint (`OnwardNext`, `RunsNext`, `KillNext`, `FilesNext`,
`PathsNext`); each invariant is then proved from those and not from the actions.
`MetInv` says that two runs that overlapped are both crowded. `FileInv` is the
heart: a child that is at large, of a run that met nobody and wrote its pid file,
is named by that file until a later run, which aims at this very child, has
killed it; and every later run does that before it starts its own
(`PastKill`). `OneWriter` follows at once. With `EndpointInv` (who has started
its gvproxy has removed what earlier runs left at the path) it gives the network
properties.

`HostFilesProofs` proves, for any machines, any volumes and any number of runs,
`TypeOK`, `RestReachable`, `MountsOnlyAsAsked`, `GuestSeesItsVolumes` and
`SourceDiskWhole`. Its first half is about the operators, for argument lists of
any length: what `MountsOf` makes of an argument, that a device found by a tag
has the target of that tag (`MountedAsAsked`, which makes `MountsOnlyAsAsked`
hold whatever script is run), that a guest that runs its own script has mounted
exactly `Wanted` (`OwnScript`), and that it finds the script unless a volume is
in its place (`FindsOwnScript`, from the least mount with that target). The
second half is the invariants: of two REST servers, or two preparations of a
guest, that are there at a time, both are in `raced` or `crowded`, so one that is
not has the socket or the script to itself (`RestInv`, `ScriptInv`); a disk that
is neither torn nor absent is whole or under a running tar, whose machine no
other process shares (`DiskInv`). `RunInv` ties goroutines to their process.

Model-checked only: all liveness (`ShutdownCompletes`, `ParentGoneEndsStart`,
`GvproxyDeathEndsStart`, `RaceWaitEndsStart`, `CancelEndsCall`, `HandlerLeaves`,
`EndIsSeen`, `RunEndsWithClient`), which is out of TLAPS's reach, and the
counterexamples of the next section. The inductive invariants were themselves
checked by TLC, within the bounds above, before they were proved.

## Where the code and its text disagree

1. `README.md:27` says the machine closes when the parent disappears. If gvproxy
   has died, the process may exit before its hook has killed the vmm.
   Run `lifecycle_parent_vm`.
2. `machine_common.go:202` promises a disk of a given size; an empty file left by
   a killed run is accepted as the disk. Run `provision_disk_size`.
3. `init.go:100`: an interrupted full reset is not taken up again once the files
   of the old config are there. Run `provision_reset`.
4. `exec.go:127`: `done` is not the end of the data. Run `exec_done_mark`.
5. `cmd.go:78`: the session found there may be nil two lines later, which
   panics. Run `ssh_cmd_nil`.

More are in the models and have no run of their own. `start.go:115-116` says that
once the parent context is done the commands are killed and the wait returns
immediately; the hook's `DoSync` (`host.go:93`) comes first and has no deadline
(`Stuck`). A volume's option `ro` is parsed into the config and used by neither
the device (`machine_common.go:193`) nor the mount (`temple.go:9`). A full reset
keeps a data disk of another data version and records the new one, where the flag's text
promises a new disk (`init.go:64`). A boot version is compared with the recorded
one, not with the image on the disk (`init.go:58`). A context that ends before
the ssh session exists signals nothing, and the signal is SIGKILL, not the SIGINT
of the comment (`cmd.go:75`).
`RetryRepairsImage`, `DataSurvives` and `CancelEndsCall` are stated around them,
each in its comment.

## Plan

1. `Lifecycle`, `MachineLife`, `LifecycleProofs`: done.
2. `Provision`, `SshCmd` with their proofs, `ExecStream`, `CommandStream`: done.
3. `Takeover`, `HostFiles`: done.
4. Proofs of the safety of `ExecStream`, `Takeover` and `HostFiles`: done.
5. `RestServer`: shutdown against running handlers, the shared use of the guest
   by `/exec` and `/stop`.
6. The safety half of `lifecycle_live`: that a process whose context has ended is
   `Stuck` or has a step to take, stated by the guards, since `ENABLED` cannot be
   proved about.

## Not modelled

Text generation (command lines, the script's lines for key and time zone), pure
I/O (`/info`, the http client, the reporter's transport, decompression itself),
logging and its trimming, the pty, and `shim/networking.go`, which the program
does not call. `SyncTimeOnWake` and the ssh agent forward keep no state here:
their errors are logged and change nothing. The free port that another program
takes before gvproxy binds it, and `DeleteInDir`'s prefix test, which always
holds for the two paths it is given. Bytes, sizes and names are abstracted
everywhere to what the properties tell apart.
