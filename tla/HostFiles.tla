----------------------------- MODULE HostFiles -----------------------------
(***************************************************************************)
(* What runs of `ovm start` leave for each other in files found by their   *)
(* path: the socket of the REST server and the source disk of a workspace, *)
(* and the script /tmp/initfs/ovm_ign.sh, which every machine of the host  *)
(* writes and its guest runs while it boots to mount the shared volumes.   *)
(*                                                                         *)
(* Takeover has the processes of such runs.  A guest here is a vmm that    *)
(* has been started, boots, and may end at any time.                       *)
(***************************************************************************)
EXTENDS Naturals, Sequences, FiniteSets

CONSTANTS
    MaxStarts,      \* runs of `ovm start`, numbered as they begin
    Machine,        \* the machines of the host, each in its own workspace
    VolumeLists     \* what `ovm init --volume` may have been given for each

Run == 1 .. MaxStarts
NoOne == 0

(* Paths are names; a name begins with another when HasPrefix says so. *)
IgnDir == "/tmp/initfs"
IgnSibling == "/tmp/initfs2"
Path == {IgnDir, IgnSibling, "/a", "/b"}
HasPrefix(p, q) == p = q \/ (p = IgnSibling /\ q = IgnDir)

\* The paths of a --volume argument, source[:target]; Empty is the empty one.
Absent == "none"
Volume == [src : Path, dst : Path \cup {Absent}]
Empty == [src |-> Absent, dst |-> Absent]
IgnMnt == [src |-> IgnDir, dst |-> IgnDir]

ASSUME HostFilesAssumption ==
    /\ MaxStarts \in Nat
    /\ VolumeLists \in [Machine -> SUBSET Seq(Volume \cup {Empty})]

-----------------------------------------------------------------------------
(* From the arguments of init to the guest's mounts *)

BugNoDefault(v) == v.dst

TargetOf(v) == IF v.dst = Absent THEN v.src ELSE v.dst

\* CmdLineVolumesToMounts on the arguments, to which init appends IgnMnt.  It
\* skips the empty ones: a mount is numbered here by its place in the arguments.
MountsOf(args) ==
    LET given == Append(args, IgnMnt)
    IN [k \in {x \in DOMAIN given : given[x] # Empty} |->
          [source |-> given[k].src, target |-> TargetOf(given[k])]]

BugTagByIndex(mounts, k) == k

\* The virtio-fs device of mount k is named by a hash of its target.
TagOf(mounts, k) == mounts[k].target

BugMountsAll(mount) == TRUE

\* GenerateMountScripts: one line for each mount that is not the script's own.
InScript(mount) == ~HasPrefix(mount.target, IgnDir)

ScriptOf(mounts) ==
    {[tag |-> TagOf(mounts, k), target |-> mounts[k].target] :
        k \in {x \in DOMAIN mounts : InScript(mounts[x])}}

\* The guest's kernel keeps the first of two devices with one tag.
Devices(mounts, tag) ==
    {k \in DOMAIN mounts :
        /\ TagOf(mounts, k) = tag
        /\ \A x \in DOMAIN mounts : x < k => TagOf(mounts, x) # tag}

\* What a guest with these devices has mounted after it has run these lines.
Mounted(mounts, lines) ==
    UNION {{[source |-> mounts[k].source, target |-> l.target] :
              k \in Devices(mounts, l.tag)} : l \in lines}

\* The guest's init finds the script by the tag of IgnMnt, the last mount; a
\* volume of the user's with that target comes before it.
FindsScript(mounts) ==
    \E last \in DOMAIN mounts :
        /\ \A x \in DOMAIN mounts : x <= last
        /\ \E k \in Devices(mounts, TagOf(mounts, last)) :
               mounts[k].source = IgnDir

-----------------------------------------------------------------------------
VARIABLES
    main,       \* the ovm process of a run; ending: its context has ended
    of,         \* the machine of a run
    args,       \* the volumes in the config it has loaded
    rest,       \* where its REST server stands
    pc,         \* where its machine goroutine stands
    guest,      \* its vmm: started and booting, booted, ended
    mounted,    \* what the guest has mounted
    restSock,   \* whose socket is at the path of each machine
    disk,       \* each machine's source.ext4
    script,     \* the runs whose text is in the file at the script's path
    open,       \* the runs that hold that very file open to write it
    raced,      \* history: the runs whose REST server met another's
    torn,       \* history: machines whose extraction was cut short or doubled
    crowded     \* history: the runs that prepared a guest beside another

runVars == <<main, of, args>>
vmVars == <<pc, guest, mounted>>
scriptVars == <<script, open, crowded>>
restVars == <<rest, restSock, raced>>
diskVars == <<disk, torn>>
vars == <<runVars, vmVars, scriptVars, restVars, diskVars>>

Mounts(i) == MountsOf(args[i])

TypeOK ==
    /\ main \in [Run -> {"off", "up", "ending", "gone"}]
    /\ of \in [Run -> Machine]
    /\ args \in [Run -> Seq(Volume \cup {Empty})]
    /\ rest \in [Run -> {"none", "delete", "listen", "bound", "serving",
                         "closed", "failed", "returned"}]
    /\ pc \in [Run -> {"none", "disk", "untar", "tar", "delete", "create",
                       "write", "vmm", "wait", "returned"}]
    /\ guest \in [Run -> {"none", "booting", "booted", "ended"}]
    /\ mounted \in [Run -> SUBSET [source : Path, target : Path]]
    /\ restSock \in [Machine -> {NoOne} \cup Run]
    /\ disk \in [Machine -> {"absent", "partial", "whole"}]
    /\ {script, open, raced, crowded} \subseteq SUBSET Run
    /\ torn \subseteq Machine

Init ==
    /\ main = [i \in Run |-> "off"]
    /\ of \in [Run -> Machine]
    /\ args = [i \in Run |-> <<>>]
    /\ rest = [i \in Run |-> "none"]
    /\ pc = [i \in Run |-> "none"]
    /\ guest = [i \in Run |-> "none"]
    /\ mounted = [i \in Run |-> {}]
    /\ restSock = [m \in Machine |-> NoOne]
    /\ disk = [m \in Machine |-> "absent"]
    /\ script = {} /\ open = {}
    /\ raced = {} /\ torn = {} /\ crowded = {}

Alive(i) == main[i] \in {"up", "ending"}
Companions(i) == {j \in Run \ {i} : Alive(j) /\ of[j] = of[i]}

Goto(i, l) == pc' = [pc EXCEPT ![i] = l]
RestGoto(i, l) == rest' = [rest EXCEPT ![i] = l]
SetDisk(i, d) == disk' = [disk EXCEPT ![of[i]] = d]

\* The goroutine of run i that got this far returns: the context ends.
Ends(i) == main' = [main EXCEPT ![i] = "ending"]

-----------------------------------------------------------------------------
(* The socket of the REST server *)

\* The config is loaded, as the last init has left it.
StartRun(i) ==
    /\ main[i] = "off"
    /\ \A j \in 1 .. i - 1 : main[j] # "off"
    /\ main' = [main EXCEPT ![i] = "up"]
    /\ \E l \in VolumeLists[of[i]] : args' = [args EXCEPT ![i] = l]
    /\ RestGoto(i, "delete")
    /\ Goto(i, "disk")
    /\ torn' = torn \cup {of[j] : j \in {x \in Companions(i) : pc[x] = "tar"}}
    /\ UNCHANGED <<of, guest, mounted, scriptVars, restSock, raced, disk>>

SetSock(i, r) == restSock' = [restSock EXCEPT ![of[i]] = r]

BugKeepsSock(i) == restSock' = restSock
DeletesSock(i) == SetSock(i, NoOne)

RestDelete(i) ==
    /\ rest[i] = "delete"
    /\ DeletesSock(i)
    /\ RestGoto(i, "listen")
    /\ LET met == {j \in Companions(i) :
                      rest[j] \in {"listen", "bound", "serving"}}
       IN raced' = raced \cup met \cup {x \in {i} : met # {}}
    /\ UNCHANGED main

\* net.Listen makes the file, or fails because there is one.
RestListen(i) ==
    /\ rest[i] = "listen"
    /\ \/ /\ restSock[of[i]] = NoOne
          /\ SetSock(i, i)
          /\ RestGoto(i, "bound")
          /\ UNCHANGED main
       \/ /\ restSock[of[i]] # NoOne
          /\ RestGoto(i, "failed")
          /\ Ends(i)
          /\ UNCHANGED restSock
    /\ UNCHANGED raced

\* UDF.IsExist asks whether a file is there, not whose.
RestServe(i) ==
    /\ rest[i] = "bound"
    /\ \/ restSock[of[i]] # NoOne /\ RestGoto(i, "serving") /\ UNCHANGED main
       \/ restSock[of[i]] = NoOne /\ RestGoto(i, "failed") /\ Ends(i)
    /\ UNCHANGED <<restSock, raced>>

\* Shutdown closes the listener, which unlinks the path, whoever's file it is.
RestShutdown(i) ==
    /\ rest[i] = "serving"
    /\ main[i] = "ending"
    /\ SetSock(i, NoOne)
    /\ RestGoto(i, "closed")
    /\ UNCHANGED <<main, raced>>

\* The deferred second Shutdown finds the listener closed.
RestReturns(i) ==
    /\ rest[i] = "closed"
    /\ RestGoto(i, "returned")
    /\ UNCHANGED <<main, restSock, raced>>

Rest(i) ==
    /\ Alive(i)
    /\ \/ RestDelete(i) \/ RestListen(i) \/ RestServe(i)
       \/ RestShutdown(i) \/ RestReturns(i)
    /\ UNCHANGED <<of, args, vmVars, scriptVars, diskVars>>

-----------------------------------------------------------------------------
(* The source disk *)

\* os.Stat: any file counts as the disk.
StatDisk(i) ==
    /\ pc[i] = "disk"
    /\ Goto(i, IF disk[of[i]] = "absent" THEN "untar" ELSE "delete")
    /\ UNCHANGED <<main, diskVars>>

BugRunsOn == "delete"
AfterUntar == "tar"

\* tar starts, and makes the file; a run beside this one may have it by now.
Untar(i) ==
    /\ pc[i] = "untar"
    /\ \/ /\ SetDisk(i, "partial")
          /\ Goto(i, AfterUntar)
          /\ torn' = torn \cup {of[j] : j \in Companions(i)}
          /\ UNCHANGED main
       \/ /\ Goto(i, "returned")
          /\ Ends(i)
          /\ UNCHANGED diskVars

\* tar has succeeded; or it has failed, or was killed with the context.
TarEnds(i) ==
    /\ pc[i] = "tar"
    /\ \/ SetDisk(i, "whole") /\ Goto(i, "delete") /\ UNCHANGED <<main, torn>>
       \/ /\ Goto(i, "returned")
          /\ Ends(i)
          /\ torn' = torn \cup {of[i]}
          /\ UNCHANGED disk

Disk(i) ==
    /\ Alive(i)
    /\ StatDisk(i) \/ Untar(i) \/ TarEnds(i)
    /\ UNCHANGED <<of, args, guest, mounted, scriptVars, restVars>>

-----------------------------------------------------------------------------
(* The script and the guest *)

\* Run i is between the deletion of the script and the end of its guest's boot.
Prepares(i) ==
    \/ Alive(i) /\ pc[i] \in {"create", "write", "vmm"}
    \/ guest[i] = "booting"

\* Delete; the path names no file for those who hold the old one.
DeleteScript(i) ==
    /\ pc[i] = "delete"
    /\ script' = {} /\ open' = {}
    /\ LET met == {j \in Run \ {i} : Prepares(j)}
       IN crowded' = crowded \cup met \cup {x \in {i} : met # {}}
    /\ Goto(i, "create")
    /\ UNCHANGED <<main, guest>>

\* os.Create truncates a file another run has made meanwhile.
CreateScript(i) ==
    /\ pc[i] = "create"
    /\ script' = {}
    /\ open' = open \cup {i}
    /\ Goto(i, "write")
    /\ UNCHANGED <<main, guest, crowded>>

\* Two texts in one file overlap: the guest runs some lines of each.
WriteScript(i) ==
    /\ pc[i] = "write"
    /\ script' = IF i \in open THEN script \cup {i} ELSE script
    /\ open' = open \ {i}
    /\ Goto(i, "vmm")
    /\ UNCHANGED <<main, guest, crowded>>

\* Any of the steps before the vmm may fail.
PrepareFails(i) ==
    /\ pc[i] \in {"delete", "create", "write"}
    /\ open' = open \ {i}
    /\ Goto(i, "returned")
    /\ Ends(i)
    /\ UNCHANGED <<guest, script, crowded>>

StartVmm(i) ==
    /\ pc[i] = "vmm"
    /\ \/ /\ guest' = [guest EXCEPT ![i] = "booting"]
          /\ Goto(i, "wait")
          /\ UNCHANGED main
       \/ Goto(i, "returned") /\ Ends(i) /\ UNCHANGED guest
    /\ UNCHANGED scriptVars

\* RaceWait: a child has exited.
RaceWait(i) ==
    /\ pc[i] = "wait"
    /\ Goto(i, "returned")
    /\ Ends(i)
    /\ UNCHANGED <<guest, scriptVars>>

Prepare(i) ==
    /\ Alive(i)
    /\ \/ DeleteScript(i) \/ CreateScript(i) \/ WriteScript(i)
       \/ PrepareFails(i) \/ StartVmm(i) \/ RaceWait(i)
    /\ UNCHANGED <<of, args, mounted, restVars, diskVars>>

SetMounted(i, lines) ==
    mounted' = [mounted EXCEPT ![i] = Mounted(Mounts(i), lines)]

\* The guest runs the script it finds now, whoever wrote it and for whatever
\* machine.
GuestBoots(i) ==
    /\ guest[i] = "booting"
    /\ guest' = [guest EXCEPT ![i] = "booted"]
    /\ LET found == IF FindsScript(Mounts(i)) THEN script ELSE {}
           lines == UNION {ScriptOf(Mounts(j)) : j \in found}
       IN IF Cardinality(found) > 1
          THEN \E some \in SUBSET lines : SetMounted(i, some)
          ELSE SetMounted(i, lines)
    /\ UNCHANGED <<runVars, pc, scriptVars, restVars, diskVars>>

GuestEnds(i) ==
    /\ guest[i] \in {"booting", "booted"}
    /\ guest' = [guest EXCEPT ![i] = "ended"]
    /\ mounted' = [mounted EXCEPT ![i] = {}]
    /\ UNCHANGED <<runVars, pc, scriptVars, restVars, diskVars>>

-----------------------------------------------------------------------------
(* The end of a run *)

\* The parent is gone, or a signal came.
EndBegins(i) ==
    /\ main[i] = "up"
    /\ Ends(i)
    /\ UNCHANGED <<of, args, vmVars, scriptVars, restVars, diskVars>>

\* The goroutines of run i are gone with its process.
Gone(i) ==
    /\ main' = [main EXCEPT ![i] = "gone"]
    /\ Goto(i, "none")
    /\ RestGoto(i, "none")

\* g.Wait has waited for both goroutines.
ProcessExit(i) ==
    /\ main[i] = "ending"
    /\ pc[i] = "returned"
    /\ rest[i] \in {"failed", "returned"}
    /\ Gone(i)
    /\ UNCHANGED <<of, args, guest, mounted, scriptVars, restSock, raced,
                   diskVars>>

\* ovm is killed: its socket stays, tar loses its input, the guest runs on.
Crash(i) ==
    /\ Alive(i)
    /\ Gone(i)
    /\ torn' = torn \cup {m \in {of[i]} : pc[i] = "tar"}
    /\ open' = open \ {i}
    /\ UNCHANGED <<of, args, guest, mounted, script, crowded, restSock, raced,
                   disk>>

Next ==
    \E i \in Run :
        \/ StartRun(i) \/ Rest(i) \/ Disk(i) \/ Prepare(i)
        \/ GuestBoots(i) \/ GuestEnds(i)
        \/ EndBegins(i) \/ ProcessExit(i) \/ Crash(i)

Spec == Init /\ [][Next]_vars

-----------------------------------------------------------------------------
(* Properties *)

\* A file at the path that an earlier run left neither keeps the REST server
\* of a run from listening nor takes its clients: while it serves, the path is
\* its own, unless it met the server of another run when one deleted the path.
RestReachable ==
    \A i \in Run \ raced :
        /\ rest[i] # "failed"
        /\ rest[i] = "serving" => restSock[of[i]] = i

\* Whatever text a guest finds at the path that all machines of the host share,
\* even two mixed: it mounts nothing but directories its own machine was given,
\* each at the target that was asked for it.
MountsOnlyAsAsked ==
    \A i \in Run : \A mount \in mounted[i] :
        \E k \in DOMAIN args[i] :
            /\ args[i][k].src = mount.source
            /\ TargetOf(args[i][k]) = mount.target

\* The volumes that init was given and a guest can have: of those with the same
\* target the first, and none whose target begins with the script's directory.
Wanted(l) ==
    {[source |-> l[k].src, target |-> TargetOf(l[k])] :
        k \in {x \in DOMAIN l :
                 /\ l[x] # Empty
                 /\ ~HasPrefix(TargetOf(l[x]), IgnDir)
                 /\ \A y \in 1 .. x - 1 : TargetOf(l[y]) # TargetOf(l[x])}}

\* A guest that no other was prepared beside has mounted what was asked for, and
\* not what an earlier run's script or half of its own says, unless a volume of
\* the user's takes the place of the script's directory.
GuestSeesItsVolumes ==
    \A i \in Run \ crowded :
        guest[i] = "booted" =>
            \/ mounted[i] = Wanted(args[i])
            \/ \E k \in DOMAIN args[i] :
                   TargetOf(args[i][k]) = IgnDir /\ args[i][k].src # IgnDir

\* A guest is started with a whole source disk, although a later run takes any
\* file it finds for one: unless tar was once cut short, or had company.
SourceDiskWhole ==
    \A i \in Run :
        guest[i] # "none" => disk[of[i]] = "whole" \/ of[i] \in torn

=============================================================================
