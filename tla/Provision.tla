----------------------------- MODULE Provision -----------------------------
(***************************************************************************)
(* The workspace of one machine under successive runs of `ovm init`, each  *)
(* of which may fail or be killed between any two changes of the disk, and *)
(* `ovm start` sessions in between that fill the data disk.                *)
(*                                                                         *)
(* No step of init undoes an earlier one: an error returned and a kill     *)
(* leave the same files, so one action, InitAborts, stands for both.       *)
(* Runs of init and start on one workspace do not overlap here.            *)
(*                                                                         *)
(* An operator named Bug... is a seeded fault: a plausible wrong form of   *)
(* the definition that follows it, used only to show that the properties   *)
(* notice it.                                                              *)
(***************************************************************************)
EXTENDS Naturals

CONSTANTS
    BootVersions,  \* values of --boot-version, each naming its own image
    DataVersions,  \* values of --data-version
    MaxInits,      \* bound: runs of `ovm init`
    MaxLosses,     \* bound: files removed from outside between two runs
    Legacy         \* may the workspace hold a data disk of an older release?

ASSUME ProvisionAssumption ==
    /\ BootVersions # {} /\ DataVersions # {}
    /\ MaxInits \in Nat /\ MaxLosses \in Nat
    /\ Legacy \in BOOLEAN

Versions == [boot : BootVersions, data : DataVersions]
Image == [ver : BootVersions, whole : BOOLEAN]
Disk == [ver : DataVersions, sized : BOOLEAN, used : BOOLEAN]
KeyFile == {"private", "public"}
Absent == [absent |-> TRUE]                \* no file at the path

VARIABLES
    config,    \* the machine config file
    image,     \* the boot image
    keys,      \* per key file the init run that generated it, 0 if absent
    disk,      \* data.img
    oldDisk,   \* a data disk in an older release's place
    pc,        \* where the running init stands
    opts,      \* its command line
    mc,        \* its machine config in memory
    inits, losses,  \* counters of the bounds
    last,      \* outcome of the last run of init
    asked,     \* history: boot versions asked for since the last success
               \*   that no request for another version had preceded
    askedData, \* history: data versions ever asked for
    migrated,  \* history: an old data disk was moved in
    written,   \* history: a guest has put user data on data.img
    resetDue   \* history: a full reset of a configured machine was begun and
               \*   no run has brought one to its end since

fileVars == <<config, image, keys, disk, oldDisk>>
runVars == <<pc, opts, mc, last>>
pastVars == <<asked, askedData, migrated, written>>
vars == <<fileVars, runVars, inits, losses, pastVars, resetDue>>

TypeOK ==
    /\ config \in {Absent} \cup Versions
    /\ image \in {Absent} \cup Image
    /\ keys \in [KeyFile -> 0 .. MaxInits]
    /\ disk \in {Absent} \cup Disk
    /\ oldDisk \in BOOLEAN
    /\ pc \in {"idle", "migrate", "load", "update", "delPrivate",
               "delPublic", "genPrivate", "genPublic", "extract", "extracting",
               "deleteDisk", "createDisk", "truncate", "write"}
    /\ opts \in Versions
    /\ mc \in Versions
    /\ inits \in 0 .. MaxInits
    /\ losses \in 0 .. MaxLosses
    /\ last \in {"none", "ok", "aborted"}
    /\ asked \subseteq BootVersions
    /\ askedData \subseteq DataVersions
    /\ migrated \in BOOLEAN
    /\ written \in BOOLEAN
    /\ resetDue \in BOOLEAN

Init ==
    /\ config = Absent
    /\ image = Absent
    /\ keys = [k \in KeyFile |-> 0]
    /\ disk = Absent
    /\ oldDisk \in {FALSE, Legacy}
    /\ pc = "idle"
    /\ opts \in Versions
    /\ mc = opts
    /\ inits = 0
    /\ losses = 0
    /\ last = "none"
    /\ asked = {}
    /\ askedData = {}
    /\ migrated = FALSE
    /\ written = FALSE
    /\ resetDue = FALSE

-----------------------------------------------------------------------------
(* Helpers *)

\* LoadMachineFromPath: the config is there, and so is every file it names.
ConfigAccepted ==
    /\ config # Absent
    /\ image # Absent
    /\ disk # Absent
    /\ \A k \in KeyFile : keys[k] # 0

Goto(l) == pc' = l

At(l) == pc = l

-----------------------------------------------------------------------------
(* ovm init *)

BeginInit ==
    /\ At("idle")
    /\ inits < MaxInits
    /\ inits' = inits + 1
    /\ opts' \in Versions
    /\ asked' = (IF last = "ok" /\ asked = {opts.boot} THEN {} ELSE asked)
                 \cup {opts'.boot}
    /\ askedData' = askedData \cup {opts'.data}
    /\ Goto("migrate")
    /\ UNCHANGED <<fileVars, mc, last, losses, migrated, written, resetDue>>

\* migrateData: its errors are logged and init goes on.
MigrateData ==
    /\ At("migrate")
    /\ \/ /\ oldDisk
          /\ oldDisk' = FALSE
          /\ disk' = [ver |-> opts.data, sized |-> TRUE, used |-> TRUE]
          /\ migrated' = TRUE
       \/ UNCHANGED <<oldDisk, disk, migrated>>
    /\ Goto("load")
    /\ UNCHANGED <<config, image, keys, opts, mc, last, inits, losses, asked,
                   askedData, written, resetDue>>

\* A config that is not accepted means a full reset, shim.Init.
LoadConfig ==
    /\ At("load")
    /\ mc' = IF ConfigAccepted THEN config ELSE opts
    /\ Goto(IF ConfigAccepted THEN "update" ELSE "delPrivate")
    /\ resetDue' = (resetDue \/ (~ConfigAccepted /\ config # Absent))
    /\ UNCHANGED <<fileVars, opts, last, inits, losses, pastVars>>

BugImageOnlyIfMissing == image = Absent
BootDiffers == mc.boot # opts.boot
DataDiffers == mc.data # opts.data

\* shim.Update compares the versions of the config it has loaded.
Update ==
    /\ At("update")
    /\ Goto(CASE BootDiffers -> "extract"
              [] ~BootDiffers /\ DataDiffers -> "deleteDisk"
              [] OTHER -> "write")
    /\ UNCHANGED <<fileVars, opts, mc, last, inits, losses, pastVars, resetDue>>

-----------------------------------------------------------------------------
(* The steps of InitializeVM and Update that change files *)

BugKeepsOldKey(k) == keys[k]
DeletedKey(k) == 0

\* CreateSSHKey: both files are deleted, then ssh-keygen writes them.
DeleteKey ==
    /\ \/ /\ At("delPrivate")
          /\ keys' = [keys EXCEPT !["private"] = 0]
          /\ Goto("delPublic")
       \/ /\ At("delPublic")
          /\ keys' = [keys EXCEPT !["public"] = DeletedKey("public")]
          /\ Goto("genPrivate")
    /\ UNCHANGED <<config, image, disk, oldDisk, opts, mc, last, inits, losses,
                   pastVars, resetDue>>

GenerateKey ==
    /\ \/ /\ At("genPrivate")
          /\ keys' = [keys EXCEPT !["private"] = inits]
          /\ Goto("genPublic")
       \/ /\ At("genPublic")
          /\ keys' = [keys EXCEPT !["public"] = inits]
          /\ Goto("extract")
    /\ UNCHANGED <<config, image, disk, oldDisk, opts, mc, last, inits, losses,
                   pastVars, resetDue>>

\* UncompressZSTD: os.WriteFile truncates the image, then fills it.
TruncateImage ==
    /\ At("extract")
    /\ image' = [ver |-> opts.boot, whole |-> FALSE]
    /\ Goto("extracting")
    /\ UNCHANGED <<config, keys, disk, oldDisk, opts, mc, last, inits, losses,
                   pastVars, resetDue>>

BugResetForces == "deleteDisk"
ResetDiskStep == "createDisk"

\* InitializeVM goes on to CreateAndResizeDisk with force = false; it has
\* made mc from opts, so mc tells the two callers apart.
FillImage ==
    /\ At("extracting")
    /\ image' = [image EXCEPT !.whole = TRUE]
    /\ mc' = [mc EXCEPT !.boot = opts.boot]
    /\ Goto(CASE mc.boot = opts.boot -> ResetDiskStep
              [] mc.boot # opts.boot /\ DataDiffers -> "deleteDisk"
              [] OTHER -> "write")
    /\ UNCHANGED <<config, keys, disk, oldDisk, opts, last, inits, losses,
                   pastVars, resetDue>>

DeleteDisk ==
    /\ At("deleteDisk")
    /\ disk' = Absent
    /\ Goto("createDisk")
    /\ UNCHANGED <<config, image, keys, oldDisk, opts, mc, last, inits, losses,
                   pastVars, resetDue>>

\* CreateAndResizeDisk keeps a file that exists, whatever its size.
CreateDisk ==
    /\ At("createDisk")
    /\ \/ /\ disk # Absent
          /\ Goto("write")
          /\ UNCHANGED disk
       \/ /\ disk = Absent
          /\ disk' = [ver |-> opts.data, sized |-> FALSE, used |-> FALSE]
          /\ Goto("truncate")
    /\ UNCHANGED <<config, image, keys, oldDisk, opts, mc, last, inits, losses,
                   pastVars, resetDue>>

TruncateDisk ==
    /\ At("truncate")
    /\ disk' = [disk EXCEPT !.sized = TRUE]
    /\ Goto("write")
    /\ UNCHANGED <<config, image, keys, oldDisk, opts, mc, last, inits, losses,
                   pastVars, resetDue>>

BugRecordsSwapped == [boot |-> opts.data, data |-> opts.boot]
Recorded == opts

\* MachineConfig.Write replaces the file atomically; by now both versions of
\* mc are those of opts.  A run that has made the keys was a full reset.
WriteConfig ==
    /\ At("write")
    /\ config' = Recorded
    /\ last' = "ok"
    /\ resetDue' = (resetDue /\ keys["private"] # inits)
    /\ Goto("idle")
    /\ UNCHANGED <<image, keys, disk, oldDisk, opts, mc, inits, losses,
                   pastVars>>

\* A step returns an error, or the process is killed.
InitAborts ==
    /\ ~At("idle")
    /\ last' = "aborted"
    /\ Goto("idle")
    /\ UNCHANGED <<fileVars, opts, mc, inits, losses, pastVars, resetDue>>

InitStep ==
    \/ BeginInit \/ MigrateData \/ LoadConfig \/ Update \/ DeleteKey
    \/ GenerateKey \/ TruncateImage \/ FillImage \/ DeleteDisk \/ CreateDisk
    \/ TruncateDisk \/ WriteConfig \/ InitAborts

-----------------------------------------------------------------------------
(* Between two runs of init *)

\* `ovm start` loads the config, boots, and the guest writes user data, which
\* belong to the data version recorded when the disk was first used.
RunMachine ==
    /\ At("idle")
    /\ ConfigAccepted
    /\ image.whole
    /\ disk.sized
    /\ disk' = [disk EXCEPT !.used = TRUE,
                            !.ver = IF disk.used THEN @ ELSE config.data]
    /\ written' = TRUE
    /\ UNCHANGED <<config, image, keys, oldDisk, runVars, inits, losses, asked,
                   askedData, migrated, resetDue>>

\* The config, the image or a key is removed from outside.
FileLost ==
    /\ At("idle")
    /\ losses < MaxLosses
    /\ losses' = losses + 1
    /\ \/ config' = Absent /\ UNCHANGED <<image, keys>>
       \/ image' = Absent /\ UNCHANGED <<config, keys>>
       \/ /\ \E k \in KeyFile : keys' = [keys EXCEPT ![k] = 0]
          /\ UNCHANGED <<config, image>>
    /\ UNCHANGED <<disk, oldDisk, runVars, inits, pastVars, resetDue>>

Next == InitStep \/ RunMachine \/ FileLost

Spec == Init /\ [][Next]_vars

-----------------------------------------------------------------------------
(* Safety *)

\* A successful init leaves the whole image it was asked for, however many
\* runs for the same version were cut short before it (shim/host.go:48-54 with
\* cmd/init.go:116: the version is recorded after the image).  It takes no
\* unfinished full reset and no other version asked for in between.
RetryRepairsImage ==
    /\ At("idle") /\ last = "ok" /\ image # Absent
    /\ asked = {opts.boot}
    /\ ~resetDue
    => image = [ver |-> opts.boot, whole |-> TRUE]

\* A config that start accepts names two halves of one key pair, wherever a
\* run was cut short in CreateSSHKey (vmconfig.go:71-89).
KeysMatch ==
    ConfigAccepted => keys["private"] = keys["public"]

\* User data outlives every init, failed, repeated or full reset, as long as
\* all of them ask for one data version and no old disk is moved over it
\* (machine_common.go:100,211-214 and shim/host.go:56-62).
DataSurvives ==
    /\ written /\ ~migrated
    /\ \A d, e \in askedData : d = e
    => disk # Absent /\ disk.used

-----------------------------------------------------------------------------
(* What the repository says and the code does not do *)

\* machine_common.go:202: CreateAndResizeDisk creates "a disk file with
\* sizeInGB"; it has returned when the config is about to be written.
DiskHasItsSize == At("write") => disk.sized

\* cmd/init.go:100: a config that is not accepted means "the vm need to be
\* full reset".  The next run that succeeds has finished that reset, or at
\* least the boot image it had begun to write.
ResetIsFull ==
    At("idle") /\ last = "ok" /\ resetDue /\ image # Absent => image.whole
=============================================================================
