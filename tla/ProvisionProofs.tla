-------------------------- MODULE ProvisionProofs --------------------------
(***************************************************************************)
(* Proofs about Provision for any versions, any number of runs and of lost *)
(* files: the type invariant and the three safety invariants.              *)
(***************************************************************************)
EXTENDS Provision, TLAPS

Whole(b) == [ver |-> b, whole |-> TRUE]

\* The steps of a full reset before it touches the image, those in which the
\* image is written, and those after.
KeySteps == {"delPrivate", "delPublic", "genPrivate", "genPublic"}
ImageSteps == {"extract", "extracting"}
DiskSteps == {"deleteDisk", "createDisk", "truncate", "write"}

\* Two key files on the disk were made by one run, and only a run that is
\* resetting has made one itself.
KeyInv ==
    /\ keys["private"] # 0 /\ keys["public"] # 0
         => keys["private"] = keys["public"]
    /\ pc \in {"delPublic", "genPrivate"} => keys["private"] = 0
    /\ pc \in {"genPrivate", "genPublic"} => keys["public"] = 0
    /\ pc = "genPublic" => keys["private"] = inits
    /\ keys["private"] <= inits
    /\ pc \in {"migrate", "load", "update"} => keys["private"] < inits

\* All that a config or a run in progress says of data versions was asked for.
DataInv ==
    /\ config # Absent => config.data \in askedData
    /\ pc # "idle" => opts.data \in askedData
    /\ pc \notin {"idle", "migrate", "load"} => mc.data \in askedData
    /\ pc = "deleteDisk" => mc.data # opts.data
    /\ pc = "truncate" => disk # Absent

\* The image under a config whose version alone was asked for is whole, and a
\* run that spoils it has left a mark: resetDue, or another version asked for.
ImageInv ==
    /\ pc # "idle" => opts.boot \in asked
    /\ pc = "update" => config # Absent /\ mc = config
    /\ pc = "idle" /\ last = "ok" /\ config # Absent => config = opts
    /\ config # Absent /\ ~resetDue /\ asked \subseteq {config.boot}
       /\ image # Absent => image = Whole(config.boot)
    /\ pc \in KeySteps \cup ImageSteps /\ config # Absent
         => resetDue \/ config.boot # opts.boot
    /\ pc = "extracting" => image = [ver |-> opts.boot, whole |-> FALSE]
    /\ /\ pc \in DiskSteps
       /\ \/ keys["private"] = inits
          \/ ~resetDue /\ asked = {opts.boot} /\ image # Absent
       => image = Whole(opts.boot)

IInv ==
    /\ TypeOK
    /\ KeyInv
    /\ DataInv
    /\ DataSurvives
    /\ ImageInv
    /\ RetryRepairsImage

-----------------------------------------------------------------------------
(* What the provers need to know of the records, and of the key files *)

LEMMA Images ==
    /\ \A b \in BootVersions, w \in BOOLEAN : [ver |-> b, whole |-> w] \in Image
    /\ \A i \in Image : i # Absent
<1>1. \A b \in BootVersions, w \in BOOLEAN : [ver |-> b, whole |-> w] \in Image
  BY DEF Image
<1>2. ASSUME NEW i \in Image, i = Absent
      PROVE  FALSE
  <2>1. DOMAIN i = {"ver", "whole"}
    BY DEF Image
  <2>2. DOMAIN Absent = {"absent"}
    BY DEF Absent
  <2>3. QED
    BY <1>2, <2>1, <2>2
<1>3. QED
  BY <1>1, <1>2

LEMMA Disks ==
    /\ \A d \in DataVersions, z, u \in BOOLEAN :
         [ver |-> d, sized |-> z, used |-> u] \in Disk
    /\ \A k \in Disk :
         /\ k # Absent
         /\ k.ver \in DataVersions /\ k.used \in BOOLEAN
<1>1. \A d \in DataVersions, z, u \in BOOLEAN :
        [ver |-> d, sized |-> z, used |-> u] \in Disk
  BY DEF Disk
<1>2. ASSUME NEW k \in Disk, k = Absent
      PROVE  FALSE
  <2>1. DOMAIN k = {"ver", "sized", "used"}
    BY DEF Disk
  <2>2. DOMAIN Absent = {"absent"}
    BY DEF Absent
  <2>3. QED
    BY <1>2, <2>1, <2>2
<1>3. \A k \in Disk : k.ver \in DataVersions /\ k.used \in BOOLEAN
  BY DEF Disk
<1>4. QED
  BY <1>1, <1>2, <1>3

LEMMA Configs ==
    /\ \A b \in BootVersions, d \in DataVersions :
         [boot |-> b, data |-> d] \in Versions
    /\ \A c \in Versions :
         c # Absent /\ c.boot \in BootVersions /\ c.data \in DataVersions
<1>1. ASSUME NEW c \in Versions, c = Absent
      PROVE  FALSE
  <2>1. DOMAIN c = {"boot", "data"}
    BY DEF Versions
  <2>2. DOMAIN Absent = {"absent"}
    BY DEF Absent
  <2>3. QED
    BY <1>1, <2>1, <2>2
<1>2. \A c \in Versions : c.boot \in BootVersions /\ c.data \in DataVersions
  BY DEF Versions
<1>3. \A b \in BootVersions, d \in DataVersions :
        [boot |-> b, data |-> d] \in Versions
  BY DEF Versions
<1>4. QED
  BY <1>1, <1>2, <1>3

LEMMA Keys ==
    TypeOK => \A k \in KeyFile, n \in 0 .. MaxInits :
                [keys EXCEPT ![k] = n] \in [KeyFile -> 0 .. MaxInits]
BY DEF TypeOK

-----------------------------------------------------------------------------
(* What a step does to a record, spelled out *)

LEMMA UpdateStep ==
    ASSUME Update
    PROVE  \/ BootDiffers /\ pc' = "extract"
           \/ ~BootDiffers /\ DataDiffers /\ pc' = "deleteDisk"
           \/ ~BootDiffers /\ ~DataDiffers /\ pc' = "write"
<1>1. CASE BootDiffers
  BY <1>1, Zenon DEF Update, Goto
<1>2. CASE ~BootDiffers /\ DataDiffers
  BY <1>2, Zenon DEF Update, Goto
<1>3. CASE ~BootDiffers /\ ~DataDiffers
  BY <1>3, Zenon DEF Update, Goto
<1>4. QED
  BY <1>1, <1>2, <1>3

\* The image is whole afterwards, and a reset goes on without deleting the disk.
LEMMA FillStep ==
    ASSUME FillImage, mc \in Versions, ImageInv
    PROVE  /\ image' = Whole(opts.boot)
           /\ mc' = [boot |-> opts.boot, data |-> mc.data]
           /\ \/ mc.boot = opts.boot /\ pc' = "createDisk"
              \/ mc.boot # opts.boot /\ DataDiffers /\ pc' = "deleteDisk"
              \/ mc.boot # opts.boot /\ ~DataDiffers /\ pc' = "write"
<1>1. image = [ver |-> opts.boot, whole |-> FALSE]
  BY DEF FillImage, ImageInv, At
<1>2. image' = Whole(opts.boot)
  BY <1>1 DEF FillImage, Whole
<1>3. mc' = [boot |-> opts.boot, data |-> mc.data]
  BY DEF FillImage, Versions
<1>4. CASE mc.boot = opts.boot
  <2>1. pc' = "createDisk"
    BY <1>4, Zenon DEF FillImage, Goto, ResetDiskStep
  <2>2. QED
    BY <1>2, <1>3, <1>4, <2>1
<1>5. CASE mc.boot # opts.boot /\ DataDiffers
  <2>1. pc' = "deleteDisk"
    BY <1>5, Zenon DEF FillImage, Goto
  <2>2. QED
    BY <1>2, <1>3, <1>5, <2>1
<1>6. CASE mc.boot # opts.boot /\ ~DataDiffers
  <2>1. pc' = "write"
    BY <1>6, Zenon DEF FillImage, Goto
  <2>2. QED
    BY <1>2, <1>3, <1>6, <2>1
<1>7. QED
  BY <1>4, <1>5, <1>6

LEMMA TruncateDiskStep ==
    ASSUME TruncateDisk, disk \in Disk
    PROVE  disk' \in Disk /\ disk'.used = disk.used
BY DEF TruncateDisk, Disk

LEMMA RunMachineStep ==
    ASSUME RunMachine, disk \in Disk, config \in Versions
    PROVE  disk' \in Disk /\ disk'.used
<1>1. config.data \in DataVersions
  BY Configs
<1>2. PICK v \in DataVersions :
        disk' = [[disk EXCEPT !.used = TRUE] EXCEPT !.ver = v]
  <2>1. (IF disk.used THEN disk.ver ELSE config.data) \in DataVersions
    BY <1>1, Disks
  <2>2. QED
    BY <2>1 DEF RunMachine
<1>3. QED
  BY <1>2 DEF Disk

-----------------------------------------------------------------------------
(* Types *)

LEMMA TypeNext ==
    IInv /\ [Next]_vars => TypeOK'
<1> SUFFICES ASSUME IInv, [Next]_vars
             PROVE  TypeOK'
    OBVIOUS
<1> USE DEF IInv, TypeOK, fileVars, runVars, pastVars, Goto, At
<1>1. CASE InitStep
  <2>1. CASE BeginInit
    <3>1. /\ opts'.boot \in BootVersions
          /\ opts'.data \in DataVersions
      BY <2>1, Configs DEF BeginInit
    <3>2. inits' \in 0 .. MaxInits
      BY <2>1, ProvisionAssumption DEF BeginInit
    <3>3. QED
      BY <2>1, <3>1, <3>2 DEF BeginInit
  <2>2. CASE MigrateData
    BY <2>2, Configs, Disks DEF MigrateData
  <2>3. CASE LoadConfig
    BY <2>3 DEF LoadConfig, ConfigAccepted
  <2>4. CASE Update
    BY <2>4, UpdateStep DEF Update
  <2>5. CASE DeleteKey
    BY <2>5, Keys, ProvisionAssumption DEF DeleteKey, DeletedKey, KeyFile
  <2>6. CASE GenerateKey
    BY <2>6, Keys DEF GenerateKey, KeyFile
  <2>7. CASE TruncateImage
    BY <2>7, Configs, Images DEF TruncateImage
  <2>8. CASE FillImage
    <3>1. mc' \in Versions /\ image' \in Image
      BY <2>8, FillStep, Configs, Images DEF Whole
    <3>2. pc' \in {"createDisk", "deleteDisk", "write"}
      BY <2>8, FillStep
    <3>3. QED
      BY <2>8, <3>1, <3>2 DEF FillImage
  <2>9. CASE DeleteDisk
    BY <2>9 DEF DeleteDisk
  <2>10. CASE CreateDisk
    BY <2>10, Configs, Disks DEF CreateDisk
  <2>11. CASE TruncateDisk
    <3>1. disk' \in Disk
      BY <2>11, TruncateDiskStep DEF TruncateDisk, DataInv
    <3>2. QED
      BY <2>11, <3>1 DEF TruncateDisk
  <2>12. CASE WriteConfig
    BY <2>12 DEF WriteConfig, Recorded
  <2>13. CASE InitAborts
    BY <2>13 DEF InitAborts
  <2>14. QED
    BY <1>1, <2>1, <2>2, <2>3, <2>4, <2>5, <2>6, <2>7, <2>8, <2>9, <2>10,
       <2>11, <2>12, <2>13 DEF InitStep
<1>2. CASE RunMachine
  <2>1. disk \in Disk /\ config \in Versions
    BY <1>2 DEF RunMachine, ConfigAccepted
  <2>2. disk' \in Disk
    BY <1>2, <2>1, RunMachineStep
  <2>3. QED
    BY <1>2, <2>2 DEF RunMachine
<1>3. CASE FileLost
  <2>1. \A k \in KeyFile : [keys EXCEPT ![k] = 0] \in [KeyFile -> 0 .. MaxInits]
    BY Keys, ProvisionAssumption
  <2>2. QED
    BY <1>3, <2>1, ProvisionAssumption DEF FileLost
<1>4. CASE UNCHANGED vars
  BY <1>4 DEF vars
<1>5. QED
  BY <1>1, <1>2, <1>3, <1>4 DEF Next

-----------------------------------------------------------------------------
(* Keys *)

LEMMA KeyNext ==
    IInv /\ [Next]_vars => KeyInv'
<1> SUFFICES ASSUME IInv, [Next]_vars
             PROVE  KeyInv'
    OBVIOUS
<1>a. /\ keys \in [KeyFile -> Nat]
      /\ inits \in Nat
  BY ProvisionAssumption DEF IInv, TypeOK
<1> USE DEF IInv, KeyInv, KeyFile, fileVars, runVars, pastVars, Goto, At
<1>1. CASE InitStep
  <2>1. CASE BeginInit
    BY <2>1, <1>a DEF BeginInit
  <2>2. CASE MigrateData
    BY <2>2, <1>a DEF MigrateData
  <2>3. CASE LoadConfig
    BY <2>3, <1>a DEF LoadConfig, ConfigAccepted
  <2>4. CASE Update
    BY <2>4, <1>a, UpdateStep DEF Update
  <2>5. CASE DeleteKey
    BY <2>5, <1>a DEF DeleteKey, DeletedKey, KeyFile
  <2>6. CASE GenerateKey
    BY <2>6, <1>a DEF GenerateKey, KeyFile
  <2>7. CASE TruncateImage
    BY <2>7, <1>a DEF TruncateImage
  <2>8. CASE FillImage
    <3>1. pc' \in {"createDisk", "deleteDisk", "write"}
      BY <2>8, FillStep DEF TypeOK
    <3>2. QED
      BY <2>8, <1>a, <3>1 DEF FillImage
  <2>9. CASE DeleteDisk
    BY <2>9, <1>a DEF DeleteDisk
  <2>10. CASE CreateDisk
    BY <2>10, <1>a DEF CreateDisk
  <2>11. CASE TruncateDisk
    BY <2>11, <1>a DEF TruncateDisk
  <2>12. CASE WriteConfig
    BY <2>12, <1>a DEF WriteConfig, Recorded
  <2>13. CASE InitAborts
    BY <2>13, <1>a DEF InitAborts
  <2>14. QED
    BY <1>1, <2>1, <2>2, <2>3, <2>4, <2>5, <2>6, <2>7, <2>8, <2>9, <2>10,
       <2>11, <2>12, <2>13 DEF InitStep
<1>2. CASE RunMachine
  BY <1>2, <1>a DEF RunMachine, ConfigAccepted
<1>3. CASE FileLost
  BY <1>3, <1>a DEF FileLost, KeyFile
<1>4. CASE UNCHANGED vars
  BY <1>a, <1>4 DEF vars
<1>5. QED
  BY <1>1, <1>2, <1>3, <1>4 DEF Next

LEMMA KeysAgree == KeyInv => KeysMatch
BY DEF KeyInv, KeysMatch, ConfigAccepted, KeyFile

-----------------------------------------------------------------------------
(* User data *)

LEMMA DataNext ==
    IInv /\ [Next]_vars => DataInv'
<1> SUFFICES ASSUME IInv, [Next]_vars
             PROVE  DataInv'
    OBVIOUS
<1> USE DEF IInv, DataInv, fileVars, runVars, pastVars, Goto, At
<1>1. CASE InitStep
  <2>1. CASE BeginInit
    BY <2>1 DEF BeginInit
  <2>2. CASE MigrateData
    BY <2>2, Disks DEF MigrateData
  <2>3. CASE LoadConfig
    BY <2>3 DEF LoadConfig, ConfigAccepted
  <2>4. CASE Update
    BY <2>4, UpdateStep DEF Update, DataDiffers
  <2>5. CASE DeleteKey
    BY <2>5 DEF DeleteKey, DeletedKey, KeyFile
  <2>6. CASE GenerateKey
    BY <2>6 DEF GenerateKey, KeyFile
  <2>7. CASE TruncateImage
    BY <2>7 DEF TruncateImage
  <2>8. CASE FillImage
    <3>1. /\ mc'.data = mc.data
          /\ pc' \in {"createDisk", "deleteDisk", "write"}
          /\ pc' = "deleteDisk" => mc.data # opts.data
      BY <2>8, FillStep DEF TypeOK, DataDiffers
    <3>2. QED
      BY <2>8, <3>1 DEF FillImage
  <2>9. CASE DeleteDisk
    BY <2>9 DEF DeleteDisk
  <2>10. CASE CreateDisk
    BY <2>10, Configs, Disks DEF CreateDisk, TypeOK
  <2>11. CASE TruncateDisk
    BY <2>11 DEF TruncateDisk
  <2>12. CASE WriteConfig
    BY <2>12 DEF WriteConfig, Recorded
  <2>13. CASE InitAborts
    BY <2>13 DEF InitAborts
  <2>14. QED
    BY <1>1, <2>1, <2>2, <2>3, <2>4, <2>5, <2>6, <2>7, <2>8, <2>9, <2>10,
       <2>11, <2>12, <2>13 DEF InitStep
<1>2. CASE RunMachine
  BY <1>2 DEF RunMachine, ConfigAccepted
<1>3. CASE FileLost
  BY <1>3 DEF FileLost, KeyFile
<1>4. CASE UNCHANGED vars
  BY <1>4 DEF vars
<1>5. QED
  BY <1>1, <1>2, <1>3, <1>4 DEF Next

\* The disk is deleted only when two data versions were asked for, and an
\* empty one is made only where there was none.
LEMMA DataSurvivesNext ==
    IInv /\ [Next]_vars => DataSurvives'
<1> SUFFICES ASSUME IInv, [Next]_vars
             PROVE  DataSurvives'
    OBVIOUS
<1> USE DEF IInv, DataSurvives, fileVars, runVars, pastVars, Goto, At
<1>1. CASE InitStep
  <2>1. CASE BeginInit
    BY <2>1 DEF BeginInit
  <2>2. CASE MigrateData
    BY <2>2, Disks DEF MigrateData
  <2>3. CASE LoadConfig
    BY <2>3 DEF LoadConfig, ConfigAccepted
  <2>4. CASE Update
    BY <2>4 DEF Update, BootDiffers, DataDiffers
  <2>5. CASE DeleteKey
    BY <2>5 DEF DeleteKey, DeletedKey, KeyFile
  <2>6. CASE GenerateKey
    BY <2>6 DEF GenerateKey, KeyFile
  <2>7. CASE TruncateImage
    BY <2>7 DEF TruncateImage
  <2>8. CASE FillImage
    BY <2>8 DEF FillImage, ResetDiskStep, DataDiffers
  <2>9. CASE DeleteDisk
    <3>1. /\ mc.data \in askedData
          /\ opts.data \in askedData
          /\ mc.data # opts.data
      BY <2>9 DEF DeleteDisk, DataInv
    <3>2. QED
      BY <2>9, <3>1 DEF DeleteDisk
  <2>10. CASE CreateDisk
    BY <2>10 DEF CreateDisk
  <2>11. CASE TruncateDisk
    <3>1. disk \in Disk
      BY <2>11 DEF TruncateDisk, DataInv, TypeOK
    <3>2. disk' # Absent /\ disk'.used = disk.used
      BY <2>11, <3>1, TruncateDiskStep, Disks
    <3>3. QED
      BY <2>11, <3>2 DEF TruncateDisk
  <2>12. CASE WriteConfig
    BY <2>12 DEF WriteConfig, Recorded
  <2>13. CASE InitAborts
    BY <2>13 DEF InitAborts
  <2>14. QED
    BY <1>1, <2>1, <2>2, <2>3, <2>4, <2>5, <2>6, <2>7, <2>8, <2>9, <2>10,
       <2>11, <2>12, <2>13 DEF InitStep
<1>2. CASE RunMachine
  <2>1. disk \in Disk /\ config \in Versions
    BY <1>2 DEF RunMachine, ConfigAccepted, TypeOK
  <2>2. disk' # Absent /\ disk'.used
    BY <1>2, <2>1, RunMachineStep, Disks
  <2>3. QED
    BY <2>2
<1>3. CASE FileLost
  BY <1>3 DEF FileLost, KeyFile
<1>4. CASE UNCHANGED vars
  BY <1>4 DEF vars
<1>5. QED
  BY <1>1, <1>2, <1>3, <1>4 DEF Next

-----------------------------------------------------------------------------
(* The boot image *)

LEMMA ImageNext ==
    IInv /\ [Next]_vars => ImageInv'
<1> SUFFICES ASSUME IInv, [Next]_vars
             PROVE  ImageInv'
    OBVIOUS
<1>a. /\ keys \in [KeyFile -> Nat]
      /\ inits \in Nat
  BY ProvisionAssumption DEF IInv, TypeOK
<1> USE DEF IInv, ImageInv, KeySteps, ImageSteps, DiskSteps, fileVars,
            runVars, pastVars, Goto, At
<1>1. CASE InitStep
  <2>1. CASE BeginInit
    BY <2>1, <1>a DEF BeginInit, RetryRepairsImage, Whole, TypeOK
  <2>2. CASE MigrateData
    BY <2>2 DEF MigrateData
  <2>3. CASE LoadConfig
    BY <2>3, <1>a DEF LoadConfig, ConfigAccepted
  <2>4. CASE Update
    BY <2>4, <1>a, UpdateStep DEF Update, BootDiffers, KeyInv
  <2>5. CASE DeleteKey
    BY <2>5, <1>a DEF DeleteKey
  <2>6. CASE GenerateKey
    BY <2>6, <1>a DEF GenerateKey
  <2>7. CASE TruncateImage
    BY <2>7, Images DEF TruncateImage
  <2>8. CASE FillImage
    <3>1. /\ image' = Whole(opts.boot)
          /\ pc' \in {"createDisk", "deleteDisk", "write"}
      BY <2>8, FillStep DEF TypeOK
    <3>2. QED
      BY <2>8, <3>1 DEF FillImage
  <2>9. CASE DeleteDisk
    BY <2>9 DEF DeleteDisk
  <2>10. CASE CreateDisk
    BY <2>10 DEF CreateDisk
  <2>11. CASE TruncateDisk
    BY <2>11 DEF TruncateDisk
  <2>12. CASE WriteConfig
    BY <2>12 DEF WriteConfig, Recorded
  <2>13. CASE InitAborts
    BY <2>13 DEF InitAborts
  <2>14. QED
    BY <1>1, <2>1, <2>2, <2>3, <2>4, <2>5, <2>6, <2>7, <2>8, <2>9, <2>10,
       <2>11, <2>12, <2>13 DEF InitStep
<1>2. CASE RunMachine
  BY <1>2 DEF RunMachine, ConfigAccepted
<1>3. CASE FileLost
  BY <1>3 DEF FileLost, KeyFile
<1>4. CASE UNCHANGED vars
  BY <1>4 DEF vars
<1>5. QED
  BY <1>1, <1>2, <1>3, <1>4 DEF Next

LEMMA RetryNext ==
    IInv /\ [Next]_vars => RetryRepairsImage'
<1> SUFFICES ASSUME IInv, [Next]_vars
             PROVE  RetryRepairsImage'
    OBVIOUS
<1> USE DEF IInv, RetryRepairsImage, fileVars, runVars, pastVars, Goto, At
<1>1. CASE InitStep
  <2>1. CASE BeginInit
    BY <2>1 DEF BeginInit
  <2>2. CASE MigrateData
    BY <2>2 DEF MigrateData
  <2>3. CASE LoadConfig
    BY <2>3 DEF LoadConfig, ConfigAccepted
  <2>4. CASE Update
    BY <2>4, UpdateStep DEF Update
  <2>5. CASE DeleteKey
    BY <2>5 DEF DeleteKey, DeletedKey, KeyFile
  <2>6. CASE GenerateKey
    BY <2>6 DEF GenerateKey, KeyFile
  <2>7. CASE TruncateImage
    BY <2>7 DEF TruncateImage
  <2>8. CASE FillImage
    BY <2>8, FillStep DEF TypeOK
  <2>9. CASE DeleteDisk
    BY <2>9 DEF DeleteDisk
  <2>10. CASE CreateDisk
    BY <2>10 DEF CreateDisk
  <2>11. CASE TruncateDisk
    BY <2>11 DEF TruncateDisk
  <2>12. CASE WriteConfig
    BY <2>12 DEF WriteConfig, Recorded, ImageInv, DiskSteps, Whole
  <2>13. CASE InitAborts
    BY <2>13 DEF InitAborts
  <2>14. QED
    BY <1>1, <2>1, <2>2, <2>3, <2>4, <2>5, <2>6, <2>7, <2>8, <2>9, <2>10,
       <2>11, <2>12, <2>13 DEF InitStep
<1>2. CASE RunMachine
  BY <1>2 DEF RunMachine, ConfigAccepted
<1>3. CASE FileLost
  BY <1>3 DEF FileLost, KeyFile
<1>4. CASE UNCHANGED vars
  BY <1>4 DEF vars
<1>5. QED
  BY <1>1, <1>2, <1>3, <1>4 DEF Next

-----------------------------------------------------------------------------
(* The inductive invariant *)

LEMMA IInvInit == Init => IInv
<1> SUFFICES ASSUME Init
             PROVE  IInv
    OBVIOUS
<1>1. TypeOK
  <2>1. 0 \in 0 .. MaxInits /\ 0 \in 0 .. MaxLosses
    BY ProvisionAssumption
  <2>2. keys \in [KeyFile -> 0 .. MaxInits]
    BY <2>1 DEF Init
  <2>3. oldDisk \in BOOLEAN
    BY ProvisionAssumption DEF Init
  <2>4. QED
    BY <2>1, <2>2, <2>3 DEF Init, TypeOK
<1>2. KeyInv
  BY DEF Init, KeyInv, KeyFile
<1>3. DataInv
  BY DEF Init, DataInv
<1>4. DataSurvives
  BY DEF Init, DataSurvives
<1>5. ImageInv
  BY DEF Init, ImageInv, KeySteps, ImageSteps, DiskSteps
<1>6. RetryRepairsImage
  BY DEF Init, RetryRepairsImage
<1>7. QED
  BY <1>1, <1>2, <1>3, <1>4, <1>5, <1>6 DEF IInv

LEMMA IInvNext == IInv /\ [Next]_vars => IInv'
BY TypeNext, KeyNext, DataNext, DataSurvivesNext, ImageNext, RetryNext
   DEF IInv

LEMMA IInvHolds == Spec => []IInv
BY IInvInit, IInvNext, PTL DEF Spec

-----------------------------------------------------------------------------
(* Theorems *)

\* Every file, and every step of init, keeps its type (cmd/init.go:76-124).
THEOREM WorkspaceTypeCorrect == Spec => []TypeOK
<1>1. IInv => TypeOK
  BY DEF IInv
<1>2. QED
  BY <1>1, IInvHolds, PTL

\* Whatever runs of init were cut short, an accepted config names two halves of
\* one key pair (vmconfig.go:71-89).
THEOREM KeysMatchHolds == Spec => []KeysMatch
<1>1. IInv => KeysMatch
  BY KeysAgree DEF IInv
<1>2. QED
  BY <1>1, IInvHolds, PTL

\* User data outlives any number of runs that ask for one data version
\* (machine_common.go:203-214, shim/host.go:56-62).
THEOREM DataSurvivesHolds == Spec => []DataSurvives
<1>1. IInv => DataSurvives
  BY DEF IInv
<1>2. QED
  BY <1>1, IInvHolds, PTL

\* A success leaves the whole image that was asked for, after any number of
\* runs for it that were cut short (shim/host.go:48-54, cmd/init.go:116).
THEOREM RetryRepairsImageHolds == Spec => []RetryRepairsImage
<1>1. IInv => RetryRepairsImage
  BY DEF IInv
<1>2. QED
  BY <1>1, IInvHolds, PTL
=============================================================================
