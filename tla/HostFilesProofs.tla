-------------------------- MODULE HostFilesProofs --------------------------
(***************************************************************************)
(* Proofs about HostFiles, for any number of runs, any machines and any    *)
(* volumes: the type invariant, that the REST server is reachable, that a  *)
(* guest mounts nothing it was not given and, alone, all it was given, and *)
(* that it is started with a whole source disk.                            *)
(***************************************************************************)
EXTENDS HostFiles, FiniteSetTheorems, WellFoundedInduction, TLAPS

\* A process has its goroutines, and its guest is the last thing it starts.
RunInv ==
    \A i \in Run :
        /\ pc[i] # "none" \/ rest[i] # "none" => Alive(i)
        /\ main[i] = "off" => guest[i] = "none" /\ mounted[i] = {}
        /\ guest[i] # "none" => pc[i] \in {"wait", "returned", "none"}

AtPath == {"listen", "bound", "serving"}

\* Of two servers of one machine the second to delete the path has met the
\* first; a server that met none finds the path as it left it.
RestInv ==
    /\ \A i, j \in Run :
           i # j /\ of[i] = of[j] /\ {rest[i], rest[j]} \subseteq AtPath
           => {i, j} \subseteq raced
    /\ \A i \in Run \ raced :
           /\ rest[i] # "failed"
           /\ rest[i] = "listen" => restSock[of[i]] = NoOne
           /\ rest[i] \in {"bound", "serving"} => restSock[of[i]] = i

PastDisk == {"delete", "create", "write", "vmm", "wait"}

\* A file at the disk's path is whole, unless tar is still writing it; who
\* comes beside that tar, or would start another, tears the disk.
DiskInv ==
    /\ \A i \in Run :
           pc[i] \in PastDisk \/ guest[i] # "none" =>
               disk[of[i]] = "whole" \/ of[i] \in torn
    /\ \A i \in Run :
           pc[i] = "untar" => disk[of[i]] = "absent" \/ of[i] \in torn
    /\ \A i, j \in Run :
           i # j /\ of[i] = of[j] /\ Alive(i) /\ pc[j] = "tar" =>
               of[i] \in torn
    /\ \A m \in Machine :
           disk[m] = "partial" =>
               m \in torn \/ \E i \in Run : of[i] = m /\ pc[i] = "tar"

\* Of two runs that prepare a guest the second has met the first; one that met
\* none has the script to itself until its guest has booted.
ScriptInv ==
    /\ \A i, j \in Run :
           i # j /\ Prepares(i) /\ Prepares(j) => {i, j} \subseteq crowded
    /\ \A i \in Run \ crowded :
           /\ pc[i] = "write" => script = {} /\ i \in open
           /\ pc[i] = "vmm" \/ guest[i] = "booting" => script = {i}

IInv ==
    /\ TypeOK
    /\ RunInv
    /\ RestInv
    /\ DiskInv
    /\ ScriptInv
    /\ MountsOnlyAsAsked
    /\ GuestSeesItsVolumes

-----------------------------------------------------------------------------
(* From the arguments to the mounts *)

Arg == Volume \cup {Empty}
Mount == [source : Path, target : Path]
Line == {[tag |-> p, target |-> p] : p \in {x \in Path : ~HasPrefix(x, IgnDir)}}

LEMMA PathFacts ==
  /\ IgnDir \in Path /\ Absent \notin Path
  /\ HasPrefix(IgnDir, IgnDir)
BY DEF Path, IgnDir, IgnSibling, Absent, HasPrefix

LEMMA ArgFacts ==
  /\ \A v \in Volume : v # Empty /\ v.src \in Path /\ TargetOf(v) \in Path
  /\ TargetOf(Empty) = Absent /\ Empty.src = Absent
<1>1. ASSUME NEW v \in Volume
      PROVE  v # Empty /\ v.src \in Path /\ TargetOf(v) \in Path
  <2>1. v.src \in Path /\ v.dst \in Path \cup {Absent}
    BY DEF Volume
  <2>2. v # Empty
    BY <2>1, PathFacts DEF Empty
  <2>3. QED
    BY <2>1, <2>2 DEF TargetOf
<1>2. TargetOf(Empty) = Absent /\ Empty.src = Absent
  BY DEF Empty, TargetOf
<1>3. QED
  BY <1>1, <1>2

\* A mount for every argument but the empty ones, and one for the script.
LEMMA MountsFacts ==
  \A l \in Seq(Arg) :
    /\ DOMAIN MountsOf(l) =
         {k \in 1 .. Len(l) : l[k] # Empty} \cup {Len(l) + 1}
    /\ \A k \in 1 .. Len(l) :
         l[k] # Empty =>
           /\ MountsOf(l)[k].source = l[k].src
           /\ MountsOf(l)[k].target = TargetOf(l[k])
           /\ l[k].src \in Path /\ TargetOf(l[k]) \in Path
    /\ MountsOf(l)[Len(l) + 1].source = IgnDir
    /\ MountsOf(l)[Len(l) + 1].target = IgnDir
<1> SUFFICES ASSUME NEW l \in Seq(Arg)
             PROVE  /\ DOMAIN MountsOf(l) =
                         {k \in 1 .. Len(l) : l[k] # Empty} \cup {Len(l) + 1}
                    /\ \A k \in 1 .. Len(l) :
                         l[k] # Empty =>
                           /\ MountsOf(l)[k].source = l[k].src
                           /\ MountsOf(l)[k].target = TargetOf(l[k])
                           /\ l[k].src \in Path /\ TargetOf(l[k]) \in Path
                    /\ MountsOf(l)[Len(l) + 1].source = IgnDir
                    /\ MountsOf(l)[Len(l) + 1].target = IgnDir
    OBVIOUS
<1> DEFINE given == Append(l, IgnMnt)
           n == Len(l)
           dom == {x \in DOMAIN given : given[x] # Empty}
<1>1. IgnMnt # Empty /\ IgnMnt.src = IgnDir /\ TargetOf(IgnMnt) = IgnDir
  BY PathFacts DEF IgnMnt, Empty, TargetOf, IgnDir, Absent
<1>2. /\ n \in Nat
      /\ DOMAIN given = 1 .. n + 1
      /\ \A k \in 1 .. n : given[k] = l[k]
      /\ given[n + 1] = IgnMnt
  OBVIOUS
<1>3. MountsOf(l) =
        [k \in dom |-> [source |-> given[k].src, target |-> TargetOf(given[k])]]
  BY DEF MountsOf
<1> HIDE DEF given
<1>4. dom = {k \in 1 .. n : l[k] # Empty} \cup {n + 1}
  BY <1>1, <1>2
<1>5. ASSUME NEW k \in 1 .. n, l[k] # Empty
      PROVE  l[k].src \in Path /\ TargetOf(l[k]) \in Path
  <2>1. l[k] \in Volume
    BY <1>5 DEF Arg
  <2>2. QED
    BY <2>1, ArgFacts
<1>6. \A k \in 1 .. n : l[k] # Empty =>
        /\ MountsOf(l)[k].source = l[k].src
        /\ MountsOf(l)[k].target = TargetOf(l[k])
  BY <1>2, <1>3, <1>4
<1>7. /\ MountsOf(l)[n + 1].source = IgnDir
      /\ MountsOf(l)[n + 1].target = IgnDir
  BY <1>1, <1>2, <1>3, <1>4
<1>8. QED
  BY <1>3, <1>4, <1>5, <1>6, <1>7

\* A script names each target by itself, and not the script's own directory.
LEMMA ScriptLines == \A l \in Seq(Arg) : ScriptOf(MountsOf(l)) \subseteq Line
<1> SUFFICES ASSUME NEW l \in Seq(Arg), NEW x \in ScriptOf(MountsOf(l))
             PROVE  x \in Line
    OBVIOUS
<1> DEFINE M == MountsOf(l)
<1>1. PICK k \in DOMAIN M :
        /\ ~HasPrefix(M[k].target, IgnDir)
        /\ x = [tag |-> M[k].target, target |-> M[k].target]
  BY DEF ScriptOf, InScript, TagOf
<1>2. M[k].target \in Path
  BY MountsFacts, PathFacts
<1>3. QED
  BY <1>1, <1>2 DEF Line

\* Whatever lines a guest runs, it mounts only what is among its arguments.
LEMMA MountedAsAsked ==
  \A l \in Seq(Arg), lines \in SUBSET Line :
    \A mount \in Mounted(MountsOf(l), lines) :
      /\ mount \in Mount
      /\ \E k \in DOMAIN l : /\ l[k].src = mount.source
                             /\ TargetOf(l[k]) = mount.target
<1> SUFFICES ASSUME NEW l \in Seq(Arg), NEW lines \in SUBSET Line,
                    NEW mount \in Mounted(MountsOf(l), lines)
             PROVE  /\ mount \in Mount
                    /\ \E k \in DOMAIN l : /\ l[k].src = mount.source
                                           /\ TargetOf(l[k]) = mount.target
    OBVIOUS
<1> DEFINE M == MountsOf(l)
<1>1. PICK line \in lines : \E k \in Devices(M, line.tag) :
        mount = [source |-> M[k].source, target |-> line.target]
  BY DEF Mounted
<1>2. PICK k \in Devices(M, line.tag) :
        mount = [source |-> M[k].source, target |-> line.target]
  BY <1>1
<1>3. k \in DOMAIN M /\ M[k].target = line.tag
  BY <1>2 DEF Devices, TagOf
<1>4. /\ line.tag = line.target
      /\ line.target \in Path
      /\ ~HasPrefix(line.target, IgnDir)
  BY DEF Line
<1>5. k # Len(l) + 1
  BY <1>3, <1>4, MountsFacts, PathFacts
<1>6. k \in 1 .. Len(l) /\ l[k] # Empty
  BY <1>3, <1>5, MountsFacts
<1>7. /\ M[k].source = l[k].src /\ M[k].target = TargetOf(l[k])
      /\ l[k].src \in Path
  BY <1>6, MountsFacts
<1>8. k \in DOMAIN l /\ mount.source = l[k].src /\ mount.target = TargetOf(l[k])
  BY <1>2, <1>3, <1>4, <1>6, <1>7
<1>9. mount \in Mount
  BY <1>2, <1>4, <1>7 DEF Mount
<1>10. QED
  BY <1>8, <1>9

\* Of the arguments with one target, the first one's device has its tag.
LEMMA FirstOfTarget ==
  \A l \in Seq(Arg) : \A k \in 1 .. Len(l) :
    l[k] # Empty =>
      (k \in Devices(MountsOf(l), TargetOf(l[k])) <=>
         \A y \in 1 .. k - 1 : TargetOf(l[y]) # TargetOf(l[k]))
<1> SUFFICES ASSUME NEW l \in Seq(Arg), NEW k \in 1 .. Len(l), l[k] # Empty
             PROVE  k \in Devices(MountsOf(l), TargetOf(l[k])) <=>
                      \A y \in 1 .. k - 1 : TargetOf(l[y]) # TargetOf(l[k])
    OBVIOUS
<1> DEFINE M == MountsOf(l)
           T == TargetOf(l[k])
<1>1. /\ DOMAIN M = {x \in 1 .. Len(l) : l[x] # Empty} \cup {Len(l) + 1}
      /\ \A x \in 1 .. Len(l) : l[x] # Empty => M[x].target = TargetOf(l[x])
      /\ T \in Path
  BY MountsFacts
<1>2. k \in Devices(M, T) <=>
        \A x \in DOMAIN M : x < k => M[x].target # T
  BY <1>1 DEF Devices, TagOf
<1>3. \A y \in 1 .. k - 1 : y \in 1 .. Len(l) /\ y < k
  OBVIOUS
<1>4. \A x \in DOMAIN M : x < k => x \in 1 .. k - 1 /\ l[x] # Empty
  BY <1>1
<1>5. \A y \in 1 .. k - 1 : l[y] = Empty => TargetOf(l[y]) # T
  BY <1>1, ArgFacts, PathFacts
<1> HIDE DEF M, T
<1>6. ASSUME \A x \in DOMAIN M : x < k => M[x].target # T
      PROVE  \A y \in 1 .. k - 1 : TargetOf(l[y]) # T
  BY <1>1, <1>3, <1>5, <1>6
<1>7. ASSUME \A y \in 1 .. k - 1 : TargetOf(l[y]) # T
      PROVE  \A x \in DOMAIN M : x < k => M[x].target # T
  BY <1>1, <1>3, <1>4, <1>7
<1>8. QED
  BY <1>2, <1>6, <1>7 DEF M, T

\* A guest that runs its own script has mounted what was asked for.
LEMMA OwnScript ==
  \A l \in Seq(Arg) : Mounted(MountsOf(l), ScriptOf(MountsOf(l))) = Wanted(l)
<1> SUFFICES ASSUME NEW l \in Seq(Arg)
             PROVE  Mounted(MountsOf(l), ScriptOf(MountsOf(l))) = Wanted(l)
    OBVIOUS
<1> DEFINE M == MountsOf(l)
           S == ScriptOf(M)
<1>1. ASSUME NEW mount \in Mounted(M, S)
      PROVE  mount \in Wanted(l)
  <2>0. PICK line \in S : \E k \in Devices(M, line.tag) :
          mount = [source |-> M[k].source, target |-> line.target]
    BY DEF Mounted
  <2>1. PICK k \in Devices(M, line.tag) :
          mount = [source |-> M[k].source, target |-> line.target]
    BY <2>0
  <2>2. /\ line.tag = line.target
        /\ ~HasPrefix(line.target, IgnDir)
    BY ScriptLines DEF Line
  <2>3. k \in DOMAIN M /\ M[k].target = line.tag
    BY <2>1 DEF Devices, TagOf
  <2>4. k \in 1 .. Len(l) /\ l[k] # Empty
    BY <2>2, <2>3, MountsFacts, PathFacts
  <2>5. M[k].source = l[k].src /\ M[k].target = TargetOf(l[k])
    BY <2>4, MountsFacts
  <2>6. \A y \in 1 .. k - 1 : TargetOf(l[y]) # TargetOf(l[k])
    BY <2>1, <2>3, <2>4, <2>5, FirstOfTarget
  <2>7. mount = [source |-> l[k].src, target |-> TargetOf(l[k])]
    BY <2>1, <2>2, <2>3, <2>5
  <2>8. ~HasPrefix(TargetOf(l[k]), IgnDir)
    BY <2>2, <2>3, <2>5
  <2>9. k \in DOMAIN l
    BY <2>4
  <2>10. QED
    BY <2>4, <2>6, <2>7, <2>8, <2>9 DEF Wanted
<1>2. ASSUME NEW mount \in Wanted(l)
      PROVE  mount \in Mounted(M, S)
  <2>1. PICK k \in DOMAIN l :
          /\ mount = [source |-> l[k].src, target |-> TargetOf(l[k])]
          /\ l[k] # Empty
          /\ ~HasPrefix(TargetOf(l[k]), IgnDir)
          /\ \A y \in 1 .. k - 1 : TargetOf(l[y]) # TargetOf(l[k])
    BY DEF Wanted
  <2>2. k \in 1 .. Len(l)
    OBVIOUS
  <2>3. /\ k \in DOMAIN M
        /\ M[k].source = l[k].src /\ M[k].target = TargetOf(l[k])
    BY <2>1, <2>2, MountsFacts
  <2> DEFINE line == [tag |-> M[k].target, target |-> M[k].target]
  <2>4. line \in S
    BY <2>1, <2>3 DEF ScriptOf, InScript, TagOf
  <2>5. k \in Devices(M, line.tag)
    BY <2>1, <2>2, <2>3, FirstOfTarget
  <2>6. mount = [source |-> M[k].source, target |-> line.target]
    BY <2>1, <2>3
  <2>7. QED
    BY <2>4, <2>5, <2>6 DEF Mounted
<1>3. QED
  BY <1>1, <1>2

LEMMA LeastNatural ==
  \A S \in SUBSET Nat : S # {} => \E m \in S : \A k \in S : m <= k
<1> SUFFICES ASSUME NEW S \in SUBSET Nat, S # {}
             PROVE  \E m \in S : \A k \in S : m <= k
    OBVIOUS
<1> DEFINE R == {ss \in Nat \X Nat : ss[1] < ss[2]}
<1>1. IsWellFoundedOn(R, Nat)
  BY NatLessThanWellFounded DEF OpToRel
<1>2. \A y, x \in Nat : y < x => <<y, x>> \in R
  OBVIOUS
<1> HIDE DEF R
<1>3. PICK m \in S : \A k \in S : ~(<<k, m>> \in R)
  BY <1>1, WFMin
<1>4. \A k \in S : ~(k < m)
  BY <1>2, <1>3
<1>5. QED
  BY <1>4

\* The guest finds the script unless a volume is in its directory's place.
LEMMA FindsOwnScript ==
  \A l \in Seq(Arg) :
    \/ FindsScript(MountsOf(l))
    \/ \E k \in DOMAIN l : TargetOf(l[k]) = IgnDir /\ l[k].src # IgnDir
<1> SUFFICES ASSUME NEW l \in Seq(Arg),
                    \A k \in DOMAIN l :
                      TargetOf(l[k]) = IgnDir => l[k].src = IgnDir
             PROVE  FindsScript(MountsOf(l))
    OBVIOUS
<1> DEFINE M == MountsOf(l)
           last == Len(l) + 1
           S == {k \in DOMAIN M : M[k].target = IgnDir}
<1>1. /\ DOMAIN M = {x \in 1 .. Len(l) : l[x] # Empty} \cup {last}
      /\ M[last].source = IgnDir /\ M[last].target = IgnDir
      /\ \A x \in 1 .. Len(l) : l[x] # Empty =>
           M[x].source = l[x].src /\ M[x].target = TargetOf(l[x])
  BY MountsFacts
<1>2. last \in S /\ S \in SUBSET Nat
  BY <1>1
<1>3. PICK k \in S : \A x \in S : k <= x
  BY <1>2, LeastNatural
<1>4. k \in Devices(M, IgnDir)
  <2>1. \A x \in DOMAIN M : x < k => M[x].target # IgnDir
    BY <1>2, <1>3
  <2>2. QED
    BY <2>1 DEF Devices, TagOf
<1>5. M[k].source = IgnDir
  BY <1>1
<1>6. /\ last \in DOMAIN M
      /\ \A x \in DOMAIN M : x <= last
      /\ TagOf(M, last) = IgnDir
  BY <1>1 DEF TagOf
<1>7. QED
  BY <1>4, <1>5, <1>6 DEF FindsScript

-----------------------------------------------------------------------------
(* The steps of a run *)

LEMMA InitIInv == Init => IInv
<1> SUFFICES ASSUME Init
             PROVE  IInv
    OBVIOUS
<1>1. TypeOK
  <2>1. <<>> \in Seq(Volume \cup {Empty})
    OBVIOUS
  <2>2. QED
    BY <2>1 DEF Init, TypeOK
<1>2. RunInv /\ RestInv
  BY DEF Init, RunInv, RestInv, AtPath
<1>3. DiskInv
  BY DEF Init, DiskInv, PastDisk, Alive
<1>4. ScriptInv
  BY DEF Init, ScriptInv, Prepares, Alive
<1>5. MountsOnlyAsAsked /\ GuestSeesItsVolumes
  BY DEF Init, MountsOnlyAsAsked, GuestSeesItsVolumes
<1>6. QED
  BY <1>1, <1>2, <1>3, <1>4, <1>5 DEF IInv

\* What a guest finds and mounts when it boots.
LEMMA BootStep ==
  ASSUME TypeOK, NEW i \in Run, GuestBoots(i)
  PROVE  \E found \in {script, {}}, lines \in SUBSET Line :
           /\ found = IF FindsScript(Mounts(i)) THEN script ELSE {}
           /\ SetMounted(i, lines)
           /\ \A j \in Run : found = {j} => lines = ScriptOf(Mounts(j))
           /\ found = {} => lines = {}
<1> DEFINE found == IF FindsScript(Mounts(i)) THEN script ELSE {}
           lines == UNION {ScriptOf(Mounts(j)) : j \in found}
<1>1. found \subseteq Run
  BY DEF TypeOK
<1>2. \A j \in Run : ScriptOf(Mounts(j)) \subseteq Line
  BY ScriptLines DEF TypeOK, Arg, Mounts
<1>3. lines \subseteq Line
  BY <1>1, <1>2
<1>4. IF Cardinality(found) > 1
      THEN \E some \in SUBSET lines : SetMounted(i, some)
      ELSE SetMounted(i, lines)
  BY DEF GuestBoots
<1>5. found \in {script, {}}
  OBVIOUS
<1> HIDE DEF found
<1>6. \A j \in Run : found = {j} =>
        lines = ScriptOf(Mounts(j)) /\ Cardinality(found) = 1
  BY FS_Singleton
<1>7. found = {} => lines = {} /\ Cardinality(found) = 0
  BY FS_EmptySet
<1> HIDE DEF lines
<1>8. PICK some \in SUBSET lines :
        SetMounted(i, some) /\ (~(Cardinality(found) > 1) => some = lines)
  BY <1>4
<1>9. some \in SUBSET Line
  BY <1>3, <1>8
<1>10. \A j \in Run : found = {j} => some = ScriptOf(Mounts(j))
  BY <1>6, <1>8
<1>11. found = {} => some = {}
  BY <1>7, <1>8
<1>12. QED
  BY <1>5, <1>8, <1>9, <1>10, <1>11 DEF found

LEMMA TypeNext == IInv /\ [Next]_vars => TypeOK'
<1> SUFFICES ASSUME TypeOK, [Next]_vars
             PROVE  TypeOK'
    BY DEF IInv
<1> USE DEF runVars, vmVars, scriptVars, restVars, diskVars
<1>1. ASSUME NEW i \in Run, StartRun(i)
      PROVE  TypeOK'
  <2>1. main' \in [Run -> {"off", "up", "ending", "gone"}]
    BY <1>1 DEF StartRun, TypeOK
  <2>2. args' \in [Run -> Seq(Volume \cup {Empty})]
    <3>1. PICK l \in VolumeLists[of[i]] : args' = [args EXCEPT ![i] = l]
      BY <1>1 DEF StartRun
    <3>2. l \in Seq(Volume \cup {Empty})
      BY <3>1, HostFilesAssumption DEF TypeOK
    <3>3. QED
      BY <3>1, <3>2 DEF TypeOK
  <2>3. rest' \in [Run -> {"none", "delete", "listen", "bound", "serving",
                          "closed", "failed", "returned"}]
    BY <1>1 DEF StartRun, RestGoto, TypeOK
  <2>4. pc' \in [Run -> {"none", "disk", "untar", "tar", "delete", "create",
                        "write", "vmm", "wait", "returned"}]
    BY <1>1 DEF StartRun, Goto, TypeOK
  <2>5. torn' \subseteq Machine
    BY <1>1 DEF StartRun, Companions, TypeOK
  <2>6. UNCHANGED <<of, guest, mounted, restSock, disk, script, open, raced,
                    crowded>>
    BY <1>1 DEF StartRun
  <2>7. QED
    BY <2>1, <2>2, <2>3, <2>4, <2>5, <2>6 DEF TypeOK
<1>2. ASSUME NEW i \in Run, Rest(i)
      PROVE  TypeOK'
  <2> USE <1>2 DEF Rest
  <2>1. CASE RestDelete(i)
    <3>1. restSock' \in [Machine -> {NoOne} \cup Run]
      BY <2>1 DEF RestDelete, DeletesSock, SetSock, TypeOK
    <3>2. rest' \in [Run -> {"none", "delete", "listen", "bound", "serving",
                            "closed", "failed", "returned"}]
      BY <2>1 DEF RestDelete, RestGoto, TypeOK
    <3>3. raced' \subseteq Run
      BY <2>1 DEF RestDelete, Companions, TypeOK
    <3>4. UNCHANGED main
      BY <2>1 DEF RestDelete
    <3>5. QED
      BY <3>1, <3>2, <3>3, <3>4 DEF TypeOK
  <2>2. CASE RestListen(i)
    <3>1. CASE /\ restSock[of[i]] = NoOne
               /\ SetSock(i, i)
               /\ RestGoto(i, "bound")
               /\ UNCHANGED main
      BY <2>2, <3>1 DEF RestListen, SetSock, RestGoto, Ends, TypeOK
    <3>2. CASE /\ restSock[of[i]] # NoOne
               /\ RestGoto(i, "failed")
               /\ Ends(i)
               /\ UNCHANGED restSock
      BY <2>2, <3>2 DEF RestListen, SetSock, RestGoto, Ends, TypeOK
    <3>3. QED
      BY <2>2, <3>1, <3>2 DEF RestListen
  <2>3. CASE RestServe(i)
    BY <2>3 DEF RestServe, RestGoto, Ends, TypeOK
  <2>4. CASE RestShutdown(i)
    BY <2>4 DEF RestShutdown, SetSock, RestGoto, TypeOK
  <2>5. CASE RestReturns(i)
    BY <2>5 DEF RestReturns, RestGoto, TypeOK
  <2>6. QED
    BY <2>1, <2>2, <2>3, <2>4, <2>5
<1>3. ASSUME NEW i \in Run, Disk(i)
      PROVE  TypeOK'
  <2> USE <1>3 DEF Disk
  <2>1. CASE StatDisk(i)
    BY <2>1 DEF StatDisk, Goto, TypeOK
  <2>2. CASE Untar(i)
    <3>1. CASE /\ SetDisk(i, "partial")
               /\ Goto(i, AfterUntar)
               /\ UNCHANGED main
               /\ torn' = torn \cup {of[j] : j \in Companions(i)}
      BY <2>2, <3>1 DEF Untar, SetDisk, AfterUntar, Goto, Ends, TypeOK,
         Companions
    <3>2. CASE /\ Goto(i, "returned")
               /\ Ends(i)
               /\ UNCHANGED diskVars
      BY <2>2, <3>2 DEF Untar, SetDisk, AfterUntar, Goto, Ends, TypeOK
    <3>3. QED
      BY <2>2, <3>1, <3>2 DEF Untar
  <2>3. CASE TarEnds(i)
    <3>1. CASE /\ SetDisk(i, "whole")
               /\ Goto(i, "delete")
               /\ UNCHANGED <<main, torn>>
      BY <2>3, <3>1 DEF TarEnds, SetDisk, Goto, Ends, TypeOK
    <3>2. CASE /\ Goto(i, "returned")
               /\ Ends(i)
               /\ torn' = torn \cup {of[i]}
               /\ UNCHANGED disk
      BY <2>3, <3>2 DEF TarEnds, SetDisk, Goto, Ends, TypeOK
    <3>3. QED
      BY <2>3, <3>1, <3>2 DEF TarEnds
  <2>4. QED
    BY <2>1, <2>2, <2>3
<1>4. ASSUME NEW i \in Run, Prepare(i)
      PROVE  TypeOK'
  <2> USE <1>4 DEF Prepare
  <2>1. CASE DeleteScript(i)
    BY <2>1 DEF DeleteScript, Goto, TypeOK
  <2>2. CASE CreateScript(i)
    BY <2>2 DEF CreateScript, Goto, TypeOK
  <2>3. CASE WriteScript(i)
    BY <2>3 DEF WriteScript, Goto, TypeOK
  <2>4. CASE PrepareFails(i)
    BY <2>4 DEF PrepareFails, Goto, Ends, TypeOK
  <2>5. CASE StartVmm(i)
    <3>1. CASE /\ guest' = [guest EXCEPT ![i] = "booting"]
               /\ Goto(i, "wait")
               /\ UNCHANGED main
      BY <2>5, <3>1 DEF StartVmm, Goto, Ends, TypeOK
    <3>2. CASE /\ Goto(i, "returned")
               /\ Ends(i)
               /\ UNCHANGED guest
      BY <2>5, <3>2 DEF StartVmm, Goto, Ends, TypeOK
    <3>3. QED
      BY <2>5, <3>1, <3>2 DEF StartVmm
  <2>6. CASE RaceWait(i)
    BY <2>6 DEF RaceWait, Goto, Ends, TypeOK
  <2>7. QED
    BY <2>1, <2>2, <2>3, <2>4, <2>5, <2>6
<1>5. ASSUME NEW i \in Run, GuestBoots(i)
      PROVE  TypeOK'
  <2>1. mounted' \in [Run -> SUBSET [source : Path, target : Path]]
    <3>1. PICK lines \in SUBSET Line : SetMounted(i, lines)
      BY <1>5, BootStep
    <3>2. Mounted(Mounts(i), lines) \subseteq Mount
      BY MountedAsAsked DEF TypeOK, Mounts, Arg
    <3>3. QED
      BY <3>1, <3>2 DEF SetMounted, TypeOK, Mount
  <2>2. QED
    BY <1>5, <2>1 DEF GuestBoots, TypeOK
<1>6. ASSUME NEW i \in Run, GuestEnds(i)
      PROVE  TypeOK'
  BY <1>6 DEF GuestEnds, TypeOK
<1>7. ASSUME NEW i \in Run, EndBegins(i)
      PROVE  TypeOK'
  BY <1>7 DEF EndBegins, Ends, TypeOK
<1>8. ASSUME NEW i \in Run, ProcessExit(i)
      PROVE  TypeOK'
  BY <1>8 DEF ProcessExit, Gone, Goto, RestGoto, TypeOK
<1>9. ASSUME NEW i \in Run, Crash(i)
      PROVE  TypeOK'
  BY <1>9 DEF Crash, Gone, Goto, RestGoto, TypeOK
<1>10. CASE UNCHANGED vars
  BY <1>10 DEF vars, TypeOK
<1>11. QED
  BY <1>1, <1>2, <1>3, <1>4, <1>5, <1>6, <1>7, <1>8, <1>9, <1>10 DEF Next

LEMMA RunNext == IInv /\ [Next]_vars => RunInv'
<1> SUFFICES ASSUME TypeOK, RunInv, [Next]_vars
             PROVE  RunInv'
    BY DEF IInv
<1> USE DEF runVars, vmVars, scriptVars, restVars, diskVars, TypeOK, RunInv,
            Alive
<1>1. ASSUME NEW i \in Run, StartRun(i)
      PROVE  RunInv'
  BY <1>1 DEF StartRun, RestGoto, Goto
<1>2. ASSUME NEW i \in Run, Rest(i)
      PROVE  RunInv'
  <2> USE <1>2 DEF Rest
  <2>1. CASE RestDelete(i)
    BY <2>1 DEF RestDelete, DeletesSock, SetSock, RestGoto
  <2>2. CASE RestListen(i)
    BY <2>2 DEF RestListen, SetSock, RestGoto, Ends
  <2>3. CASE RestServe(i)
    BY <2>3 DEF RestServe, RestGoto, Ends
  <2>4. CASE RestShutdown(i)
    BY <2>4 DEF RestShutdown, SetSock, RestGoto
  <2>5. CASE RestReturns(i)
    BY <2>5 DEF RestReturns, RestGoto
  <2>6. QED
    BY <2>1, <2>2, <2>3, <2>4, <2>5
<1>3. ASSUME NEW i \in Run, Disk(i)
      PROVE  RunInv'
  <2> USE <1>3 DEF Disk
  <2>1. CASE StatDisk(i)
    BY <2>1 DEF StatDisk, Goto
  <2>2. CASE Untar(i)
    BY <2>2 DEF Untar, SetDisk, AfterUntar, Goto, Ends
  <2>3. CASE TarEnds(i)
    <3>1. CASE /\ SetDisk(i, "whole")
               /\ Goto(i, "delete")
               /\ UNCHANGED <<main, torn>>
      BY <2>3, <3>1 DEF TarEnds, SetDisk, Goto, Ends
    <3>2. CASE /\ Goto(i, "returned")
               /\ Ends(i)
               /\ torn' = torn \cup {of[i]}
               /\ UNCHANGED disk
      BY <2>3, <3>2 DEF TarEnds, SetDisk, Goto, Ends
    <3>3. QED
      BY <2>3, <3>1, <3>2 DEF TarEnds
  <2>4. QED
    BY <2>1, <2>2, <2>3
<1>4. ASSUME NEW i \in Run, Prepare(i)
      PROVE  RunInv'
  <2> USE <1>4 DEF Prepare
  <2>1. CASE DeleteScript(i)
    BY <2>1 DEF DeleteScript, Goto
  <2>2. CASE CreateScript(i)
    BY <2>2 DEF CreateScript, Goto
  <2>3. CASE WriteScript(i)
    BY <2>3 DEF WriteScript, Goto
  <2>4. CASE PrepareFails(i)
    BY <2>4 DEF PrepareFails, Goto, Ends
  <2>5. CASE StartVmm(i)
    <3>1. CASE /\ guest' = [guest EXCEPT ![i] = "booting"]
               /\ Goto(i, "wait")
               /\ UNCHANGED main
      BY <2>5, <3>1 DEF StartVmm, Goto, Ends
    <3>2. CASE /\ Goto(i, "returned")
               /\ Ends(i)
               /\ UNCHANGED guest
      BY <2>5, <3>2 DEF StartVmm, Goto, Ends
    <3>3. QED
      BY <2>5, <3>1, <3>2 DEF StartVmm
  <2>6. CASE RaceWait(i)
    BY <2>6 DEF RaceWait, Goto, Ends
  <2>7. QED
    BY <2>1, <2>2, <2>3, <2>4, <2>5, <2>6
<1>5. ASSUME NEW i \in Run, GuestBoots(i)
      PROVE  RunInv'
  <2>1. PICK lines \in SUBSET Line : SetMounted(i, lines)
    BY <1>5, BootStep
  <2>2. \A j \in Run \ {i} : mounted'[j] = mounted[j]
    BY <2>1 DEF SetMounted
  <2>3. QED
    BY <1>5, <2>2 DEF GuestBoots
<1>6. ASSUME NEW i \in Run, GuestEnds(i)
      PROVE  RunInv'
  BY <1>6 DEF GuestEnds
<1>7. ASSUME NEW i \in Run, EndBegins(i)
      PROVE  RunInv'
  BY <1>7 DEF EndBegins, Ends
<1>8. ASSUME NEW i \in Run, ProcessExit(i)
      PROVE  RunInv'
  BY <1>8 DEF ProcessExit, Gone, Goto, RestGoto
<1>9. ASSUME NEW i \in Run, Crash(i)
      PROVE  RunInv'
  BY <1>9 DEF Crash, Gone, Goto, RestGoto
<1>10. CASE UNCHANGED vars
  BY <1>10 DEF vars
<1>11. QED
  BY <1>1, <1>2, <1>3, <1>4, <1>5, <1>6, <1>7, <1>8, <1>9, <1>10 DEF Next

LEMMA RestNext == IInv /\ [Next]_vars => RestInv'
<1> SUFFICES ASSUME TypeOK, RunInv, RestInv, [Next]_vars
             PROVE  RestInv'
    BY DEF IInv
<1>0. NoOne \notin Run
  BY HostFilesAssumption DEF NoOne, Run
<1> USE <1>0 DEF TypeOK, RestInv, AtPath, runVars, vmVars, scriptVars, restVars,
                 diskVars
<1>1. ASSUME NEW i \in Run, StartRun(i)
      PROVE  RestInv'
  BY <1>1 DEF StartRun, RestGoto, Goto
<1>2. ASSUME NEW i \in Run, Rest(i)
      PROVE  RestInv'
  <2> USE <1>2 DEF Rest
  <2>1. CASE RestDelete(i)
    BY <2>1 DEF RestDelete, DeletesSock, SetSock, RestGoto, Companions, RunInv
  <2>2. CASE RestListen(i)
    <3>1. CASE /\ restSock[of[i]] = NoOne
               /\ SetSock(i, i)
               /\ RestGoto(i, "bound")
               /\ UNCHANGED main
      BY <2>2, <3>1 DEF RestListen, SetSock, RestGoto, Ends
    <3>2. CASE /\ restSock[of[i]] # NoOne
               /\ RestGoto(i, "failed")
               /\ Ends(i)
               /\ UNCHANGED restSock
      BY <2>2, <3>2 DEF RestListen, SetSock, RestGoto, Ends
    <3>3. QED
      BY <2>2, <3>1, <3>2 DEF RestListen
  <2>3. CASE RestServe(i)
    BY <2>3 DEF RestServe, RestGoto, Ends
  <2>4. CASE RestShutdown(i)
    BY <2>4 DEF RestShutdown, SetSock, RestGoto
  <2>5. CASE RestReturns(i)
    BY <2>5 DEF RestReturns, RestGoto
  <2>6. QED
    BY <2>1, <2>2, <2>3, <2>4, <2>5
<1>3. ASSUME NEW i \in Run, Disk(i)
      PROVE  RestInv'
  BY <1>3 DEF Disk
<1>4. ASSUME NEW i \in Run, Prepare(i)
      PROVE  RestInv'
  BY <1>4 DEF Prepare
<1>5. ASSUME NEW i \in Run, GuestBoots(i)
      PROVE  RestInv'
  BY <1>5 DEF GuestBoots
<1>6. ASSUME NEW i \in Run, GuestEnds(i)
      PROVE  RestInv'
  BY <1>6 DEF GuestEnds
<1>7. ASSUME NEW i \in Run, EndBegins(i)
      PROVE  RestInv'
  BY <1>7 DEF EndBegins, Ends
<1>8. ASSUME NEW i \in Run, ProcessExit(i)
      PROVE  RestInv'
  BY <1>8 DEF ProcessExit, Gone, Goto, RestGoto
<1>9. ASSUME NEW i \in Run, Crash(i)
      PROVE  RestInv'
  BY <1>9 DEF Crash, Gone, Goto, RestGoto
<1>10. CASE UNCHANGED vars
  BY <1>10 DEF vars
<1>11. QED
  BY <1>1, <1>2, <1>3, <1>4, <1>5, <1>6, <1>7, <1>8, <1>9, <1>10 DEF Next

LEMMA DiskNext == IInv /\ [Next]_vars => DiskInv'
<1> SUFFICES ASSUME TypeOK, RunInv, DiskInv, [Next]_vars
             PROVE  DiskInv'
    BY DEF IInv
<1> USE DEF runVars, vmVars, scriptVars, restVars, diskVars, TypeOK, RunInv,
            DiskInv, Alive, PastDisk
<1>1. ASSUME NEW i \in Run, StartRun(i)
      PROVE  DiskInv'
  BY <1>1 DEF StartRun, RestGoto, Goto, Companions
<1>2. ASSUME NEW i \in Run, Rest(i)
      PROVE  DiskInv'
  <2> USE <1>2 DEF Rest
  <2>1. CASE RestDelete(i)
    BY <2>1 DEF RestDelete, DeletesSock, SetSock, RestGoto
  <2>2. CASE RestListen(i)
    BY <2>2 DEF RestListen, SetSock, RestGoto, Ends
  <2>3. CASE RestServe(i)
    BY <2>3 DEF RestServe, RestGoto, Ends
  <2>4. CASE RestShutdown(i)
    BY <2>4 DEF RestShutdown, SetSock, RestGoto
  <2>5. CASE RestReturns(i)
    BY <2>5 DEF RestReturns, RestGoto
  <2>6. QED
    BY <2>1, <2>2, <2>3, <2>4, <2>5
<1>3. ASSUME NEW i \in Run, Disk(i)
      PROVE  DiskInv'
  <2> USE <1>3 DEF Disk
  <2>1. CASE StatDisk(i)
    BY <2>1 DEF StatDisk, Goto
  <2>2. CASE Untar(i)
    <3>1. CASE /\ SetDisk(i, "partial")
               /\ Goto(i, AfterUntar)
               /\ UNCHANGED main
               /\ torn' = torn \cup {of[j] : j \in Companions(i)}
      BY <2>2, <3>1 DEF Untar, SetDisk, AfterUntar, Goto, Ends, Companions
    <3>2. CASE /\ Goto(i, "returned")
               /\ Ends(i)
               /\ UNCHANGED diskVars
      BY <2>2, <3>2 DEF Untar, SetDisk, AfterUntar, Goto, Ends
    <3>3. QED
      BY <2>2, <3>1, <3>2 DEF Untar
  <2>3. CASE TarEnds(i)
    <3>1. CASE /\ SetDisk(i, "whole")
               /\ Goto(i, "delete")
               /\ UNCHANGED <<main, torn>>
      BY <2>3, <3>1 DEF TarEnds, SetDisk, Goto, Ends
    <3>2. CASE /\ Goto(i, "returned")
               /\ Ends(i)
               /\ torn' = torn \cup {of[i]}
               /\ UNCHANGED disk
      BY <2>3, <3>2 DEF TarEnds, SetDisk, Goto, Ends
    <3>3. QED
      BY <2>3, <3>1, <3>2 DEF TarEnds
  <2>4. QED
    BY <2>1, <2>2, <2>3
<1>4. ASSUME NEW i \in Run, Prepare(i)
      PROVE  DiskInv'
  <2> USE <1>4 DEF Prepare
  <2>1. CASE DeleteScript(i)
    BY <2>1 DEF DeleteScript, Goto
  <2>2. CASE CreateScript(i)
    BY <2>2 DEF CreateScript, Goto
  <2>3. CASE WriteScript(i)
    BY <2>3 DEF WriteScript, Goto
  <2>4. CASE PrepareFails(i)
    BY <2>4 DEF PrepareFails, Goto, Ends
  <2>5. CASE StartVmm(i)
    <3>1. CASE /\ guest' = [guest EXCEPT ![i] = "booting"]
               /\ Goto(i, "wait")
               /\ UNCHANGED main
      BY <2>5, <3>1 DEF StartVmm, Goto, Ends
    <3>2. CASE /\ Goto(i, "returned")
               /\ Ends(i)
               /\ UNCHANGED guest
      BY <2>5, <3>2 DEF StartVmm, Goto, Ends
    <3>3. QED
      BY <2>5, <3>1, <3>2 DEF StartVmm
  <2>6. CASE RaceWait(i)
    BY <2>6 DEF RaceWait, Goto, Ends
  <2>7. QED
    BY <2>1, <2>2, <2>3, <2>4, <2>5, <2>6
<1>5. ASSUME NEW i \in Run, GuestBoots(i)
      PROVE  DiskInv'
  BY <1>5 DEF GuestBoots
<1>6. ASSUME NEW i \in Run, GuestEnds(i)
      PROVE  DiskInv'
  BY <1>6 DEF GuestEnds
<1>7. ASSUME NEW i \in Run, EndBegins(i)
      PROVE  DiskInv'
  BY <1>7 DEF EndBegins, Ends
<1>8. ASSUME NEW i \in Run, ProcessExit(i)
      PROVE  DiskInv'
  BY <1>8 DEF ProcessExit, Gone, Goto, RestGoto
<1>9. ASSUME NEW i \in Run, Crash(i)
      PROVE  DiskInv'
  BY <1>9 DEF Crash, Gone, Goto, RestGoto
<1>10. CASE UNCHANGED vars
  BY <1>10 DEF vars
<1>11. QED
  BY <1>1, <1>2, <1>3, <1>4, <1>5, <1>6, <1>7, <1>8, <1>9, <1>10 DEF Next

LEMMA ScriptNext == IInv /\ [Next]_vars => ScriptInv'
<1> SUFFICES ASSUME TypeOK, RunInv, ScriptInv, [Next]_vars
             PROVE  ScriptInv'
    BY DEF IInv
<1> USE DEF runVars, vmVars, scriptVars, restVars, diskVars, TypeOK, RunInv,
            ScriptInv, Alive, Prepares
<1>1. ASSUME NEW i \in Run, StartRun(i)
      PROVE  ScriptInv'
  BY <1>1 DEF StartRun, RestGoto, Goto
<1>2. ASSUME NEW i \in Run, Rest(i)
      PROVE  ScriptInv'
  <2> USE <1>2 DEF Rest
  <2>1. CASE RestDelete(i)
    BY <2>1 DEF RestDelete, DeletesSock, SetSock, RestGoto
  <2>2. CASE RestListen(i)
    BY <2>2 DEF RestListen, SetSock, RestGoto, Ends
  <2>3. CASE RestServe(i)
    BY <2>3 DEF RestServe, RestGoto, Ends
  <2>4. CASE RestShutdown(i)
    BY <2>4 DEF RestShutdown, SetSock, RestGoto
  <2>5. CASE RestReturns(i)
    BY <2>5 DEF RestReturns, RestGoto
  <2>6. QED
    BY <2>1, <2>2, <2>3, <2>4, <2>5
<1>3. ASSUME NEW i \in Run, Disk(i)
      PROVE  ScriptInv'
  <2> USE <1>3 DEF Disk
  <2>1. CASE StatDisk(i)
    BY <2>1 DEF StatDisk, Goto
  <2>2. CASE Untar(i)
    <3>1. CASE /\ SetDisk(i, "partial")
               /\ Goto(i, AfterUntar)
               /\ UNCHANGED main
               /\ torn' = torn \cup {of[j] : j \in Companions(i)}
      BY <2>2, <3>1 DEF Untar, SetDisk, AfterUntar, Goto, Ends
    <3>2. CASE /\ Goto(i, "returned")
               /\ Ends(i)
               /\ UNCHANGED diskVars
      BY <2>2, <3>2 DEF Untar, SetDisk, AfterUntar, Goto, Ends
    <3>3. QED
      BY <2>2, <3>1, <3>2 DEF Untar
  <2>3. CASE TarEnds(i)
    <3>1. CASE /\ SetDisk(i, "whole")
               /\ Goto(i, "delete")
               /\ UNCHANGED <<main, torn>>
      BY <2>3, <3>1 DEF TarEnds, SetDisk, Goto, Ends
    <3>2. CASE /\ Goto(i, "returned")
               /\ Ends(i)
               /\ torn' = torn \cup {of[i]}
               /\ UNCHANGED disk
      BY <2>3, <3>2 DEF TarEnds, SetDisk, Goto, Ends
    <3>3. QED
      BY <2>3, <3>1, <3>2 DEF TarEnds
  <2>4. QED
    BY <2>1, <2>2, <2>3
<1>4. ASSUME NEW i \in Run, Prepare(i)
      PROVE  ScriptInv'
  <2> USE <1>4 DEF Prepare
  <2>1. CASE DeleteScript(i)
    <3>1. \A j \in Run \ {i} :
            main'[j] = main[j] /\ pc'[j] = pc[j] /\ guest'[j] = guest[j]
      BY <2>1 DEF DeleteScript, Goto
    <3>2. \A j \in Run \ {i} : Prepares(j)' => Prepares(j)
      BY <3>1
    <3>3. ASSUME NEW j \in Run \ {i}, Prepares(j)
          PROVE  {i, j} \subseteq crowded'
      <4> HIDE DEF Prepares
      <4>1. j \in {x \in Run \ {i} : Prepares(x)}
        BY <3>3
      <4>2. QED
        BY <2>1, <4>1 DEF DeleteScript
    <3>4. guest[i] = "none"
      BY <2>1 DEF DeleteScript
    <3>5. ASSUME NEW j \in Run, NEW k \in Run, j # k, Prepares(j)', Prepares(k)'
          PROVE  {j, k} \subseteq crowded'
      <4>1. CASE j # i /\ k # i
        <5>1. Prepares(j) /\ Prepares(k)
          BY <3>2, <3>5, <4>1
        <5> HIDE DEF Prepares
        <5>2. QED
          BY <3>3, <4>1, <5>1
      <4>2. CASE j = i
        <5>1. Prepares(k)
          BY <3>2, <3>5, <4>2
        <5> HIDE DEF Prepares
        <5>2. QED
          BY <3>3, <3>5, <4>2, <5>1
      <4>3. CASE k = i
        <5>1. Prepares(j)
          BY <3>2, <3>5, <4>3
        <5> HIDE DEF Prepares
        <5>2. QED
          BY <3>3, <3>5, <4>3, <5>1
      <4>4. QED
        BY <4>1, <4>2, <4>3
    <3>6. pc'[i] = "create" /\ guest'[i] = guest[i]
      BY <2>1 DEF DeleteScript, Goto
    <3>7. \A j \in (Run \ {i}) \ crowded' :
            pc'[j] \notin {"write", "vmm"} /\ guest'[j] # "booting"
      BY <3>1, <3>3
    <3>8. QED
      BY <3>4, <3>5, <3>6, <3>7
  <2>2. CASE CreateScript(i)
    <3>1. \A j \in Run \ {i} :
            main'[j] = main[j] /\ pc'[j] = pc[j] /\ guest'[j] = guest[j]
      BY <2>2 DEF CreateScript, Goto
    <3>2. \A j \in Run \ {i} : Prepares(j)' => Prepares(j)
      BY <3>1
    <3>3. ASSUME NEW j \in Run \ {i}, Prepares(j)
          PROVE  {i, j} \subseteq crowded'
      <4>1. Prepares(i) /\ UNCHANGED crowded
        BY <2>2 DEF CreateScript
      <4> HIDE DEF Prepares
      <4>2. QED
        BY <3>3, <4>1
    <3>4. guest[i] = "none"
      BY <2>2 DEF CreateScript
    <3>5. ASSUME NEW j \in Run, NEW k \in Run, j # k, Prepares(j)', Prepares(k)'
          PROVE  {j, k} \subseteq crowded'
      <4>1. CASE j # i /\ k # i
        <5>1. Prepares(j) /\ Prepares(k)
          BY <3>2, <3>5, <4>1
        <5> HIDE DEF Prepares
        <5>2. QED
          BY <3>3, <4>1, <5>1
      <4>2. CASE j = i
        <5>1. Prepares(k)
          BY <3>2, <3>5, <4>2
        <5> HIDE DEF Prepares
        <5>2. QED
          BY <3>3, <3>5, <4>2, <5>1
      <4>3. CASE k = i
        <5>1. Prepares(j)
          BY <3>2, <3>5, <4>3
        <5> HIDE DEF Prepares
        <5>2. QED
          BY <3>3, <3>5, <4>3, <5>1
      <4>4. QED
        BY <4>1, <4>2, <4>3
    <3>6. /\ pc'[i] = "write" /\ guest'[i] = guest[i]
          /\ script' = {} /\ i \in open'
      BY <2>2 DEF CreateScript, Goto
    <3>7. \A j \in (Run \ {i}) \ crowded' :
            pc'[j] \notin {"write", "vmm"} /\ guest'[j] # "booting"
      BY <3>1, <3>3
    <3>8. QED
      BY <3>4, <3>5, <3>6, <3>7
  <2>3. CASE WriteScript(i)
    BY <2>3 DEF WriteScript, Goto
  <2>4. CASE PrepareFails(i)
    BY <2>4 DEF PrepareFails, Goto, Ends
  <2>5. CASE StartVmm(i)
    <3>1. CASE /\ guest' = [guest EXCEPT ![i] = "booting"]
               /\ Goto(i, "wait")
               /\ UNCHANGED main
      BY <2>5, <3>1 DEF StartVmm, Goto, Ends
    <3>2. CASE /\ Goto(i, "returned")
               /\ Ends(i)
               /\ UNCHANGED guest
      BY <2>5, <3>2 DEF StartVmm, Goto, Ends
    <3>3. QED
      BY <2>5, <3>1, <3>2 DEF StartVmm
  <2>6. CASE RaceWait(i)
    BY <2>6 DEF RaceWait, Goto, Ends
  <2>7. QED
    BY <2>1, <2>2, <2>3, <2>4, <2>5, <2>6
<1>5. ASSUME NEW i \in Run, GuestBoots(i)
      PROVE  ScriptInv'
  BY <1>5 DEF GuestBoots
<1>6. ASSUME NEW i \in Run, GuestEnds(i)
      PROVE  ScriptInv'
  BY <1>6 DEF GuestEnds
<1>7. ASSUME NEW i \in Run, EndBegins(i)
      PROVE  ScriptInv'
  BY <1>7 DEF EndBegins, Ends
<1>8. ASSUME NEW i \in Run, ProcessExit(i)
      PROVE  ScriptInv'
  BY <1>8 DEF ProcessExit, Gone, Goto, RestGoto
<1>9. ASSUME NEW i \in Run, Crash(i)
      PROVE  ScriptInv'
  BY <1>9 DEF Crash, Gone, Goto, RestGoto
<1>10. CASE UNCHANGED vars
  BY <1>10 DEF vars
<1>11. QED
  BY <1>1, <1>2, <1>3, <1>4, <1>5, <1>6, <1>7, <1>8, <1>9, <1>10 DEF Next

\* Only the boot of a guest gives it mounts; a run's arguments stay.
LEMMA MountsOnlyNext == IInv /\ [Next]_vars => MountsOnlyAsAsked'
<1> DEFINE Asked(a, mount) ==
             \E k \in DOMAIN a : /\ a[k].src = mount.source
                                 /\ TargetOf(a[k]) = mount.target
<1> SUFFICES ASSUME TypeOK, RunInv, MountsOnlyAsAsked, [Next]_vars,
                    NEW i \in Run, NEW mount \in mounted'[i]
             PROVE  Asked(args'[i], mount)
    BY DEF IInv, MountsOnlyAsAsked
<1>1. mount \in mounted[i] => Asked(args[i], mount)
  BY DEF MountsOnlyAsAsked
<1> HIDE DEF Asked
<1>2. CASE UNCHANGED <<args, mounted>>
  BY <1>1, <1>2
<1>3. ASSUME NEW j \in Run, StartRun(j)
      PROVE  Asked(args'[i], mount)
  <2>1. UNCHANGED mounted
    BY <1>3 DEF StartRun
  <2>2. i # j
    BY <1>3, <2>1 DEF StartRun, RunInv
  <2>3. args'[i] = args[i]
    BY <1>3, <2>2 DEF StartRun, TypeOK
  <2>4. QED
    BY <1>1, <2>1, <2>3
<1>4. ASSUME NEW j \in Run, GuestBoots(j)
      PROVE  Asked(args'[i], mount)
  <2>1. UNCHANGED args
    BY <1>4 DEF GuestBoots, runVars
  <2>2. PICK lines \in SUBSET Line : SetMounted(j, lines)
    BY <1>4, BootStep
  <2>3. i # j => mounted'[i] = mounted[i]
    BY <2>2 DEF SetMounted, TypeOK
  <2>4. i = j => mounted'[i] = Mounted(Mounts(i), lines)
    BY <2>2 DEF SetMounted, TypeOK
  <2>5. args[i] \in Seq(Arg)
    BY DEF TypeOK, Arg
  <2>6. i = j => Asked(args[i], mount)
    BY <2>4, <2>5, MountedAsAsked DEF Asked, Mounts
  <2>7. QED
    BY <1>1, <2>1, <2>3, <2>6
<1>5. ASSUME NEW j \in Run, GuestEnds(j)
      PROVE  Asked(args'[i], mount)
  <2>1. UNCHANGED args /\ mounted' = [mounted EXCEPT ![j] = {}]
    BY <1>5 DEF GuestEnds, runVars
  <2>2. mount \in mounted[i]
    BY <2>1 DEF TypeOK
  <2>3. QED
    BY <1>1, <2>1, <2>2
<1>6. ASSUME NEW j \in Run,
             \/ Rest(j) \/ Disk(j) \/ Prepare(j) \/ EndBegins(j)
             \/ ProcessExit(j) \/ Crash(j)
      PROVE  UNCHANGED <<args, mounted>>
  BY <1>6 DEF Rest, Disk, Prepare, EndBegins, ProcessExit, Crash, vmVars
<1>7. UNCHANGED vars => UNCHANGED <<args, mounted>>
  BY DEF vars, runVars, vmVars
<1>8. QED
  BY <1>2, <1>3, <1>4, <1>5, <1>6, <1>7 DEF Next

\* A guest whose run met none finds its own script, or none at all.
LEMMA VolumesNext == IInv /\ [Next]_vars => GuestSeesItsVolumes'
<1> DEFINE Sees(a, m) ==
             \/ m = Wanted(a)
             \/ \E k \in DOMAIN a : TargetOf(a[k]) = IgnDir /\ a[k].src # IgnDir
<1> SUFFICES ASSUME TypeOK, RunInv, ScriptInv, GuestSeesItsVolumes,
                    [Next]_vars,
                    NEW i \in Run \ crowded', guest'[i] = "booted"
             PROVE  Sees(args'[i], mounted'[i])
    BY DEF IInv, GuestSeesItsVolumes
<1>1. i \notin crowded
  <2>1. ASSUME NEW j \in Run, Prepare(j)
        PROVE  crowded \subseteq crowded'
    BY <2>1 DEF Prepare, DeleteScript, CreateScript, WriteScript, PrepareFails,
                StartVmm, RaceWait, scriptVars
  <2>2. ASSUME NEW j \in Run,
               \/ StartRun(j) \/ Rest(j) \/ Disk(j) \/ GuestBoots(j)
               \/ GuestEnds(j) \/ EndBegins(j) \/ ProcessExit(j) \/ Crash(j)
        PROVE  UNCHANGED crowded
    BY <2>2 DEF StartRun, Rest, Disk, GuestBoots, GuestEnds, EndBegins,
                ProcessExit, Crash, scriptVars
  <2>3. UNCHANGED vars => UNCHANGED crowded
    BY DEF vars, scriptVars
  <2>4. QED
    BY <2>1, <2>2, <2>3 DEF Next
<1>2. guest[i] = "booted" => Sees(args[i], mounted[i])
  BY <1>1 DEF GuestSeesItsVolumes
<1> HIDE DEF Sees
<1>3. CASE UNCHANGED <<args, guest, mounted>>
  BY <1>2, <1>3
<1>4. ASSUME NEW j \in Run, StartRun(j)
      PROVE  Sees(args'[i], mounted'[i])
  <2>1. UNCHANGED <<guest, mounted>>
    BY <1>4 DEF StartRun
  <2>2. i # j
    BY <1>4, <2>1 DEF StartRun, RunInv
  <2>3. args'[i] = args[i]
    BY <1>4, <2>2 DEF StartRun, TypeOK
  <2>4. QED
    BY <1>2, <2>1, <2>3
<1>5. ASSUME NEW j \in Run, Prepare(j)
      PROVE  Sees(args'[i], mounted'[i])
  <2>1. UNCHANGED <<args, mounted>>
    BY <1>5 DEF Prepare
  <2>2. guest[i] = "booted"
    BY <1>5 DEF Prepare, DeleteScript, CreateScript, WriteScript, PrepareFails,
                StartVmm, RaceWait, TypeOK
  <2>3. QED
    BY <1>2, <2>1, <2>2
<1>6. ASSUME NEW j \in Run, GuestBoots(j)
      PROVE  Sees(args'[i], mounted'[i])
  <2>1. /\ UNCHANGED args
        /\ guest[j] = "booting"
        /\ guest' = [guest EXCEPT ![j] = "booted"]
    BY <1>6 DEF GuestBoots, runVars
  <2>2. PICK found \in {script, {}} : \E lines \in SUBSET Line :
          /\ found = IF FindsScript(Mounts(j)) THEN script ELSE {}
          /\ SetMounted(j, lines)
          /\ \A k \in Run : found = {k} => lines = ScriptOf(Mounts(k))
          /\ found = {} => lines = {}
    BY <1>6, BootStep
  <2>3. PICK lines \in SUBSET Line :
          /\ found = IF FindsScript(Mounts(j)) THEN script ELSE {}
          /\ SetMounted(j, lines)
          /\ \A k \in Run : found = {k} => lines = ScriptOf(Mounts(k))
          /\ found = {} => lines = {}
    BY <2>2
  <2>4. CASE i # j
    <3>1. mounted'[i] = mounted[i] /\ guest'[i] = guest[i]
      BY <2>1, <2>3, <2>4 DEF SetMounted, TypeOK
    <3>2. QED
      BY <1>2, <2>1, <3>1
  <2>5. CASE i = j
    <3>1. mounted'[i] = Mounted(Mounts(i), lines)
      BY <2>3, <2>5 DEF SetMounted, TypeOK
    <3>2. script = {i}
      BY <1>1, <2>1, <2>5 DEF ScriptInv
    <3>3. args[i] \in Seq(Arg)
      BY DEF TypeOK, Arg
    <3>4. CASE FindsScript(Mounts(i))
      <4>1. lines = ScriptOf(Mounts(i))
        BY <2>3, <2>5, <3>2, <3>4
      <4>2. mounted'[i] = Wanted(args[i])
        BY <3>1, <3>3, <4>1, OwnScript DEF Mounts
      <4>3. QED
        BY <2>1, <4>2 DEF Sees
    <3>5. CASE ~FindsScript(Mounts(i))
      BY <2>1, <3>3, <3>5, FindsOwnScript DEF Mounts, Sees
    <3>6. QED
      BY <3>4, <3>5
  <2>6. QED
    BY <2>4, <2>5
<1>7. ASSUME NEW j \in Run, GuestEnds(j)
      PROVE  Sees(args'[i], mounted'[i])
  <2>1. /\ UNCHANGED args
        /\ guest' = [guest EXCEPT ![j] = "ended"]
        /\ mounted' = [mounted EXCEPT ![j] = {}]
    BY <1>7 DEF GuestEnds, runVars
  <2>2. i # j
    BY <2>1 DEF TypeOK
  <2>3. guest'[i] = guest[i] /\ mounted'[i] = mounted[i]
    BY <2>1, <2>2 DEF TypeOK
  <2>4. QED
    BY <1>2, <2>1, <2>3
<1>8. ASSUME NEW j \in Run,
             Rest(j) \/ Disk(j) \/ EndBegins(j) \/ ProcessExit(j) \/ Crash(j)
      PROVE  UNCHANGED <<args, guest, mounted>>
  BY <1>8 DEF Rest, Disk, EndBegins, ProcessExit, Crash, vmVars
<1>9. UNCHANGED vars => UNCHANGED <<args, guest, mounted>>
  BY DEF vars, runVars, vmVars
<1>10. QED
  BY <1>3, <1>4, <1>5, <1>6, <1>7, <1>8, <1>9 DEF Next

-----------------------------------------------------------------------------
(* The theorems *)

LEMMA Invariance == Spec => []IInv
<1>1. IInv /\ [Next]_vars => IInv'
  BY TypeNext, RunNext, RestNext, DiskNext, ScriptNext, MountsOnlyNext,
     VolumesNext DEF IInv
<1>2. QED
  BY <1>1, InitIInv, PTL DEF Spec

\* Every variable of the files' model has its type in every reachable state.
THEOREM TypeCorrect == Spec => []TypeOK
<1>1. IInv => TypeOK
  BY DEF IInv
<1>2. QED
  BY <1>1, Invariance, PTL

\* RestService deletes the file at its path before net.Listen: what an earlier
\* run left there neither keeps the server from listening nor has its clients.
THEOREM RestIsReachable == Spec => []RestReachable
<1>1. IInv => RestReachable
  BY DEF IInv, RestInv, RestReachable
<1>2. QED
  BY <1>1, Invariance, PTL

\* Mounts are named by a hash of their target in the script and in the devices:
\* whichever script a guest runs, it mounts what its own machine was given.
THEOREM MountsAsAsked == Spec => []MountsOnlyAsAsked
<1>1. IInv => MountsOnlyAsAsked
  BY DEF IInv
<1>2. QED
  BY <1>1, Invariance, PTL

\* The script is deleted and written anew before each vmm: a guest that no
\* other was prepared beside mounts all that was asked for.
THEOREM SeesItsVolumes == Spec => []GuestSeesItsVolumes
<1>1. IInv => GuestSeesItsVolumes
  BY DEF IInv
<1>2. QED
  BY <1>1, Invariance, PTL

\* ExtractSourceCodeDisk runs tar when there is no file and trusts any there is:
\* a guest's source disk is whole, unless a tar was cut short or had company.
THEOREM SourceDiskIsWhole == Spec => []SourceDiskWhole
<1>1. IInv => SourceDiskWhole
  BY DEF IInv, DiskInv, SourceDiskWhole
<1>2. QED
  BY <1>1, Invariance, PTL

=============================================================================
