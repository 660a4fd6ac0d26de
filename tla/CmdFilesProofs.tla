--------------------------- MODULE CmdFilesProofs ---------------------------
(***************************************************************************)
(* Proofs about CmdFiles, for any number of sessions, hosts, commands and  *)
(* edits: its type invariant, that the caches are bounded, that they are   *)
(* transparent while the disk is quiet, and that they settle.              *)
(***************************************************************************)
EXTENDS CmdFiles, TLAPS

LEMMA TypeInit == Init => TypeOK
<1>1. (CHOOSE f \in Files : TRUE) \in Files
  BY CmdFilesAssumption, Zenon DEF CmdFilesAssumption
<1>2. Contents \in [Files -> Nat] /\ 0 \in 0..MaxEdits
  BY CmdFilesAssumption DEF CmdFilesAssumption
<1>3. Init => files \in [Files -> Nat] /\ dirs \in [Hosts -> SUBSET Slugs]
  BY DEF Init
<1> SUFFICES ASSUME Init PROVE TypeOK
  OBVIOUS
<1>4. asked \in [Sessions -> Files] /\ gotNames \in [Sessions -> SUBSET Slugs]
  BY <1>1 DEF Init
<1>5. pc \in [Sessions -> Steps] /\ answer \in [Sessions -> Nat \union {Unanswered}]
  BY DEF Init, Steps
<1> QED
  BY <1>2, <1>3, <1>4, <1>5 DEF Init, TypeOK

\* Every step of a lookup keeps the types.
LEMMA TypeLookup ==
    ASSUME TypeOK, NEW s \in Sessions, LookupStep(s)
    PROVE  TypeOK'
<1> USE DEF TypeOK, Goto, Return, cacheVars
<1>0. /\ \A p \in Steps : [pc EXCEPT ![s] = p] \in [Sessions -> Steps]
      /\ \A v \in Nat : [answer EXCEPT ![s] = v] \in [Sessions -> Nat \union {Unanswered}]
      /\ {"idle", "check_dir", "list", "store_dir", "check_file", "read", "store_file"} \subseteq Steps
  BY DEF Steps
<1>c. ASSUME NEW names, Choose(s, names)
      PROVE  pc' \in [Sessions -> Steps] /\ answer' \in [Sessions -> Nat \union {Unanswered}]
  BY <1>0, <1>c DEF Choose
<1>1. ASSUME NEW f \in Files, Lookup(s, f) PROVE TypeOK'
  BY <1>0, <1>1 DEF Lookup
<1>2. CASE CheckDir(s)
  BY <1>0, <1>c, <1>2 DEF CheckDir
<1>3. CASE ListDir(s)
  <2>1. NamesOnDisk(HostOf(s)) \subseteq Slugs
    BY DEF NamesOnDisk
  <2>2. gotNames' \in [Sessions -> SUBSET Slugs]
    BY <1>3, <2>1 DEF ListDir
  <2> QED
    BY <1>0, <1>3, <2>2 DEF ListDir
<1>4. CASE StoreDir(s)
  <2>1. HostOf(s) \in Hosts
    BY DEF HostOf, Files
  <2>2. dirs' \in [Hosts -> SUBSET Slugs] /\ listed' \subseteq Hosts
    BY <1>4, <2>1 DEF StoreDir
  <2>3. gotNames' \in [Sessions -> SUBSET Slugs]
    BY <1>4 DEF StoreDir
  <2> QED
    BY <1>c, <1>4, <2>2, <2>3 DEF StoreDir
<1>5. CASE CheckFile(s)
  BY <1>0, <1>5 DEF CheckFile
<1>6. CASE ReadFile(s)
  <2>1. [gotFile EXCEPT ![s] = disk[asked[s]]] \in [Sessions -> Nat] /\ 0 \in Nat
    OBVIOUS
  <2>2. CASE Goto(s, "store_file") /\ UNCHANGED <<failed, answer>>
    BY <1>0, <1>6, <2>1, <2>2 DEF ReadFile
  <2>3. CASE Return(s, 0) /\ UNCHANGED gotFile
    BY <1>0, <1>6, <2>1, <2>3 DEF ReadFile
  <2> QED
    BY <1>6, <2>2, <2>3 DEF ReadFile
<1>7. CASE StoreFile(s)
  BY <1>0, <1>7 DEF StoreFile
<1> QED
  BY <1>1, <1>2, <1>3, <1>4, <1>5, <1>6, <1>7 DEF LookupStep

LEMMA TypeEdit == ASSUME TypeOK, NEW f \in Files, Edit(f) PROVE TypeOK'
<1>1. PICK v \in {0, MaxEdits + edits + 1} : disk' = [disk EXCEPT ![f] = v]
  BY DEF Edit
<1>2. MaxEdits + edits + 1 \in Nat /\ edits' \in 0..MaxEdits
  BY CmdFilesAssumption DEF Edit, TypeOK, CmdFilesAssumption
<1>3. disk' \in [Files -> Nat]
  BY <1>1, <1>2 DEF TypeOK
<1> QED
  BY <1>2, <1>3 DEF Edit, TypeOK, cacheVars, lookupVars

\* Every reachable state of the caches and of the lookups is well typed.
THEOREM CacheTypesCorrect == Spec => []TypeOK
<1>1. TypeOK /\ [Next]_vars => TypeOK'
  <2>1. TypeOK /\ UNCHANGED vars => TypeOK'
    BY DEF TypeOK, vars, cacheVars, lookupVars
  <2> QED
    BY <2>1, TypeLookup, TypeEdit DEF Next
<1> QED
  BY <1>1, TypeInit, PTL DEF Spec

-----------------------------------------------------------------------------
(* The caches are bounded. A lookup that is past the check of the slug has *)
(* a safe one, and one that is past the listing has a host that is listed. *)

PastTheChecks ==
    \A s \in Sessions :
        /\ pc[s] # "idle" => asked[s][2] \notin Unsafe
        /\ pc[s] \in {"check_file", "read", "store_file"} => asked[s][1] \in listed

LEMMA BoundedLookup ==
    ASSUME TypeOK, CachesAreBounded, PastTheChecks, NEW s \in Sessions, LookupStep(s)
    PROVE  CachesAreBounded' /\ PastTheChecks'
<1> USE DEF TypeOK, CachesAreBounded, PastTheChecks, Goto, Return, cacheVars, HostOf, Choose,
            Files
<1>1. ASSUME NEW f \in Files, Lookup(s, f) PROVE CachesAreBounded' /\ PastTheChecks'
  BY <1>1 DEF Lookup
<1>2. CASE CheckDir(s)
  BY <1>2 DEF CheckDir
<1>3. CASE ListDir(s)
  BY <1>3 DEF ListDir
<1>4. CASE StoreDir(s)
  BY <1>4 DEF StoreDir
<1>5. CASE CheckFile(s)
  BY <1>5 DEF CheckFile
<1>6. CASE ReadFile(s)
  BY <1>6 DEF ReadFile
<1>7. CASE StoreFile(s)
  BY <1>7 DEF StoreFile
<1> QED
  BY <1>1, <1>2, <1>3, <1>4, <1>5, <1>6, <1>7 DEF LookupStep

\* The caches hold only files of listed folders, under safe slugs, however many
\* sessions type whatever they like (lookup, hostFiles).
THEOREM CachesBounded == Spec => []CachesAreBounded
<1>1. Init => CachesAreBounded /\ PastTheChecks
  BY DEF Init, CachesAreBounded, PastTheChecks
<1>2. TypeOK /\ CachesAreBounded /\ PastTheChecks /\ [Next]_vars
      => CachesAreBounded' /\ PastTheChecks'
  <2>1. CachesAreBounded /\ PastTheChecks /\ UNCHANGED <<cacheVars, lookupVars>>
        => CachesAreBounded' /\ PastTheChecks'
    BY DEF CachesAreBounded, PastTheChecks, cacheVars, lookupVars
  <2> QED
    BY <2>1, BoundedLookup DEF Next, Edit, vars
<1> QED
  BY <1>1, <1>2, CacheTypesCorrect, PTL DEF Spec

-----------------------------------------------------------------------------
(* The caches settle, at every step from a well-typed state.               *)

Settles ==
    /\ \A f \in Files : files[f] # 0 /\ ~Filling(f) => ~Filling(f)' /\ files'[f] = files[f]
    /\ \A h \in listed : ~Listing(h) => ~Listing(h)' /\ h \in listed' /\ dirs'[h] = dirs[h]

LEMMA SettlesLookup ==
    ASSUME TypeOK, NEW s \in Sessions, LookupStep(s)
    PROVE  Settles
<1> USE DEF TypeOK, Settles, Filling, Listing, Goto, Return, cacheVars, HostOf, Choose, Files
<1>1. ASSUME NEW f \in Files, Lookup(s, f) PROVE Settles
  BY <1>1 DEF Lookup
<1>2. CASE CheckDir(s)
  BY <1>2 DEF CheckDir
<1>3. CASE ListDir(s)
  BY <1>3 DEF ListDir
<1>4. CASE StoreDir(s)
  BY <1>4 DEF StoreDir
<1>5. CASE CheckFile(s)
  BY <1>5 DEF CheckFile
<1>6. CASE ReadFile(s)
  BY <1>6 DEF ReadFile
<1>7. CASE StoreFile(s)
  BY <1>7 DEF StoreFile
<1> QED
  BY <1>1, <1>2, <1>3, <1>4, <1>5, <1>6, <1>7 DEF LookupStep

\* An entry that is cached while nobody is filling it stays as it is for the life
\* of the process (lookup, hostFiles).
THEOREM CachesSettled == Spec => CachesSettle
<1>1. TypeOK /\ [Next]_vars => [Settles]_vars
  <2>1. ASSUME TypeOK, NEW f \in Files, Edit(f) PROVE Settles
    BY <2>1 DEF Edit, Settles, Filling, Listing, cacheVars, lookupVars, HostOf
  <2> QED
    BY <2>1, SettlesLookup DEF Next
<1> QED
  BY <1>1, CacheTypesCorrect, PTL DEF Spec, CachesSettle, Settles

-----------------------------------------------------------------------------
(* The caches are transparent while the disk is quiet: everything read from *)
(* it, cached or still in the hands of a lookup, is what it began with.     *)

Present(h) == {n \in Slugs : Contents[<<h, n>>] # 0}

Quiet == edits = 0 /\ ~failed

AsOnDisk ==
    Quiet =>
        /\ disk = Contents
        /\ \A h \in listed : dirs[h] = Present(h)
        /\ \A f \in Files : files[f] # 0 => files[f] = Contents[f]
        /\ \A s \in Sessions :
              /\ pc[s] = "store_dir" => gotNames[s] = Present(asked[s][1])
              /\ pc[s] = "store_file" => gotFile[s] = Contents[asked[s]]

TransparentInv == AsOnDisk /\ QuietDiskIsTransparent

\* A lookup of a name that is not in the folder's listing returns what the disk has.
LEMMA ChooseIsRight ==
    ASSUME TypeOK, PastTheChecks, QuietDiskIsTransparent, Quiet, UNCHANGED asked,
           NEW s \in Sessions, pc[s] # "idle", Choose(s, Present(asked[s][1]))
    PROVE  \A t \in Sessions :
              answer'[t] # Unanswered /\ pc'[t] = "idle" =>
                answer'[t] = IF asked[t][2] \in Unsafe THEN 0 ELSE Contents[asked[t]]
<1>1. asked[s] = <<asked[s][1], asked[s][2]>> /\ asked[s][2] \in Slugs
  BY DEF TypeOK, Files
<1>2. asked[s][2] \notin Present(asked[s][1]) => Contents[asked[s]] = 0
  BY <1>1 DEF Present
<1>3. CASE Goto(s, "check_file") /\ UNCHANGED answer
  BY <1>3 DEF Goto, TypeOK, QuietDiskIsTransparent, Quiet
<1>4. CASE Return(s, 0) /\ asked[s][2] \notin Present(asked[s][1])
  BY <1>2, <1>4 DEF Return, Goto, TypeOK, QuietDiskIsTransparent, Quiet, PastTheChecks
<1> QED
  BY <1>3, <1>4 DEF Choose

LEMMA TransparentLookup ==
    ASSUME TypeOK, PastTheChecks, TransparentInv, NEW s \in Sessions, LookupStep(s)
    PROVE  TransparentInv'
<1> USE DEF TypeOK, PastTheChecks, TransparentInv, AsOnDisk, Quiet, QuietDiskIsTransparent,
            cacheVars
<1>1. ASSUME NEW f \in Files, Lookup(s, f) PROVE TransparentInv'
  BY <1>1 DEF Lookup, Goto, Return
<1>2. CASE CheckDir(s)
  <2>1. CASE asked[s][1] \notin listed /\ Goto(s, "list") /\ UNCHANGED answer
    BY <1>2, <2>1 DEF CheckDir, Goto
  <2>2. CASE asked[s][1] \in listed /\ Choose(s, dirs[asked[s][1]])
    <3>1. AsOnDisk'
      BY <1>2, <2>2 DEF CheckDir, Choose, Goto, Return
    <3>2. Quiet => QuietDiskIsTransparent'
      BY <1>2, <2>2, ChooseIsRight DEF CheckDir
    <3> QED
      BY <1>2, <3>1, <3>2 DEF CheckDir
  <2> QED
    BY <1>2, <2>1, <2>2 DEF CheckDir, HostOf
<1>3. CASE ListDir(s)
  <2>1. Quiet => NamesOnDisk(HostOf(s)) = Present(asked[s][1])
    BY DEF NamesOnDisk, HostOf, Present
  <2> QED
    BY <1>3, <2>1 DEF ListDir, Goto
<1>4. CASE StoreDir(s)
  <2>1. AsOnDisk'
    BY <1>4 DEF StoreDir, Choose, Goto, Return, HostOf, Files
  <2>2. Quiet => QuietDiskIsTransparent'
    BY <1>4, ChooseIsRight DEF StoreDir
  <2> QED
    BY <1>4, <2>1, <2>2 DEF StoreDir
<1>5. CASE CheckFile(s)
  BY <1>5 DEF CheckFile, Goto, Return
<1>6. CASE ReadFile(s)
  BY <1>6 DEF ReadFile, Goto, Return
<1>7. CASE StoreFile(s)
  BY <1>7 DEF StoreFile, Goto, Return
<1> QED
  BY <1>1, <1>2, <1>3, <1>4, <1>5, <1>6, <1>7 DEF LookupStep

\* As long as nobody edits the files and no read fails, every lookup of every
\* session answers as if there were no caches (lookup, hostFiles).
THEOREM CachesTransparent == Spec => []QuietDiskIsTransparent
<1>1. Init => TransparentInv /\ PastTheChecks
  BY DEF Init, TransparentInv, AsOnDisk, QuietDiskIsTransparent, PastTheChecks
<1>2. TypeOK /\ CachesAreBounded /\ PastTheChecks /\ TransparentInv /\ [Next]_vars
      => TransparentInv' /\ PastTheChecks'
  <2>1. ASSUME PastTheChecks, TransparentInv, UNCHANGED vars
        PROVE  TransparentInv' /\ PastTheChecks'
    BY <2>1 DEF TransparentInv, AsOnDisk, Quiet, QuietDiskIsTransparent, PastTheChecks, vars,
                cacheVars, lookupVars
  <2>2. ASSUME TypeOK, PastTheChecks, NEW f \in Files, Edit(f)
        PROVE  TransparentInv' /\ PastTheChecks'
    <3>1. edits' # 0
      BY <2>2 DEF Edit, TypeOK
    <3> QED
      BY <2>2, <3>1 DEF Edit, TransparentInv, AsOnDisk, Quiet, QuietDiskIsTransparent,
                        PastTheChecks, cacheVars, lookupVars
  <2> QED
    BY <2>1, <2>2, TransparentLookup, BoundedLookup DEF Next
<1> QED
  BY <1>1, <1>2, CacheTypesCorrect, CachesBounded, PTL DEF Spec, TransparentInv

=============================================================================
