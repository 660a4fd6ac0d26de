------------------------------ MODULE CmdFiles ------------------------------
(***************************************************************************)
(* The command files of --commands-root (internal/sshsrv/cmdfiles.go): two *)
(* caches filled on demand by the lookups of concurrent sessions, while    *)
(* the operator edits the files. A fill is a check under the read lock, a  *)
(* read of the disk under no lock, and a store under the write lock, so    *)
(* other lookups and edits come in between.                                *)
(*                                                                         *)
(* A file is a pair <<host, slug>>, its contents a version number; version *)
(* 0 is a file that is not there. A missing folder has no files.           *)
(***************************************************************************)
EXTENDS Integers

CONSTANTS
    Sessions,    \* the sessions that look up commands, one at a time each
    Hosts,       \* the devices' host names
    Slugs,       \* the commands a client may type, as slugs
    Unsafe,      \* the slugs that are empty, hold a separator or begin with a dot
    Contents,    \* the version of each file when the process starts
    MaxEdits,    \* bound on the operator's edits
    DiskErrors   \* may ReadDir and ReadFile fail on what is there?

Files == Hosts \X Slugs

ASSUME CmdFilesAssumption ==
    /\ Files # {}
    /\ Unsafe \subseteq Slugs
    /\ Contents \in [Files -> Nat]
    /\ MaxEdits \in Nat
    /\ DiskErrors \in BOOLEAN

VARIABLES
    disk,      \* the version of each file on the disk
    edits,     \* how many edits the operator has made
    failed,    \* has a read failed of what was there?
    listed,    \* the hosts with an entry in cmdFiles.dirs
    dirs,      \* cmdFiles.dirs: the names listed for each host
    files,     \* cmdFiles.files: the version cached for each file, 0 if none
    pc,        \* where each session's lookup is
    asked,     \* the file it looks up, or did last
    gotNames,  \* the names it has read from the disk
    gotFile,   \* the version it has read from the disk
    answer     \* what its last lookup returned: a version, 0 for ok=false

cacheVars == <<listed, dirs, files>>
lookupVars == <<pc, asked, gotNames, gotFile, answer>>
vars == <<disk, edits, failed, cacheVars, lookupVars>>

Unanswered == -1

Steps == {"idle", "check_dir", "list", "store_dir", "check_file", "read", "store_file"}

Init ==
    /\ disk = Contents
    /\ edits = 0
    /\ failed = FALSE
    /\ listed = {}
    /\ dirs = [h \in Hosts |-> {}]
    /\ files = [f \in Files |-> 0]
    /\ pc = [s \in Sessions |-> "idle"]
    /\ asked = [s \in Sessions |-> CHOOSE f \in Files : TRUE]
    /\ gotNames = [s \in Sessions |-> {}]
    /\ gotFile = [s \in Sessions |-> 0]
    /\ answer = [s \in Sessions |-> Unanswered]

HostOf(s) == asked[s][1]

Goto(s, step) == pc' = [pc EXCEPT ![s] = step]

Return(s, v) == Goto(s, "idle") /\ answer' = [answer EXCEPT ![s] = v]

\* The names in a folder that are not directories.
NamesOnDisk(h) == {n \in Slugs : disk[<<h, n>>] # 0}

\* Mutant of Lookup: the slug is not checked.
Lookup_AnySlug(s, f) ==
    /\ pc[s] = "idle"
    /\ asked' = [asked EXCEPT ![s] = f]
    /\ Goto(s, "check_dir")
    /\ UNCHANGED <<disk, edits, failed, cacheVars, gotNames, gotFile, answer>>

\* lookup is called; a slug that could leave the folder is a miss at once.
Lookup(s, f) ==
    /\ pc[s] = "idle"
    /\ asked' = [asked EXCEPT ![s] = f]
    /\ \/ f[2] \in Unsafe /\ Return(s, 0)
       \/ f[2] \notin Unsafe /\ Goto(s, "check_dir") /\ UNCHANGED answer
    /\ UNCHANGED <<disk, edits, failed, cacheVars, gotNames, gotFile>>

\* lookup goes on with the names that hostFiles returned.
Choose(s, names) ==
    \/ asked[s][2] \in names /\ Goto(s, "check_file") /\ UNCHANGED answer
    \/ asked[s][2] \notin names /\ Return(s, 0)

\* hostFiles: the look at dirs under the read lock.
CheckDir(s) ==
    /\ pc[s] = "check_dir"
    /\ \/ HostOf(s) \in listed /\ Choose(s, dirs[HostOf(s)])
       \/ HostOf(s) \notin listed /\ Goto(s, "list") /\ UNCHANGED answer
    /\ UNCHANGED <<disk, edits, failed, cacheVars, asked, gotNames, gotFile>>

\* os.ReadDir; an error, whatever its cause, reads as a folder with no files.
ListDir(s) ==
    /\ pc[s] = "list"
    /\ \/ /\ gotNames' = [gotNames EXCEPT ![s] = NamesOnDisk(HostOf(s))]
          /\ UNCHANGED failed
       \/ /\ DiskErrors
          /\ gotNames' = [gotNames EXCEPT ![s] = {}]
          /\ failed' = TRUE
    /\ Goto(s, "store_dir")
    /\ UNCHANGED <<disk, edits, cacheVars, asked, gotFile, answer>>

\* The store under the write lock, over whatever another lookup stored.
StoreDir(s) ==
    /\ pc[s] = "store_dir"
    /\ dirs' = [dirs EXCEPT ![HostOf(s)] = gotNames[s]]
    /\ listed' = listed \union {HostOf(s)}
    /\ Choose(s, gotNames[s])
    /\ gotNames' = [gotNames EXCEPT ![s] = {}]
    /\ UNCHANGED <<disk, edits, failed, files, asked, gotFile>>

\* Mutant of CheckFile: the cache is never looked at.
CheckFile_Uncached(s) ==
    /\ pc[s] = "check_file"
    /\ Goto(s, "read")
    /\ UNCHANGED <<disk, edits, failed, cacheVars, asked, gotNames, gotFile, answer>>

\* The look at files under the read lock.
CheckFile(s) ==
    /\ pc[s] = "check_file"
    /\ \/ files[asked[s]] # 0 /\ Return(s, files[asked[s]])
       \/ files[asked[s]] = 0 /\ Goto(s, "read") /\ UNCHANGED answer
    /\ UNCHANGED <<disk, edits, failed, cacheVars, asked, gotNames, gotFile>>

\* Mutant of ReadFile: the error of a file that is gone is not looked at.
ReadFile_IgnoresError(s) ==
    /\ pc[s] = "read"
    /\ gotFile' = [gotFile EXCEPT ![s] = IF disk[asked[s]] = 0 THEN Unanswered
                                                             ELSE disk[asked[s]]]
    /\ Goto(s, "store_file")
    /\ UNCHANGED <<disk, edits, failed, cacheVars, asked, gotNames, answer>>

\* os.ReadFile; an error is a miss, and nothing is cached.
ReadFile(s) ==
    /\ pc[s] = "read"
    /\ \/ /\ disk[asked[s]] # 0
          /\ gotFile' = [gotFile EXCEPT ![s] = disk[asked[s]]]
          /\ Goto(s, "store_file")
          /\ UNCHANGED <<failed, answer>>
       \/ /\ disk[asked[s]] = 0
          /\ Return(s, 0)
          /\ UNCHANGED <<failed, gotFile>>
       \/ /\ DiskErrors
          /\ Return(s, 0)
          /\ failed' = TRUE
          /\ UNCHANGED gotFile
    /\ UNCHANGED <<disk, edits, cacheVars, asked, gotNames>>

\* Mutant of StoreFile: the path is built without the host name.
StoreFile_AnyHost(s) ==
    /\ pc[s] = "store_file"
    /\ files' = [f \in Files |-> IF f[2] = asked[s][2] THEN gotFile[s] ELSE files[f]]
    /\ Return(s, gotFile[s])
    /\ gotFile' = [gotFile EXCEPT ![s] = 0]
    /\ UNCHANGED <<disk, edits, failed, listed, dirs, asked, gotNames>>

\* The store under the write lock, over whatever another lookup stored.
StoreFile(s) ==
    /\ pc[s] = "store_file"
    /\ files' = [files EXCEPT ![asked[s]] = gotFile[s]]
    /\ Return(s, gotFile[s])
    /\ gotFile' = [gotFile EXCEPT ![s] = 0]
    /\ UNCHANGED <<disk, edits, failed, listed, dirs, asked, gotNames>>

\* The operator adds a file, replaces one, or removes it.
Edit(f) ==
    /\ edits < MaxEdits
    /\ edits' = edits + 1
    /\ \E v \in {0, MaxEdits + edits + 1} : disk' = [disk EXCEPT ![f] = v]
    /\ UNCHANGED <<failed, cacheVars, lookupVars>>

LookupStep(s) ==
    \/ \E f \in Files : Lookup(s, f)
    \/ CheckDir(s) \/ ListDir(s) \/ StoreDir(s)
    \/ CheckFile(s) \/ ReadFile(s) \/ StoreFile(s)

Next ==
    \/ \E s \in Sessions : LookupStep(s)
    \/ \E f \in Files : Edit(f)

Spec == Init /\ [][Next]_vars

-----------------------------------------------------------------------------
(* Properties.                                                             *)

TypeOK ==
    /\ disk \in [Files -> Nat]
    /\ edits \in 0..MaxEdits
    /\ failed \in BOOLEAN
    /\ listed \subseteq Hosts
    /\ dirs \in [Hosts -> SUBSET Slugs]
    /\ files \in [Files -> Nat]
    /\ pc \in [Sessions -> Steps]
    /\ asked \in [Sessions -> Files]
    /\ gotNames \in [Sessions -> SUBSET Slugs]
    /\ gotFile \in [Sessions -> Nat]
    /\ answer \in [Sessions -> Nat \union {Unanswered}]

\* The caches are bounded by the files on disk, never by what clients type: a
\* file is only cached for a host that was listed, and under a slug that cannot
\* leave the host's folder, even when such a file is on the disk (lookup).
CachesAreBounded ==
    \A f \in Files : files[f] # 0 => f[1] \in listed /\ f[2] \notin Unsafe

\* As long as nobody edits the files and the disk does not fail, a lookup
\* answers as if it had read the disk: caching is invisible, whatever the other
\* sessions look up meanwhile (lookup, hostFiles).
QuietDiskIsTransparent ==
    edits = 0 /\ ~failed =>
        \A s \in Sessions :
            answer[s] # Unanswered /\ pc[s] = "idle" =>
                answer[s] = IF asked[s][2] \in Unsafe THEN 0 ELSE Contents[asked[s]]

\* The lookups that found f, or the listing of h, not cached and have not
\* stored it yet.
Filling(f) == \E s \in Sessions : asked[s] = f /\ pc[s] \in {"read", "store_file"}
Listing(h) == \E s \in Sessions : HostOf(s) = h /\ pc[s] \in {"list", "store_dir"}

\* An entry that is cached can only be replaced by a lookup that missed it
\* before it was there. Once those are over no lookup starts another fill, so
\* from then on edits are not seen for the life of the process (lookup,
\* hostFiles).
CachesSettle ==
    [][ /\ \A f \in Files :
              files[f] # 0 /\ ~Filling(f) => ~Filling(f)' /\ files'[f] = files[f]
        /\ \A h \in listed :
              ~Listing(h) => ~Listing(h)' /\ h \in listed' /\ dirs'[h] = dirs[h] ]_vars

\* What the comment on cmdFiles and README say of the caches: a file that is
\* edited after its first hit is not seen until restart.
FirstReadSticks ==
    [][\A f \in Files : files[f] # 0 => files'[f] = files[f]]_vars

=============================================================================
