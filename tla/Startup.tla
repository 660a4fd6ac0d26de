------------------------------- MODULE Startup -------------------------------
(***************************************************************************)
(* How rcfg-sim instances come up on one host: the command line            *)
(* (cmd/rcfg-sim/main.go), the host key, the manifest and the memory maps  *)
(* of its config files (internal/configs/loader.go), the checks of New,    *)
(* the behaviour profile of each device (resolveProfiles, profile.Assign), *)
(* the ports, and the way down again.                                      *)
(*                                                                         *)
(* What a process holds is lost when it is killed; the host key files, the *)
(* manifest and the config files outlive it, are shared by all instances,  *)
(* and may be rewritten by another run of the generator at any time.  A    *)
(* file is reduced to the generator run that wrote it.                     *)
(***************************************************************************)
EXTENDS Integers, Sequences, FiniteSets, FiniteSetsExt

CONSTANTS
    Instances,     \* the units rcfg-sim@<instance>
    Hosts,         \* the hosts considered: [flags : the flags of all instances, fleet :
                   \*  [runs : the manifest each generator run writes, files : what the
                   \*  files hold at first]]
    Point,         \* Point[seed][host], the hash of both in 0..99 (percent)
    Drivers,       \* the names in driverRegistry
    MaxPort,       \* 65535
    MaxStarts,     \* bounds on the starts of each instance
    DiskErrors     \* may an operation on a file that is there, or its memory map, fail?

Kinds == {"hang", "latency", "refuse", "disconnect"}

None    == -1  \* no such file; a Device whose Data is nil
Empty   == 0   \* a file of no bytes, or one that is being written
Runs    == DOMAIN (CHOOSE h \in Hosts : TRUE).fleet.runs
NoKey   == 0   \* no host key file
TornKey == -1  \* one that was created and not completely written

ASSUME StartupAssumption ==
    /\ Hosts # {} /\ 1 \in Runs
    /\ \A h \in Hosts : DOMAIN h.flags = Instances /\ DOMAIN h.fleet.runs = Runs
    /\ \A h \in Hosts, r \in Runs :
          LET rows == h.fleet.runs[r].rows
          IN  /\ Len(rows) \in Nat /\ DOMAIN rows = 1..Len(rows)
              /\ \A n \in DOMAIN rows :
                    /\ rows[n].file \in DOMAIN h.fleet.files
                    /\ \A i \in Instances : Point[h.flags[i].seed][rows[n].host] \in 0..99
    /\ \A h \in Hosts :
          /\ h.fleet.files \in [DOMAIN h.fleet.files -> Runs \union {None, Empty}]
          /\ \A i \in Instances :
                LET rules == h.flags[i].rules
                IN  /\ Len(rules) \in Nat /\ DOMAIN rules = 1..Len(rules)
                    /\ \A n \in DOMAIN rules : rules[n].percent \in Int
    /\ MaxStarts \in [Instances -> Nat]
    /\ MaxPort \in Nat
    /\ DiskErrors \in BOOLEAN

VARIABLES
    flags,     \* the command line of each instance
    fleet,     \* the fleet on this host
    proc,      \* the process of each instance
    starts,    \* how often it was started
    keyFile,   \* the host key each path holds
    keys,      \* how many host keys were ever generated
    file,      \* the generator run that wrote each config file
    run,       \* the last generator run that was started
    running,   \* where it is
    manifest,  \* [run, rows]: whose manifest it is, and how many rows are written
    shown      \* the host keys clients of each instance have seen

procVars == <<proc, starts>>
keyVars == <<keyFile, keys>>
fleetVars == <<file, run, running, manifest>>
vars == <<flags, fleet, procVars, keyVars, fleetVars, shown>>

Steps == {"down", "flags", "key", "generate", "write", "manifest", "map", "check",
          "bind", "serving", "stopping", "stopped", "load_failed", "failed"}

\* What a process has before main runs, and after it is gone.
Fresh == [step |-> "down", key |-> NoKey, of |-> [run |-> 1, rows |-> 0], devs |-> {},
          todo |-> {}, maps |-> <<>>, profiles |-> <<>>, bound |-> {}]

Paths == {flags[i].key : i \in Instances}
Files == DOMAIN fleet.files
Rows(r) == fleet.runs[r].rows
FilesOf(r) == {Rows(r)[n].file : n \in DOMAIN Rows(r)}

Init ==
    /\ \E h \in Hosts : flags = h.flags /\ fleet = h.fleet
    /\ proc = [i \in Instances |-> Fresh]
    /\ starts = [i \in Instances |-> 0]
    /\ keyFile = [p \in Paths |-> NoKey]
    /\ keys = 0
    /\ file = fleet.files
    /\ run = 1
    /\ running = "no"
    /\ manifest = [run |-> 1, rows |-> Len(Rows(1))]
    /\ shown = [i \in Instances |-> {}]

At(i, step) == proc[i].step = step
Goto(i, step) == proc' = [proc EXCEPT ![i].step = step]

\* The row n of the manifest instance i has read.
Row(i, n) == Rows(proc[i].of.run)[n]

-----------------------------------------------------------------------------
(* main: the process, its flags.                                           *)

Launch(i) ==
    /\ At(i, "down")
    /\ starts[i] < MaxStarts[i]
    /\ starts' = [starts EXCEPT ![i] = @ + 1]
    /\ Goto(i, "flags")
    /\ UNCHANGED <<flags, fleet, keyVars, fleetVars, shown>>

\* The shares of the rules laid end to end: edge n is where rule n ends.
Edges(rules) ==
    LET e[n \in 0..Len(rules)] == IF n = 0 THEN 0 ELSE e[n - 1] + rules[n].percent
    IN  e

\* profile.Parse
RulesOK(rules) ==
    /\ \A n \in DOMAIN rules : rules[n].profile \in Kinds /\ rules[n].percent \in 1..100
    /\ Edges(rules)[Len(rules)] <= 100

\* fault.NewSet, profile.Parse and the first checks of New.
FlagsOK(f) ==
    /\ f.faultsOK
    /\ RulesOK(f.rules)
    /\ f.cap > 0 /\ f.count > 0
    /\ f.auth \in {"", "password", "driver", "none"}

CheckFlags(i) ==
    /\ At(i, "flags")
    /\ Goto(i, IF FlagsOK(flags[i]) THEN "key" ELSE "failed")
    /\ UNCHANGED <<flags, fleet, starts, keyVars, fleetVars, shown>>

-----------------------------------------------------------------------------
(* loadOrGenerateHostKey.                                                  *)

\* A whole key is used; a torn one does not parse; without one there will be one.
ReadKey(i) ==
    /\ At(i, "key")
    /\ LET k == keyFile[flags[i].key]
       IN  proc' = CASE k = NoKey   -> [proc EXCEPT ![i].step = "generate"]
                     [] k = TornKey -> [proc EXCEPT ![i].step = "failed"]
                     [] OTHER       -> [proc EXCEPT ![i].step = "manifest", ![i].key = k]
    /\ UNCHANGED <<flags, fleet, starts, keyVars, fleetVars, shown>>

\* os.WriteFile opens the file, which creates or truncates it, ...
CreateKeyFile(i) ==
    /\ At(i, "generate")
    /\ keyFile' = [keyFile EXCEPT ![flags[i].key] = TornKey]
    /\ Goto(i, "write")
    /\ UNCHANGED <<flags, fleet, starts, keys, fleetVars, shown>>

\* ... and writes it. The signer is made from the key, not from the file.
WriteKey(i) ==
    /\ At(i, "write")
    /\ keys' = keys + 1
    /\ keyFile' = [keyFile EXCEPT ![flags[i].key] = keys + 1]
    /\ proc' = [proc EXCEPT ![i].step = "manifest", ![i].key = keys + 1]
    /\ UNCHANGED <<flags, fleet, starts, fleetVars, shown>>

\* Mutant of KeyFails: a key that could not be persisted is used all the same.
KeyFails_Ignored(i) ==
    /\ DiskErrors
    /\ proc[i].step \in {"generate", "write"}
    /\ keys' = keys + 1
    /\ proc' = [proc EXCEPT ![i].step = "manifest", ![i].key = keys + 1]
    /\ UNCHANGED <<flags, fleet, starts, keyFile, fleetVars, shown>>

KeyFails(i) ==
    /\ DiskErrors
    /\ proc[i].step \in {"key", "generate", "write"}
    /\ Goto(i, "failed")
    /\ UNCHANGED <<flags, fleet, starts, keyVars, fleetVars, shown>>

-----------------------------------------------------------------------------
(* LoadForListener.                                                        *)

\* The rows LoadForListener takes: those of the listener's IP and port range.
Mine(i, rows, n) ==
    /\ rows[n].ip = flags[i].ip
    /\ rows[n].port \in flags[i].first..(flags[i].first + flags[i].count - 1)

\* A port that is not a number (None) in a row of another IP is not looked at.
BadManifest(i, rows, read) ==
    \/ read > 0 /\ fleet.runs[manifest.run].columns < 10
    \/ \E n \in 1..read : rows[n].ip = flags[i].ip /\ rows[n].port = None

ReadManifest(i) ==
    /\ At(i, "manifest")
    /\ manifest.rows # None
    /\ LET rows == Rows(manifest.run)
           devs == {n \in 1..manifest.rows : Mine(i, rows, n)}
       IN  /\ ~BadManifest(i, rows, manifest.rows)
           /\ proc' = [proc EXCEPT ![i].step = "map", ![i].of = manifest, ![i].devs = devs,
                                   ![i].todo = devs, ![i].maps = [n \in devs |-> None]]
    /\ UNCHANGED <<flags, fleet, starts, keyVars, fleetVars, shown>>

\* An empty file, a bad row, a last row that is cut off, or a file error.
ManifestFails(i) ==
    /\ At(i, "manifest")
    /\ \/ manifest.rows = None
       \/ BadManifest(i, Rows(manifest.run), manifest.rows)
       \/ manifest.rows \in 0..(Len(Rows(manifest.run)) - 1)
       \/ DiskErrors
    /\ Goto(i, "failed")
    /\ UNCHANGED <<flags, fleet, starts, keyVars, fleetVars, shown>>

Turn(i, n) == n \in proc[i].todo /\ \A m \in proc[i].todo : n <= m

\* mmapRO: a file of size zero is not mapped, and no error.
Map(i, n) ==
    /\ At(i, "map")
    /\ Turn(i, n)
    /\ file[Row(i, n).file] # None
    /\ proc' = [proc EXCEPT ![i].maps[n] = file[Row(i, n).file], ![i].todo = @ \ {n}]
    /\ UNCHANGED <<flags, fleet, starts, keyVars, fleetVars, shown>>

\* Mutant of UnloadAll: it stops at the first device that is not mapped.
UnloadAll_StopsEarly(i) ==
    [n \in proc[i].devs |->
        IF \E m \in proc[i].devs : m < n /\ proc[i].maps[m] \in {None, Empty}
        THEN proc[i].maps[n] ELSE None]

UnloadAll(i) == [n \in proc[i].devs |-> None]

\* A file is missing, or cannot be opened or mapped: what was mapped before it is
\* unmapped.
MapFails(i, n) ==
    /\ At(i, "map")
    /\ Turn(i, n)
    /\ file[Row(i, n).file] = None \/ DiskErrors
    /\ proc' = [proc EXCEPT ![i].step = "load_failed", ![i].maps = UnloadAll(i)]
    /\ UNCHANGED <<flags, fleet, starts, keyVars, fleetVars, shown>>

Loaded(i) ==
    /\ At(i, "map")
    /\ proc[i].todo = {}
    /\ Goto(i, "check")
    /\ UNCHANGED <<flags, fleet, starts, keyVars, fleetVars, shown>>

-----------------------------------------------------------------------------
(* The rest of New.                                                        *)

\* Mutant of Assign: the end of a share belongs to it.
Assign_Inclusive(f, host) ==
    LET hits == {n \in DOMAIN f.rules : Point[f.seed][host] <= Edges(f.rules)[n]}
    IN  IF hits = {} THEN "normal" ELSE f.rules[Min(hits)].profile

\* The first rule whose end lies beyond the point of the host.
Assign(f, host) ==
    LET hits == {n \in DOMAIN f.rules : Point[f.seed][host] < Edges(f.rules)[n]}
    IN  IF hits = {} THEN "normal" ELSE f.rules[Min(hits)].profile

\* The profile column of the manifest, or else what the rules say.
ProfileOf(i, n) ==
    IF Row(i, n).profile = "" THEN Assign(flags[i], Row(i, n).host) ELSE Row(i, n).profile

PortsOf(i) == {Row(i, n).port : n \in proc[i].devs}
AtPort(i, p) == {n \in proc[i].devs : Row(i, n).port = p}

\* Rows write their profile under their port, one after the other, if they have
\* one: of two rows with one port the later does not clear what the earlier set.
resolveProfiles(i) ==
    [p \in PortsOf(i) |->
        LET set == {n \in AtPort(i, p) : ProfileOf(i, n) # "normal"}
        IN  IF set = {} THEN "normal" ELSE ProfileOf(i, Max(set))]

unknownDrivers(i) == {Row(i, n).driver : n \in proc[i].devs} \ (Drivers \union {""})

\* Mutant of ProfilesOK: the error of ParseProfile is dropped.
ProfilesOK_Dropped(i) == TRUE

ProfilesOK(i) == \A n \in proc[i].devs : Row(i, n).profile \in Kinds \union {""}

CheckOK(i) ==
    /\ At(i, "check")
    /\ proc[i].devs # {}
    /\ unknownDrivers(i) = {}
    /\ ProfilesOK(i)
    /\ proc' = [proc EXCEPT ![i].step = "bind", ![i].profiles = resolveProfiles(i)]
    /\ UNCHANGED <<flags, fleet, starts, keyVars, fleetVars, shown>>

\* New returns an error; the configs stay mapped until the process exits.
CheckFails(i) ==
    /\ At(i, "check")
    /\ proc[i].devs = {} \/ unknownDrivers(i) # {} \/ ~ProfilesOK(i)
    /\ Goto(i, "failed")
    /\ UNCHANGED <<flags, fleet, starts, keyVars, fleetVars, shown>>

-----------------------------------------------------------------------------
(* Start, and the ways down.                                               *)

\* The device behind a port is the last row that names it.
Device(i, p) == Row(i, Max(AtPort(i, p)))

Addresses(i) == {<<flags[i].ip, p>> : p \in proc[i].bound}
Taken == UNION {Addresses(i) : i \in Instances}

\* A client that gets through to a port learns the host key.
Bind(i, p) ==
    /\ At(i, "bind")
    /\ p \in PortsOf(i) \ proc[i].bound
    /\ p <= MaxPort /\ <<flags[i].ip, p>> \notin Taken
    /\ proc' = [proc EXCEPT ![i].bound = @ \union {p}]
    /\ shown' = [shown EXCEPT ![i] = @ \union {proc[i].key}]
    /\ UNCHANGED <<flags, fleet, starts, keyVars, fleetVars>>

\* Start closes the listeners it opened before it returns the error.
BindFails(i, p) ==
    /\ At(i, "bind")
    /\ p \in PortsOf(i) \ proc[i].bound
    /\ p > MaxPort \/ <<flags[i].ip, p>> \in Taken
    /\ proc' = [proc EXCEPT ![i].step = "failed", ![i].bound = {}]
    /\ UNCHANGED <<flags, fleet, starts, keyVars, fleetVars, shown>>

MetricsTaken(i) ==
    \E j \in Instances \ {i} :
        /\ At(j, "serving") \/ At(j, "stopping")
        /\ flags[j].metrics = flags[i].metrics
        /\ flags[i].metrics # ""

Ready(i) ==
    /\ At(i, "bind")
    /\ proc[i].bound = PortsOf(i)
    /\ ~MetricsTaken(i)
    /\ Goto(i, "serving")
    /\ UNCHANGED <<flags, fleet, starts, keyVars, fleetVars, shown>>

MetricsFail(i) ==
    /\ At(i, "bind")
    /\ proc[i].bound = PortsOf(i)
    /\ MetricsTaken(i)
    /\ proc' = [proc EXCEPT ![i].step = "failed", ![i].bound = {}]
    /\ UNCHANGED <<flags, fleet, starts, keyVars, fleetVars, shown>>

\* SIGTERM: Shutdown closes the listeners, drains the sessions ...
CloseListeners(i) ==
    /\ At(i, "serving")
    /\ proc' = [proc EXCEPT ![i].step = "stopping", ![i].bound = {}]
    /\ UNCHANGED <<flags, fleet, starts, keyVars, fleetVars, shown>>

\* ... and unmaps the configs of all devices, those without a port included.
Unload(i) ==
    /\ At(i, "stopping")
    /\ proc' = [proc EXCEPT ![i].step = "stopped", ![i].maps = UnloadAll(i)]
    /\ UNCHANGED <<flags, fleet, starts, keyVars, fleetVars, shown>>

\* main returns, or the process is killed (a signal, a crash, a page of a config
\* that is not there any more): what it held is gone.
Exit(i) ==
    /\ ~At(i, "down")
    /\ proc' = [proc EXCEPT ![i] = Fresh]
    /\ UNCHANGED <<flags, fleet, starts, keyVars, fleetVars, shown>>

-----------------------------------------------------------------------------
(* Another run of the generator over the same files (module Generator has  *)
(* it in detail): every config file, then the manifest.                    *)

Regenerate ==
    /\ running \in {"no", "failed"}
    /\ run + 1 \in Runs
    /\ run' = run + 1
    /\ running' = "rendering"
    /\ UNCHANGED <<flags, fleet, procVars, keyVars, file, manifest, shown>>

Truncate(f) ==
    /\ running = "rendering"
    /\ f \in FilesOf(run)
    /\ file[f] \notin {run, Empty}
    /\ file' = [file EXCEPT ![f] = Empty]
    /\ UNCHANGED <<flags, fleet, procVars, keyVars, run, running, manifest, shown>>

Fill(f) ==
    /\ running = "rendering"
    /\ f \in FilesOf(run)
    /\ file[f] = Empty
    /\ file' = [file EXCEPT ![f] = run]
    /\ UNCHANGED <<flags, fleet, procVars, keyVars, run, running, manifest, shown>>

\* Mutant of CreateManifest: the manifest is begun while files are rendered.
CreateManifest_Early ==
    /\ running = "rendering"
    /\ manifest' = [run |-> run, rows |-> None]
    /\ running' = "publishing"
    /\ UNCHANGED <<flags, fleet, procVars, keyVars, file, run, shown>>

CreateManifest ==
    /\ running = "rendering"
    /\ \A f \in FilesOf(run) : file[f] = run
    /\ manifest' = [run |-> run, rows |-> None]
    /\ running' = "publishing"
    /\ UNCHANGED <<flags, fleet, procVars, keyVars, file, run, shown>>

\* Rows reach the file a buffer at a time.
WriteRows(n) ==
    /\ running = "publishing"
    /\ n \in 0..Len(Rows(run)) /\ n > manifest.rows
    /\ manifest' = [manifest EXCEPT !.rows = n]
    /\ running' = IF n = Len(Rows(run)) THEN "no" ELSE running
    /\ UNCHANGED <<flags, fleet, procVars, keyVars, file, run, shown>>

RunFails ==
    /\ running \in {"rendering", "publishing"}
    /\ running' = "failed"
    /\ UNCHANGED <<flags, fleet, procVars, keyVars, file, run, manifest, shown>>

New(i) ==
    \/ CheckFlags(i)
    \/ ReadKey(i) \/ CreateKeyFile(i) \/ WriteKey(i) \/ KeyFails(i)
    \/ ReadManifest(i) \/ ManifestFails(i)
    \/ \E n \in proc[i].devs : Map(i, n) \/ MapFails(i, n)
    \/ Loaded(i) \/ CheckOK(i) \/ CheckFails(i)

Start(i) ==
    \/ \E p \in PortsOf(i) : Bind(i, p) \/ BindFails(i, p)
    \/ Ready(i) \/ MetricsFail(i)

Generator ==
    \/ Regenerate \/ CreateManifest \/ RunFails
    \/ \E f \in Files : Truncate(f) \/ Fill(f)
    \/ \E n \in 0..Len(Rows(run)) : WriteRows(n)

Next ==
    \/ \E i \in Instances :
          Launch(i) \/ New(i) \/ Start(i) \/ CloseListeners(i) \/ Unload(i) \/ Exit(i)
    \/ Generator

Spec == Init /\ [][Next]_vars

-----------------------------------------------------------------------------
(* Properties.                                                             *)

TypeOK ==
    /\ \E h \in Hosts : flags = h.flags /\ fleet = h.fleet
    /\ \A i \in Instances :
          LET p == proc[i]
          IN  /\ p.step \in Steps
              /\ p.key \in 0..keys
              /\ p.of \in [run : Runs, rows : Nat]
              /\ p.devs \subseteq DOMAIN Rows(p.of.run) /\ p.todo \subseteq p.devs
              /\ p.maps \in [p.devs -> Runs \union {None, Empty}]
              /\ p.bound \subseteq PortsOf(i)
              /\ p.profiles = <<>> \/ p.profiles \in [PortsOf(i) -> Kinds \union {"normal"}]
    /\ starts \in [Instances -> Nat]
    /\ keys \in Nat
    /\ keyFile \in [Paths -> -1..keys]
    /\ file \in [Files -> Runs \union {None, Empty}]
    /\ run \in Runs
    /\ running \in {"no", "rendering", "publishing", "failed"}
    /\ manifest \in [run : Runs, rows : Nat \union {None}]
    /\ shown \in [Instances -> SUBSET (1..keys)]

Open(i) == proc[i].bound # {}

\* A port is only open while the configs of all the instance's devices are mapped
\* (as nothing, if the file is empty), and a load that failed, or a shutdown that
\* ended, leaves none mapped, not even of a row another row hides
\* (LoadForListener: "previously-mapped devices are unmapped so no leak occurs").
MapsFollowTheListeners ==
    \A i \in Instances :
        /\ Open(i) => \A n \in proc[i].devs : proc[i].maps[n] # None
        /\ proc[i].step \in {"load_failed", "stopped"} =>
              \A n \in proc[i].devs : proc[i].maps[n] = None

\* The rules a host falls to: from the sum of the shares before it, up to the one
\* with its own.
RulesFor(f, host) ==
    {n \in DOMAIN f.rules :
        LET before == Edges(f.rules)[n - 1]
        IN  Point[f.seed][host] \in before..(before + f.rules[n].percent - 1)}

\* A port that is open answers for the last row of the manifest with its address, by
\* a driver that exists. If it is the only one, its profile is that of its own
\* column, else of the one rule whose share the host falls to, else none: the same
\* on every start, on whichever instance the host is (resolveProfiles, Assign:
\* "each rule takes its share of the fleet and no device gets two").
PortsAnswerForTheirRows ==
    \A i \in Instances : \A p \in proc[i].bound :
        LET d     == Device(i, p)
            rules == RulesFor(flags[i], d.host)
            got   == proc[i].profiles[p]
        IN  /\ d.ip = flags[i].ip /\ d.port = p /\ d.driver \in Drivers \union {""}
            /\ Cardinality(rules) <= 1
            /\ Cardinality(AtPort(i, p)) = 1 =>
                  \/ d.profile = got
                  \/ d.profile = "" /\ \E n \in rules : flags[i].rules[n].profile = got
                  \/ d.profile = "" /\ rules = {} /\ got = "normal"

\* Clients of an instance that has its host key file to itself never see the key
\* change, however often it is killed, also between the steps of writing it, and
\* restarted (loadOrGenerateHostKey: a key is only used once it is persisted).
HostKeyNeverChanges ==
    \A i \in Instances :
        (\A j \in Instances \ {i} : flags[j].key # flags[i].key) => Cardinality(shown[i]) <= 1

\* What a file holds when the manifest of a run is complete.
Content(r, f) == IF r = 1 THEN fleet.files[f] ELSE r

\* An instance whose manifest is that of the latest generator run serves what that
\* run wrote and nothing else, although config files and manifest are replaced one
\* by one and read one by one, also when it came up in the middle of that run, or
\* the run was killed (Run, LoadForListener). With the manifest of an earlier run
\* there is no such promise: mapped files change, and shrink, under the server.
ConfigsMatchTheManifest ==
    \A i \in Instances : Open(i) /\ proc[i].of.run = run =>
        \A n \in proc[i].devs :
            /\ file[Row(i, n).file] = Content(run, Row(i, n).file)
            /\ proc[i].maps[n] = file[Row(i, n).file]

=============================================================================
