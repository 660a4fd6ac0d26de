----------------------------- MODULE Generator -----------------------------
(***************************************************************************)
(* rcfg-sim-gen (internal/configs/generator.go, Run): the share of each    *)
(* device model, a pool of workers that render one config file per device, *)
(* and the manifest that names the files once they are all written.        *)
(*                                                                         *)
(* A config file is absent or of an earlier run ("old"), created and not   *)
(* complete ("partial"), or whole. Of what it holds only the remote        *)
(* elements of a Ciena gateway are modelled (ciena.go): which there are,   *)
(* and what their inventory was derived from.                              *)
(***************************************************************************)
EXTENDS Integers, Sequences, FiniteSets, FiniteSetsExt

CONSTANTS
    Models,      \* modelOrder, as a sequence
    Configs,     \* the command lines: [count, ipCount, devicesPerIP, weights, dualHome]
    Gateway,     \* the model that fronts remote elements, cienaGNEModelName
    Cities,      \* citySyllables
    RneCounts,   \* how many remote elements may be drawn, 2..5
    Indices,     \* 10000, the number of indices an element can be named by
    Workers,     \* the worker goroutines
    QueueCap,    \* the capacity of the jobs channel
    DiskErrors   \* may a file operation fail?

ModelNames == {Models[i] : i \in DOMAIN Models}

ASSUME GeneratorAssumption ==
    /\ Models \in Seq(ModelNames) /\ Cardinality(ModelNames) = Len(Models)
    /\ Configs \subseteq [count : Int, ipCount : Int, devicesPerIP : Int,
                          weights : [ModelNames -> Nat], dualHome : BOOLEAN]
    /\ "LINK" \notin Cities
    /\ RneCounts \subseteq Nat /\ Indices \in Nat \ {0}
    /\ IsFiniteSet(Workers) /\ Workers # {}
    /\ QueueCap \in Nat
    /\ DiskErrors \in BOOLEAN

VARIABLES
    cfg,          \* the command line
    run,          \* where Run is
    assignments,  \* the model of each device
    next,         \* the first device that was not sent to the jobs channel
    jobs,         \* what the channel holds
    worker,       \* where each worker is
    job,          \* the device it works on, or did last
    disk,         \* the config file of each device
    behind,       \* the remote elements it lists
    results,      \* the slice the workers write, an entry each
    manifest,     \* the rows of this run's manifest
    manifestFile  \* the manifest file: "old" (or none), "partial" or "whole"

poolVars == <<next, jobs, worker, job, disk, behind, results>>
manifestVars == <<manifest, manifestFile>>
vars == <<cfg, run, assignments, poolVars, manifestVars>>

Devices == 0..(cfg.count - 1)

-----------------------------------------------------------------------------
(* The command line, and how many devices of each model it asks for.       *)

\* The sum of f over the models, in their order.
Total(f) ==
    LET upTo[n \in 0..Len(Models)] == IF n = 0 THEN 0 ELSE upTo[n - 1] + f[Models[n]]
    IN  upTo[Len(Models)]

WeightsAddUp(weights) == Total(weights) = 100

\* Mutant of Valid: the capacity is not checked.
Valid_AnyCount ==
    /\ cfg.count > 0 /\ cfg.devicesPerIP > 0 /\ cfg.ipCount > 0
    /\ WeightsAddUp(cfg.weights)

Valid ==
    /\ cfg.count > 0 /\ cfg.devicesPerIP > 0 /\ cfg.ipCount > 0
    /\ cfg.count <= cfg.ipCount * cfg.devicesPerIP
    /\ WeightsAddUp(cfg.weights)

Share(m) == (cfg.count * cfg.weights[m]) \div 100

\* The model that gets the remainder: the first of those with the most weight.
Top ==
    Models[Min({i \in DOMAIN Models :
                  \A j \in DOMAIN Models : cfg.weights[Models[j]] <= cfg.weights[Models[i]]})]

Remainder == cfg.count - Total([m \in ModelNames |-> Share(m)])

\* Mutant of stratifiedCounts: the remainder goes to the last model.
stratifiedCounts_ToLast ==
    [m \in ModelNames |-> Share(m) + IF m = Models[Len(Models)] THEN Remainder ELSE 0]

stratifiedCounts == [m \in ModelNames |-> Share(m) + IF m = Top THEN Remainder ELSE 0]

DevicesOf(m, a) == {i \in DOMAIN a : a[i] = m}

\* The shuffles of a slice that holds each model as often as it was allotted.
Shuffles ==
    {a \in [Devices -> ModelNames] :
        \A m \in ModelNames : Cardinality(DevicesOf(m, a)) = stratifiedCounts[m]}

-----------------------------------------------------------------------------
(* The remote elements of a gateway (buildCienaGNE).                       *)

\* An element is listed under a TID, with the shelf of the TID itself (Shared), or
\* with one drawn for the gateway of an index.
Shared == -1

linkTID(n)  == [name |-> "LINK", index |-> n % Indices]
cityTID(c)  == [name |-> c, index |-> -1]
ownTID(c, i) == [name |-> c, index |-> i % Indices]

\* Mutant of linkRnes: the link to the device before is named by the gateway's own index.
linkRnes_Own(i) ==
    IF cfg.dualHome /\ cfg.count > 1 THEN {linkTID(i)} ELSE {}

\* The link to the device before is named by its index, the one to the next by i.
linkRnes(i) ==
    IF cfg.dualHome THEN {linkTID(n) : n \in {n \in {i - 1, i} : n >= 0 /\ n + 1 < cfg.count}}
    ELSE {}

rneTID(i, draw) ==
    IF draw.shared \/ ~cfg.dualHome THEN cityTID(draw.city) ELSE ownTID(draw.city, i)

\* The links count towards the n elements; what is left is drawn.
Draws(i, n) ==
    [1..(n - Cardinality(linkRnes(i))) ->
        [city : Cities, shared : IF cfg.dualHome THEN BOOLEAN ELSE {FALSE}]]

\* A TID is only listed once, with its first shelf.
buildCienaGNE(i, draws) ==
    {[tid |-> t, of |-> Shared] : t \in linkRnes(i)}
    \union
    {[tid |-> rneTID(i, draws[k]), of |-> IF draws[k].shared THEN Shared ELSE i] :
        k \in {k \in DOMAIN draws : rneTID(i, draws[k]) \notin linkRnes(i)}}

-----------------------------------------------------------------------------
NoResult == [kind |-> "none"]
Failed   == [kind |-> "error"]

\* The row of device i: an index into the IPs, and one into the ports of each.
Row(i) ==
    [kind |-> "row", device |-> i, ip |-> i \div cfg.devicesPerIP,
     port |-> i % cfg.devicesPerIP, model |-> assignments[i]]

Init ==
    /\ cfg \in Configs
    /\ run = "starting"
    /\ assignments = <<>>
    /\ next = 0
    /\ jobs = <<>>
    /\ worker = [w \in Workers |-> "idle"]
    /\ job = [w \in Workers |-> 0]
    /\ disk = <<>>
    /\ behind = <<>>
    /\ results = <<>>
    /\ manifest = <<>>
    /\ manifestFile = "old"

-----------------------------------------------------------------------------
(* The main goroutine feeds the workers, and waits for them.               *)

Reject ==
    /\ run = "starting"
    /\ ~Valid
    /\ run' = "failed"
    /\ UNCHANGED <<cfg, assignments, poolVars, manifestVars>>

Prepare ==
    /\ run = "starting"
    /\ Valid
    /\ assignments' \in Shuffles
    /\ disk' = [i \in Devices |-> "old"]
    /\ behind' = [i \in Devices |-> {}]
    /\ results' = [i \in Devices |-> NoResult]
    /\ run' = "feeding"
    /\ UNCHANGED <<cfg, next, jobs, worker, job, manifestVars>>

\* Mutant of Feed: one index too many.
Feed_OnePast ==
    /\ run = "feeding"
    /\ next \in 0..cfg.count
    /\ Len(jobs) < QueueCap
    /\ jobs' = Append(jobs, next)
    /\ next' = next + 1
    /\ UNCHANGED <<cfg, run, assignments, worker, job, disk, behind, results, manifestVars>>

\* A send blocks while the channel is full.
Feed ==
    /\ run = "feeding"
    /\ next \in Devices
    /\ Len(jobs) < QueueCap
    /\ jobs' = Append(jobs, next)
    /\ next' = next + 1
    /\ UNCHANGED <<cfg, run, assignments, worker, job, disk, behind, results, manifestVars>>

CloseJobs ==
    /\ run = "feeding"
    /\ next = cfg.count
    /\ run' = "waiting"
    /\ UNCHANGED <<cfg, assignments, poolVars, manifestVars>>

\* Mutant of AllDone: wg.Wait is not called.
AllDone_NoWait ==
    /\ run = "waiting"
    /\ run' = IF \E i \in Devices : results[i] = Failed THEN "failed" ELSE "collected"
    /\ UNCHANGED <<cfg, assignments, poolVars, manifestVars>>

\* wg.Wait returns; the first error ends the run before there is a manifest.
AllDone ==
    /\ run = "waiting"
    /\ \A w \in Workers : worker[w] = "done"
    /\ run' = IF \E i \in Devices : results[i] = Failed THEN "failed" ELSE "collected"
    /\ UNCHANGED <<cfg, assignments, poolVars, manifestVars>>

-----------------------------------------------------------------------------
(* The workers.                                                            *)

Goto(w, step) == worker' = [worker EXCEPT ![w] = step]

Receive(w) ==
    /\ worker[w] = "idle"
    /\ jobs # <<>>
    /\ job' = [job EXCEPT ![w] = Head(jobs)]
    /\ jobs' = Tail(jobs)
    /\ Goto(w, "create")
    /\ UNCHANGED <<cfg, run, assignments, next, disk, behind, results, manifestVars>>

\* The channel is closed and drained.
Leave(w) ==
    /\ worker[w] = "idle"
    /\ jobs = <<>>
    /\ run = "waiting"
    /\ Goto(w, "done")
    /\ UNCHANGED <<cfg, run, assignments, next, jobs, job, disk, behind, results, manifestVars>>

\* os.Create truncates a file of an earlier run.
Create(w) ==
    /\ worker[w] = "create"
    /\ disk' = [disk EXCEPT ![job[w]] = "partial"]
    /\ Goto(w, "render")
    /\ UNCHANGED <<cfg, run, assignments, next, jobs, job, behind, results, manifestVars>>

\* The data is built, the template is executed, the file is closed, the entry filled in.
Render(w) ==
    /\ worker[w] = "render"
    /\ IF assignments[job[w]] = Gateway
       THEN \E n \in RneCounts : \E draws \in Draws(job[w], n) :
                behind' = [behind EXCEPT ![job[w]] = buildCienaGNE(job[w], draws)]
       ELSE UNCHANGED behind
    /\ disk' = [disk EXCEPT ![job[w]] = "whole"]
    /\ results' = [results EXCEPT ![job[w]] = Row(job[w])]
    /\ Goto(w, "idle")
    /\ UNCHANGED <<cfg, run, assignments, next, jobs, job, manifestVars>>

\* Mutant of FileFails: the worker ends at its first error.
FileFails_Leaves(w) ==
    /\ DiskErrors
    /\ worker[w] \in {"create", "render"}
    /\ results' = [results EXCEPT ![job[w]] = Failed]
    /\ Goto(w, "done")
    /\ UNCHANGED <<cfg, run, assignments, next, jobs, job, disk, behind, manifestVars>>

\* Creating, rendering or closing fails: the worker notes it and goes on.
FileFails(w) ==
    /\ DiskErrors
    /\ worker[w] \in {"create", "render"}
    /\ results' = [results EXCEPT ![job[w]] = Failed]
    /\ Goto(w, "idle")
    /\ UNCHANGED <<cfg, run, assignments, next, jobs, job, disk, behind, manifestVars>>

-----------------------------------------------------------------------------
(* The manifest.                                                           *)

CreateManifest ==
    /\ run = "collected"
    /\ run' = "writing"
    /\ manifestFile' = "partial"
    /\ UNCHANGED <<cfg, assignments, poolVars, manifest>>

WriteRow ==
    /\ run = "writing"
    /\ Len(manifest) < cfg.count
    /\ manifest' = Append(manifest, results[Len(manifest)])
    /\ UNCHANGED <<cfg, run, assignments, poolVars, manifestFile>>

Flush ==
    /\ run = "writing"
    /\ Len(manifest) = cfg.count
    /\ run' = "ok"
    /\ manifestFile' = "whole"
    /\ UNCHANGED <<cfg, assignments, poolVars, manifest>>

\* Making a directory, or creating or writing the manifest, fails.
RunFails ==
    /\ DiskErrors
    /\ run \in {"starting", "collected", "writing"}
    /\ run' = "failed"
    /\ UNCHANGED <<cfg, assignments, poolVars, manifestVars>>

\* Run has returned.
Stop == run \in {"failed", "ok"} /\ UNCHANGED vars

Main ==
    Reject \/ Prepare \/ Feed \/ CloseJobs \/ AllDone \/ CreateManifest \/ WriteRow \/ Flush
    \/ RunFails

Worker(w) == Receive(w) \/ Leave(w) \/ Create(w) \/ Render(w) \/ FileFails(w)

Next == Main \/ (\E w \in Workers : Worker(w)) \/ Stop

Spec == Init /\ [][Next]_vars

\* Every goroutine that can go on does.
FairSpec == Spec /\ WF_vars(Main) /\ \A w \in Workers : WF_vars(Worker(w))

-----------------------------------------------------------------------------
(* Properties.                                                             *)

TypeOK ==
    /\ cfg \in Configs
    /\ run \in {"starting", "feeding", "waiting", "collected", "writing", "failed", "ok"}
    /\ next \in 0..(IF cfg.count > 0 THEN cfg.count ELSE 0)
    /\ jobs \in Seq(Devices) /\ Len(jobs) <= QueueCap
    /\ worker \in [Workers -> {"idle", "create", "render", "done"}]
    /\ job \in [Workers -> Nat]
    /\ disk = <<>> \/ disk \in [Devices -> {"old", "partial", "whole"}]
    /\ manifestFile \in {"old", "partial", "whole"}
    /\ \A i \in DOMAIN behind : \A x \in behind[i] : x.of \in {Shared, i}

\* As soon as there is a manifest of this run, and if the program were killed at
\* that moment, every config file of the fleet is whole; its rows are in the order
\* of the devices, whatever order the workers took them in, and a run that
\* succeeds has one for each (Run).
ManifestNamesWholeFiles ==
    /\ manifestFile # "old" => \A i \in Devices : disk[i] = "whole"
    /\ \A n \in DOMAIN manifest : manifest[n] = Row(n - 1)
    /\ run = "ok" => Len(manifest) = cfg.count

\* No two devices share an address, and none lies beyond the IPs and the ports
\* that were asked for (Run).
AddressesAreUnique ==
    /\ \A m, n \in DOMAIN manifest :
          m # n => manifest[m].ip # manifest[n].ip \/ manifest[m].port # manifest[n].port
    /\ \A n \in DOMAIN manifest :
          manifest[n].ip \in 0..(cfg.ipCount - 1) /\ manifest[n].port \in 0..(cfg.devicesPerIP - 1)

\* A model with no weight has no device, and every model is within one device of
\* its share but for the one with the most weight, which has no fewer
\* (stratifiedCounts, buildAssignments).
SharesAreKept ==
    run \notin {"starting", "failed"} =>
        \A m \in ModelNames :
            LET n == Cardinality(DevicesOf(m, assignments))
            IN  /\ cfg.weights[m] = 0 => n = 0
                /\ 100 * (n + 1) > cfg.count * cfg.weights[m]
                /\ (\E m2 \in ModelNames : cfg.weights[m2] > cfg.weights[m]) =>
                      100 * n <= cfg.count * cfg.weights[m]

Gateways == {i \in DOMAIN disk : disk[i] = "whole" /\ assignments[i] = Gateway}

\* With dual homing, in a fleet of no more devices than there are indices to name
\* elements by: a TID behind two gateways stands for one element with one
\* inventory, whatever they drew and in whatever order they were rendered; two
\* neighbours that are gateways share the link named by the first, and nobody else
\* lists it (buildCienaGNE, rneTID, linkRnes: "every adjacent pair is guaranteed to
\* share an element").
SharedElementsAgree ==
    cfg.dualHome /\ cfg.count <= Indices =>
        \A i, j \in Gateways :
            /\ \A x \in behind[i], y \in behind[j] : x.tid = y.tid => x.of = y.of
            /\ i + 1 = j => [tid |-> linkTID(i), of |-> Shared] \in behind[i] \intersect behind[j]
            /\ \A x \in behind[i] : x.tid = linkTID(j) => i \in {j, j + 1}

\* Run comes to an end: the feeder never waits for a channel nobody reads, and
\* wg.Wait never for a worker that nobody stops, whichever devices fail (Run).
RunReturns == <>(run \in {"failed", "ok"})

=============================================================================
