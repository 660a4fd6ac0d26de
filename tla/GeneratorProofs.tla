-------------------------- MODULE GeneratorProofs --------------------------
(***************************************************************************)
(* What Generator guarantees for any number of devices and workers, any    *)
(* capacity of the jobs channel and errors anywhere: a manifest only names *)
(* whole files, its rows are in the order of the devices, addresses are    *)
(* unique, gateways agree on what they share, and every model has its      *)
(* share of the fleet.                                                     *)
(*                                                                         *)
(* That a file is whole and its result a row must follow from the workers  *)
(* being done, so the invariant says of each device that was fed where it  *)
(* is: in the channel, with one worker, or finished.                       *)
(***************************************************************************)
EXTENDS Generator, Recursion, SequenceTheorems, FiniteSetTheorems

Busy(w) == worker[w] \in {"create", "render"}

In(q, i) == \E k \in 1..Len(q) : q[k] = i

\* Run before it has made a slice of results, or when it never will.
Before ==
    /\ jobs = <<>> /\ next = 0
    /\ worker = [w \in Workers |-> "idle"] /\ job = [w \in Workers |-> 0]
    /\ disk = <<>> /\ behind = <<>> /\ manifest = <<>> /\ manifestFile = "old"

PoolTypes ==
    /\ Valid
    /\ run \in {"feeding", "waiting", "collected", "writing", "failed", "ok"}
    /\ next \in 0..cfg.count
    /\ jobs \in Seq(Devices) /\ Len(jobs) <= QueueCap
    /\ worker \in [Workers -> {"idle", "create", "render", "done"}]
    /\ job \in [Workers -> Nat]
    /\ disk \in [Devices -> {"old", "partial", "whole"}]
    /\ DOMAIN results = Devices

\* A device is fed once, and is in the channel or with one worker.
Once ==
    /\ \A k \in 1..Len(jobs) : jobs[k] < next
    /\ \A k, l \in 1..Len(jobs) : jobs[k] = jobs[l] => k = l
    /\ \A w \in Workers : Busy(w) => job[w] \in Devices /\ job[w] < next /\ ~In(jobs, job[w])
    /\ \A v, w \in Workers : Busy(v) /\ Busy(w) /\ job[v] = job[w] => v = w

Finished(i) == results[i] = Failed \/ (results[i] = Row(i) /\ disk[i] = "whole")

\* No device that was fed is lost, whichever worker fails.
Followed ==
    \A i \in Devices : i < next =>
        In(jobs, i) \/ Finished(i) \/ \E w \in Workers : Busy(w) /\ job[w] = i

\* The goroutines come to an end in the order of close, wg.Wait and the manifest.
Ordered ==
    /\ run = "feeding" => \A w \in Workers : worker[w] # "done"
    /\ run # "feeding" => next = cfg.count
    /\ \A w \in Workers : worker[w] = "done" => jobs = <<>>
    /\ run \in {"collected", "writing", "ok"} \/ manifestFile # "old" =>
          /\ \A w \in Workers : worker[w] = "done"
          /\ \A i \in Devices : results[i] # Failed

FleetRows == {Row(i) : i \in Devices}

Published ==
    /\ manifestFile \in {"old", "partial", "whole"}
    /\ run \in {"feeding", "waiting", "collected"} => manifest = <<>> /\ manifestFile = "old"
    /\ manifestFile = "old" => manifest = <<>>
    /\ manifest \in Seq(FleetRows) /\ Len(manifest) <= cfg.count
    /\ \A n \in DOMAIN manifest : manifest[n] = Row(n - 1)
    /\ run = "ok" => Len(manifest) = cfg.count
    /\ run = "writing" => manifestFile # "old"

PoolInv == PoolTypes /\ Once /\ Followed /\ Ordered /\ Published

RunInv ==
    /\ cfg \in Configs
    /\ \/ run \in {"starting", "failed"} /\ Before
       \/ PoolInv

-----------------------------------------------------------------------------
(* The fleet, and what no step changes.                                    *)

\* The devices are numbered from 0, and there is at least one.
LEMMA FleetTypes ==
    ASSUME cfg \in Configs, Valid
    PROVE  cfg.count \in Nat /\ cfg.count > 0 /\ Devices \subseteq Nat
  BY GeneratorAssumption DEF GeneratorAssumption, Valid, Devices

\* An entry that says error is not a row.
LEMMA FailedIsNoRow == \A i : Row(i) # Failed
  BY DEF Row, Failed

\* Only Prepare deals out the models.
LEMMA FleetStays ==
    ASSUME Next, ~Prepare
    PROVE  UNCHANGED <<cfg, assignments>>
  BY DEF Next, Main, Worker, Reject, Feed, CloseJobs, AllDone, CreateManifest, WriteRow, Flush,
         RunFails, Receive, Leave, Create, Render, FileFails, Stop, vars

LEMMA RowsStay ==
    ASSUME UNCHANGED <<cfg, assignments>>
    PROVE  /\ Devices' = Devices /\ Valid' = Valid /\ FleetRows' = FleetRows
           /\ \A i : Row(i)' = Row(i)
<1>1. Devices' = Devices /\ Valid' = Valid
  BY DEF Devices, Valid
<1>2. \A i : Row(i)' = Row(i)
  BY DEF Row
<1>3. QED
  BY <1>1, <1>2 DEF FleetRows

\* What Prepare leaves is a pool that has not been fed.
LEMMA PrepareStep ==
    ASSUME cfg \in Configs, Before, Prepare
    PROVE  PoolInv'
<1>1. /\ cfg' = cfg /\ run' = "feeding" /\ UNCHANGED <<next, jobs, worker, job, manifestVars>>
      /\ disk' = [i \in Devices |-> "old"] /\ results' = [i \in Devices |-> NoResult] /\ Valid
  BY DEF Prepare
<1>2. Devices' = Devices /\ Valid'
  BY <1>1 DEF Devices, Valid
<1>3. cfg.count \in Nat /\ QueueCap \in Nat
  BY <1>1, FleetTypes, GeneratorAssumption DEF GeneratorAssumption
<1>4. /\ jobs' = <<>> /\ next' = 0 /\ worker' = [w \in Workers |-> "idle"]
      /\ job' = [w \in Workers |-> 0] /\ manifest' = <<>> /\ manifestFile' = "old"
  BY <1>1 DEF Before, manifestVars
<1>5. PoolTypes'
  BY <1>1, <1>2, <1>3, <1>4 DEF PoolTypes
<1>6. Once'
  BY <1>4 DEF Once, Busy
<1>7. Followed'
  BY <1>2, <1>4, FleetTypes, <1>1 DEF Followed, Devices
<1>8. Ordered'
  BY <1>1, <1>4 DEF Ordered
<1>9. Published'
  BY <1>1, <1>3, <1>4 DEF Published
<1>10. QED
  BY <1>5, <1>6, <1>7, <1>8, <1>9 DEF PoolInv

-----------------------------------------------------------------------------
(* The main goroutine.                                                     *)

LEMMA FeedStep ==
    ASSUME cfg \in Configs, PoolInv, Feed
    PROVE  PoolInv'
<1>1. /\ run = "feeding" /\ next \in Devices /\ Len(jobs) < QueueCap
      /\ jobs' = Append(jobs, next) /\ next' = next + 1
      /\ UNCHANGED <<cfg, run, assignments, worker, job, disk, results, manifest, manifestFile>>
  BY DEF Feed, manifestVars
<1>2. /\ cfg.count \in Nat /\ Devices \subseteq Nat /\ QueueCap \in Nat
      /\ jobs \in Seq(Devices) /\ next \in Nat /\ next < cfg.count
  BY <1>1, FleetTypes, GeneratorAssumption DEF PoolInv, PoolTypes, GeneratorAssumption, Devices
<1>3. /\ jobs' \in Seq(Devices) /\ Len(jobs') = Len(jobs) + 1 /\ Len(jobs) \in Nat
      /\ \A k \in 1..Len(jobs) : jobs'[k] = jobs[k] /\ jobs[k] \in Devices
      /\ jobs'[Len(jobs) + 1] = next
  BY <1>1, <1>2, AppendProperties
<1>4. /\ Devices' = Devices /\ Valid' = Valid /\ FleetRows' = FleetRows
      /\ \A i : Row(i)' = Row(i)
  BY <1>1, RowsStay
<1>5. PoolTypes'
  BY <1>1, <1>2, <1>3, <1>4 DEF PoolInv, PoolTypes
<1>6. \A i \in Devices : In(jobs', i) <=> In(jobs, i) \/ i = next
  BY <1>2, <1>3 DEF In
<1>7. Once'
  <2>1. /\ \A k \in 1..Len(jobs) : jobs[k] < next
        /\ \A k, l \in 1..Len(jobs) : jobs[k] = jobs[l] => k = l
        /\ \A w \in Workers : Busy(w) =>
              job[w] \in Devices /\ job[w] < next /\ ~In(jobs, job[w])
        /\ \A v, w \in Workers : Busy(v) /\ Busy(w) /\ job[v] = job[w] => v = w
    BY DEF PoolInv, Once
  <2>2. \A k \in 1..Len(jobs') : k \in 1..Len(jobs) \/ k = Len(jobs) + 1
    BY <1>3
  <2>3. ASSUME NEW k \in 1..Len(jobs')
        PROVE  jobs'[k] < next'
    <3>1. CASE k \in 1..Len(jobs)
      <4>1. jobs'[k] = jobs[k] /\ jobs[k] \in Nat /\ jobs[k] < next
        BY <1>2, <1>3, <2>1, <3>1
      <4>2. QED
        BY <1>1, <1>2, <4>1
    <3>2. CASE k = Len(jobs) + 1
      BY <1>1, <1>2, <1>3, <3>2
    <3>3. QED
      BY <2>2, <3>1, <3>2
  <2>4. \A k, l \in 1..Len(jobs') : jobs'[k] = jobs'[l] => k = l
    <3> SUFFICES ASSUME NEW k \in 1..Len(jobs'), NEW l \in 1..Len(jobs'), jobs'[k] = jobs'[l]
                 PROVE  k = l
      OBVIOUS
    <3>1. CASE k \in 1..Len(jobs) /\ l \in 1..Len(jobs)
      BY <1>3, <2>1, <3>1
    <3>2. CASE k \in 1..Len(jobs) /\ l = Len(jobs) + 1
      <4>1. jobs[k] = next /\ jobs[k] < next
        BY <1>3, <2>1, <3>2
      <4>2. QED
        BY <1>2, <4>1
    <3>3. CASE k = Len(jobs) + 1 /\ l \in 1..Len(jobs)
      <4>1. jobs[l] = next /\ jobs[l] < next
        BY <1>3, <2>1, <3>3
      <4>2. QED
        BY <1>2, <4>1
    <3>4. QED
      BY <2>2, <3>1, <3>2, <3>3
  <2>5. \A w \in Workers : Busy(w) =>
            job[w] \in Devices /\ job[w] < next + 1 /\ ~In(jobs', job[w])
    <3> SUFFICES ASSUME NEW w \in Workers, Busy(w)
                 PROVE  job[w] \in Devices /\ job[w] < next + 1 /\ ~In(jobs', job[w])
      OBVIOUS
    <3>1. job[w] \in Devices /\ job[w] \in Nat /\ job[w] < next /\ ~In(jobs, job[w])
      BY <1>2, <2>1
    <3>2. job[w] # next /\ job[w] < next + 1
      BY <1>2, <3>1
    <3>3. QED
      BY <1>6, <3>1, <3>2
  <2>6. QED
    BY <1>1, <1>4, <2>1, <2>3, <2>4, <2>5 DEF Once, Busy
<1>8. Followed'
  <2>1. \A i \in Devices : i < next' => i < next \/ i = next
    BY <1>1, <1>2
  <2>2. QED
    BY <1>1, <1>4, <1>6, <2>1 DEF PoolInv, Followed, Finished, Busy
<1>9. Ordered'
  BY <1>1, <1>4 DEF PoolInv, Ordered
<1>10. Published'
  BY <1>1, <1>4 DEF PoolInv, Published
<1>11. QED
  BY <1>5, <1>7, <1>8, <1>9, <1>10 DEF PoolInv

\* A step of the main goroutine that only goes on.
LEMMA MainStep ==
    ASSUME cfg \in Configs, PoolInv,
           CloseJobs \/ AllDone \/ CreateManifest \/ Flush \/ RunFails \/ Stop
    PROVE  PoolInv'
<1>1. UNCHANGED <<cfg, assignments, next, jobs, worker, job, disk, results, manifest>>
  BY DEF CloseJobs, AllDone, CreateManifest, Flush, RunFails, Stop, vars, poolVars, manifestVars
<1>2. /\ Devices' = Devices /\ Valid' = Valid /\ FleetRows' = FleetRows
      /\ \A i : Row(i)' = Row(i)
  BY <1>1, RowsStay
<1>3. Once' /\ Followed'
  BY <1>1, <1>2 DEF PoolInv, Once, Followed, Finished, Busy
<1>4. run \in {"feeding", "waiting", "collected", "writing", "failed", "ok"}
  BY DEF PoolInv, PoolTypes
<1>5. run' \in {"waiting", "collected", "writing", "failed", "ok"} \/ run' = run
  BY DEF CloseJobs, AllDone, CreateManifest, Flush, RunFails, Stop, vars
<1>6. PoolTypes'
  BY <1>1, <1>2, <1>4, <1>5 DEF PoolInv, PoolTypes
<1>7. Ordered' /\ Published'
  <2>1. CASE CloseJobs
    BY <1>1, <1>2, <2>1 DEF CloseJobs, manifestVars, PoolInv, Ordered, Published
  <2>2. CASE AllDone
    BY <1>1, <1>2, <2>2 DEF AllDone, manifestVars, PoolInv, Ordered, Published
  <2>3. CASE CreateManifest
    BY <1>1, <1>2, <2>3 DEF CreateManifest, PoolInv, Ordered, Published
  <2>4. CASE Flush
    BY <1>1, <1>2, <2>4 DEF Flush, PoolInv, Ordered, Published
  <2>5. CASE RunFails
    BY <1>1, <1>2, <2>5 DEF RunFails, manifestVars, PoolInv, Ordered, Published, PoolTypes
  <2>6. CASE Stop
    BY <1>1, <1>2, <2>6 DEF Stop, vars, manifestVars, PoolInv, Ordered, Published
  <2>7. QED
    BY <2>1, <2>2, <2>3, <2>4, <2>5, <2>6
<1>8. QED
  BY <1>3, <1>6, <1>7 DEF PoolInv

\* With every worker done, each device's file is whole and its entry is its row.
LEMMA AllFinished ==
    ASSUME cfg \in Configs, PoolInv,
           run \in {"collected", "writing", "ok"} \/ manifestFile # "old",
           NEW i \in Devices
    PROVE  results[i] = Row(i) /\ disk[i] = "whole"
<1>1. PICK w \in Workers : worker[w] = "done"
  BY GeneratorAssumption DEF GeneratorAssumption, PoolInv, Ordered
<1>2. /\ jobs = <<>> /\ results[i] # Failed
      /\ \A v \in Workers : ~Busy(v)
  BY <1>1 DEF PoolInv, Ordered, Busy
<1>3. run # "feeding"
  BY DEF PoolInv, Published
<1>4. i < next
  BY <1>3, FleetTypes DEF PoolInv, PoolTypes, Ordered, Devices
<1>5. ~In(jobs, i)
  BY <1>2 DEF In
<1>6. QED
  BY <1>2, <1>4, <1>5 DEF PoolInv, Followed, Finished

LEMMA WriteRowStep ==
    ASSUME cfg \in Configs, PoolInv, WriteRow
    PROVE  PoolInv'
<1>1. /\ run = "writing" /\ Len(manifest) < cfg.count
      /\ manifest' = Append(manifest, results[Len(manifest)])
      /\ UNCHANGED <<cfg, run, assignments, next, jobs, worker, job, disk, results, manifestFile>>
  BY DEF WriteRow, poolVars
<1>2. /\ Devices' = Devices /\ Valid' = Valid /\ FleetRows' = FleetRows
      /\ \A i : Row(i)' = Row(i)
  BY <1>1, RowsStay
<1>3. PoolTypes' /\ Once' /\ Followed' /\ Ordered'
  BY <1>1, <1>2 DEF PoolInv, PoolTypes, Once, Followed, Finished, Ordered, Busy
<1>4. cfg.count \in Nat /\ manifest \in Seq(FleetRows) /\ Len(manifest) \in Nat
  BY FleetTypes DEF PoolInv, PoolTypes, Published
<1>5. Len(manifest) \in Devices
  BY <1>1, <1>4 DEF Devices
<1>6. results[Len(manifest)] = Row(Len(manifest)) /\ Row(Len(manifest)) \in FleetRows
  BY <1>1, <1>5, AllFinished DEF FleetRows
<1>7. /\ manifest' \in Seq(FleetRows) /\ Len(manifest') = Len(manifest) + 1
      /\ \A n \in 1..Len(manifest) : manifest'[n] = manifest[n]
      /\ manifest'[Len(manifest) + 1] = Row(Len(manifest))
  BY <1>1, <1>4, <1>6, AppendProperties
<1>8. \A n \in DOMAIN manifest' : manifest'[n] = Row(n - 1)
  <2> SUFFICES ASSUME NEW n \in DOMAIN manifest' PROVE manifest'[n] = Row(n - 1)
    OBVIOUS
  <2>1. CASE n \in 1..Len(manifest)
    BY <1>4, <1>7, <2>1 DEF PoolInv, Published
  <2>2. CASE n = Len(manifest) + 1
    <3>1. n - 1 = Len(manifest)
      BY <1>4, <2>2
    <3>2. QED
      BY <1>7, <2>2, <3>1
  <2>3. QED
    BY <1>4, <1>7, <2>1, <2>2
<1>9. Published'
  BY <1>1, <1>2, <1>4, <1>7, <1>8 DEF PoolInv, Published
<1>10. QED
  BY <1>3, <1>9 DEF PoolInv

-----------------------------------------------------------------------------
(* The workers.                                                            *)

LEMMA ReceiveStep ==
    ASSUME cfg \in Configs, PoolInv, NEW w \in Workers, Receive(w)
    PROVE  PoolInv'
<1>1. /\ worker[w] = "idle" /\ jobs # <<>> /\ jobs' = Tail(jobs)
      /\ job' = [job EXCEPT ![w] = Head(jobs)] /\ worker' = [worker EXCEPT ![w] = "create"]
      /\ UNCHANGED <<cfg, run, assignments, next, disk, results, manifest, manifestFile>>
  BY DEF Receive, Goto, manifestVars
<1>2. /\ Devices' = Devices /\ Valid' = Valid /\ FleetRows' = FleetRows
      /\ \A i : Row(i)' = Row(i)
  BY <1>1, RowsStay
<1>3. /\ jobs \in Seq(Devices) /\ Devices \subseteq Nat /\ next \in Nat
      /\ DOMAIN worker = Workers /\ DOMAIN job = Workers
  BY FleetTypes DEF PoolInv, PoolTypes
<1>4. /\ Head(jobs) \in Devices /\ Head(jobs) = jobs[1] /\ jobs' \in Seq(Devices)
      /\ Len(jobs) \in Nat /\ Len(jobs) >= 1 /\ Len(jobs') = Len(jobs) - 1
      /\ \A k \in 1..Len(jobs') : jobs'[k] = jobs[k + 1]
  BY <1>1, <1>3, HeadTailProperties
<1>5. PoolTypes'
  <2>1. Len(jobs') <= QueueCap
    <3>1. Len(jobs) <= QueueCap /\ QueueCap \in Nat
      BY GeneratorAssumption DEF PoolInv, PoolTypes, GeneratorAssumption
    <3>2. QED
      BY <1>4, <3>1
  <2>2. worker' \in [Workers -> {"idle", "create", "render", "done"}]
    BY <1>1 DEF PoolInv, PoolTypes
  <2>3. job' \in [Workers -> Nat]
    <3>1. Head(jobs) \in Nat
      BY <1>3, <1>4
    <3>2. QED
      BY <1>1, <3>1 DEF PoolInv, PoolTypes
  <2>4. QED
    BY <1>1, <1>2, <1>4, <2>1, <2>2, <2>3 DEF PoolInv, PoolTypes
<1>6. /\ \A k \in 1..Len(jobs) : jobs[k] < next
      /\ \A k, l \in 1..Len(jobs) : jobs[k] = jobs[l] => k = l
      /\ \A v \in Workers : Busy(v) => job[v] \in Devices /\ job[v] < next /\ ~In(jobs, job[v])
      /\ \A u, v \in Workers : Busy(u) /\ Busy(v) /\ job[u] = job[v] => u = v
  BY DEF PoolInv, Once
<1>7. /\ \A i : In(jobs', i) => In(jobs, i)
      /\ ~In(jobs', Head(jobs)) /\ In(jobs, Head(jobs))
      /\ \A i \in Devices : In(jobs, i) => In(jobs', i) \/ i = Head(jobs)
  <2>1. \A k \in 1..Len(jobs') : k + 1 \in 1..Len(jobs) /\ k + 1 # 1
    BY <1>4
  <2>2. \A k \in 1..Len(jobs) : k = 1 \/ (k - 1 \in 1..Len(jobs') /\ (k - 1) + 1 = k)
    BY <1>4
  <2>3. \A i : In(jobs', i) => In(jobs, i)
    BY <1>4, <2>1 DEF In
  <2>4. 1 \in 1..Len(jobs)
    BY <1>4
  <2>5. ~In(jobs', Head(jobs))
    <3> SUFFICES ASSUME NEW k \in 1..Len(jobs'), jobs'[k] = Head(jobs)
                 PROVE  FALSE
      BY DEF In
    <3>1. k + 1 \in 1..Len(jobs) /\ k + 1 # 1 /\ jobs[k + 1] = jobs[1]
      BY <1>4, <2>1
    <3>2. k + 1 = 1
      BY <1>6, <2>4, <3>1
    <3>3. QED
      BY <3>1, <3>2
  <2>6. ASSUME NEW i \in Devices, In(jobs, i), i # Head(jobs)
        PROVE  In(jobs', i)
    <3>1. PICK k \in 1..Len(jobs) : jobs[k] = i
      BY <2>6 DEF In
    <3>2. k # 1
      BY <1>4, <2>6, <3>1
    <3>3. k - 1 \in 1..Len(jobs') /\ (k - 1) + 1 = k
      BY <2>2, <3>2
    <3>4. jobs'[k - 1] = jobs[(k - 1) + 1]
      BY <1>4, <3>3
    <3>5. QED
      BY <3>1, <3>3, <3>4 DEF In
  <2>7. QED
    BY <1>4, <2>3, <2>4, <2>5, <2>6 DEF In
<1>8. /\ \A v \in Workers \ {w} : job'[v] = job[v] /\ worker'[v] = worker[v]
      /\ job'[w] = Head(jobs) /\ worker'[w] = "create"
  BY <1>1, <1>3
<1>9. Once'
  <2>1. \A k \in 1..Len(jobs') : jobs'[k] < next
    BY <1>4, <1>6
  <2>2. \A k, l \in 1..Len(jobs') : jobs'[k] = jobs'[l] => k = l
    <3> SUFFICES ASSUME NEW k \in 1..Len(jobs'), NEW l \in 1..Len(jobs'), jobs'[k] = jobs'[l]
                 PROVE  k = l
      OBVIOUS
    <3>1. k + 1 \in 1..Len(jobs) /\ l + 1 \in 1..Len(jobs) /\ jobs[k + 1] = jobs[l + 1]
      BY <1>4
    <3>2. k + 1 = l + 1
      BY <1>6, <3>1
    <3>3. QED
      BY <3>2
  <2>3. Head(jobs) < next
    BY <1>4, <1>6
  <2>4. \A v \in Workers : Busy(v)' =>
            job'[v] \in Devices /\ job'[v] < next /\ ~In(jobs', job'[v])
    BY <1>4, <1>6, <1>7, <1>8, <2>3 DEF Busy
  <2>5. \A u, v \in Workers : Busy(u)' /\ Busy(v)' /\ job'[u] = job'[v] => u = v
    BY <1>6, <1>7, <1>8 DEF Busy
  <2>6. QED
    BY <1>1, <1>2, <2>1, <2>2, <2>4, <2>5 DEF Once
<1>10. Followed'
  <2> SUFFICES ASSUME NEW i \in Devices, i < next
               PROVE  In(jobs', i) \/ Finished(i)' \/ \E v \in Workers : Busy(v)' /\ job'[v] = i
    BY <1>1, <1>2 DEF Followed
  <2>1. CASE In(jobs, i)
    BY <1>7, <1>8, <2>1 DEF Busy
  <2>2. CASE Finished(i)
    BY <1>1, <1>2, <2>2 DEF Finished
  <2>3. CASE \E v \in Workers : Busy(v) /\ job[v] = i
    BY <1>1, <1>8, <2>3 DEF Busy
  <2>4. QED
    BY <2>1, <2>2, <2>3 DEF PoolInv, Followed
<1>11. Ordered'
  BY <1>1, <1>2, <1>8 DEF PoolInv, Ordered
<1>12. Published'
  BY <1>1, <1>2 DEF PoolInv, Published
<1>13. QED
  BY <1>5, <1>9, <1>10, <1>11, <1>12 DEF PoolInv

LEMMA LeaveStep ==
    ASSUME cfg \in Configs, PoolInv, NEW w \in Workers, Leave(w)
    PROVE  PoolInv'
<1>1. /\ worker[w] = "idle" /\ jobs = <<>> /\ run = "waiting"
      /\ worker' = [worker EXCEPT ![w] = "done"]
      /\ UNCHANGED <<cfg, run, assignments, next, jobs, job, disk, results, manifest, manifestFile>>
  BY DEF Leave, Goto, manifestVars
<1>2. /\ Devices' = Devices /\ Valid' = Valid /\ FleetRows' = FleetRows
      /\ \A i : Row(i)' = Row(i)
  BY <1>1, RowsStay
<1>3. \A v \in Workers : Busy(v)' <=> Busy(v)
  BY <1>1 DEF Busy, PoolInv, PoolTypes
<1>4. PoolTypes'
  BY <1>1, <1>2 DEF PoolInv, PoolTypes
<1>5. Once'
  BY <1>1, <1>2, <1>3 DEF PoolInv, Once
<1>6. Followed'
  BY <1>1, <1>2, <1>3 DEF PoolInv, Followed, Finished
<1>7. Ordered'
  BY <1>1, <1>2 DEF PoolInv, PoolTypes, Ordered
<1>8. Published'
  BY <1>1, <1>2 DEF PoolInv, Published
<1>9. QED
  BY <1>4, <1>5, <1>6, <1>7, <1>8 DEF PoolInv

\* What a busy worker does touches its own device, and no other is on that one.
LEMMA BusyStep ==
    ASSUME cfg \in Configs, PoolInv, NEW w \in Workers,
           Create(w) \/ Render(w) \/ FileFails(w)
    PROVE  PoolInv'
<1>1. /\ Busy(w)
      /\ UNCHANGED <<cfg, run, assignments, next, jobs, job, manifest, manifestFile>>
      /\ \A v \in Workers \ {w} : worker'[v] = worker[v]
  BY DEF Create, Render, FileFails, Goto, Busy, manifestVars, PoolInv, PoolTypes
<1>2. /\ Devices' = Devices /\ Valid' = Valid /\ FleetRows' = FleetRows
      /\ \A i : Row(i)' = Row(i)
  BY <1>1, RowsStay
<1>3. /\ job[w] \in Devices
      /\ \A v \in Workers \ {w} : Busy(v) => job[v] # job[w]
  BY <1>1 DEF PoolInv, Once
<1>4. /\ worker' \in [Workers -> {"idle", "create", "render", "done"}] /\ worker'[w] # "done"
      /\ disk' \in [Devices -> {"old", "partial", "whole"}] /\ DOMAIN results' = Devices
      /\ \A i \in Devices \ {job[w]} : disk'[i] = disk[i] /\ results'[i] = results[i]
  <2>1. CASE Create(w)
    BY <1>3, <2>1 DEF Create, Goto, PoolInv, PoolTypes
  <2>2. CASE Render(w)
    BY <1>3, <2>2 DEF Render, Goto, PoolInv, PoolTypes
  <2>3. CASE FileFails(w)
    BY <1>3, <2>3 DEF FileFails, Goto, PoolInv, PoolTypes
  <2>4. QED
    BY <2>1, <2>2, <2>3
<1>5. Busy(w)' \/ Finished(job[w])'
  <2>1. CASE Create(w)
    BY <2>1 DEF Create, Goto, Busy, PoolInv, PoolTypes
  <2>2. CASE Render(w)
    <3>1. /\ disk' = [disk EXCEPT ![job[w]] = "whole"] /\ job' = job
          /\ results' = [results EXCEPT ![job[w]] = Row(job[w])]
      BY <2>2 DEF Render
    <3>2. disk'[job[w]] = "whole" /\ results'[job[w]] = Row(job[w])
      BY <1>3, <3>1 DEF PoolInv, PoolTypes
    <3>3. Row(job[w])' = Row(job[w])
      BY <1>1 DEF Row
    <3>4. QED
      BY <3>1, <3>2, <3>3 DEF Finished
  <2>3. CASE FileFails(w)
    <3>1. results'[job[w]] = Failed /\ job' = job
      BY <1>3, <2>3 DEF FileFails, PoolInv, PoolTypes
    <3>2. QED
      BY <3>1 DEF Finished, Failed
  <2>4. QED
    BY <2>1, <2>2, <2>3
<1>6. PoolTypes'
  BY <1>1, <1>2, <1>4 DEF PoolInv, PoolTypes
<1>7. Once'
  BY <1>1, <1>2 DEF PoolInv, Once, Busy
<1>8. Followed'
  <2> SUFFICES ASSUME NEW i \in Devices, i < next
               PROVE  In(jobs, i) \/ Finished(i)' \/ \E v \in Workers : Busy(v)' /\ job[v] = i
    BY <1>1, <1>2 DEF Followed
  <2>1. CASE i = job[w]
    <3>1. Busy(w)' \/ Finished(i)'
      BY <1>1, <1>5, <2>1 DEF Finished, Row, Failed
    <3>2. QED
      BY <2>1, <3>1
  <2>2. CASE i # job[w]
    BY <1>1, <1>2, <1>4, <2>2 DEF PoolInv, Followed, Finished, Busy
  <2>3. QED
    BY <2>1, <2>2
<1>9. Ordered'
  <2>1. ~(run \in {"collected", "writing", "ok"} \/ manifestFile # "old")
    BY <1>1 DEF PoolInv, Ordered, Busy
  <2>2. QED
    BY <1>1, <1>2, <1>4, <2>1 DEF PoolInv, Ordered
<1>10. Published'
  BY <1>1, <1>2 DEF PoolInv, Published
<1>11. QED
  BY <1>6, <1>7, <1>8, <1>9, <1>10 DEF PoolInv

-----------------------------------------------------------------------------
(* The invariant, and what it implies.                                     *)

\* With an empty channel and idle workers, only main can do anything.
LEMMA BeforeStep ==
    ASSUME cfg \in Configs, run \in {"starting", "failed"}, Before, [Next]_vars
    PROVE  RunInv'
<1>1. \A w \in Workers : ~Worker(w)
  BY DEF Before, Worker, Receive, Leave, Create, Render, FileFails
<1>2. CASE Prepare
  <2>1. cfg' = cfg
    BY <1>2 DEF Prepare
  <2>2. QED
    BY <1>2, <2>1, PrepareStep DEF RunInv
<1>3. CASE Reject \/ RunFails \/ Stop \/ UNCHANGED vars
  <2>1. UNCHANGED <<cfg, poolVars, manifestVars>> /\ run' \in {"starting", "failed"}
    BY <1>3 DEF Reject, RunFails, Stop, vars
  <2>2. Before'
    BY <2>1 DEF Before, poolVars, manifestVars
  <2>3. QED
    BY <2>1, <2>2 DEF RunInv
<1>4. CASE Feed \/ CloseJobs \/ AllDone \/ CreateManifest \/ WriteRow \/ Flush
  BY <1>4 DEF Feed, CloseJobs, AllDone, CreateManifest, WriteRow, Flush
<1>5. QED
  BY <1>1, <1>2, <1>3, <1>4 DEF Next, Main

LEMMA PoolStep ==
    ASSUME cfg \in Configs, PoolInv, [Next]_vars
    PROVE  RunInv'
<1>1. run # "starting"
  BY DEF PoolInv, PoolTypes
<1>2. ~Prepare /\ ~Reject
  BY <1>1 DEF Prepare, Reject
<1>3. cfg' = cfg
  BY <1>2, FleetStays DEF vars
<1>4. PoolInv'
  <2>1. CASE UNCHANGED vars
    <3>1. UNCHANGED <<cfg, assignments, run, next, jobs, worker, job, disk, results, manifest,
                      manifestFile>>
      BY <2>1 DEF vars, poolVars, manifestVars
    <3>2. /\ Devices' = Devices /\ Valid' = Valid /\ FleetRows' = FleetRows
          /\ \A i : Row(i)' = Row(i)
      BY <3>1, RowsStay
    <3>3. QED
      BY <3>1, <3>2 DEF PoolInv, PoolTypes, Once, Followed, Finished, Ordered, Published, Busy
  <2>2. CASE CloseJobs \/ AllDone \/ CreateManifest \/ Flush \/ RunFails \/ Stop
    BY <2>2, MainStep
  <2>3. CASE Feed
    BY <2>3, FeedStep
  <2>4. CASE WriteRow
    BY <2>4, WriteRowStep
  <2>5. ASSUME NEW w \in Workers, Worker(w)
        PROVE  PoolInv'
    BY <2>5, ReceiveStep, LeaveStep, BusyStep DEF Worker
  <2>6. QED
    BY <1>2, <2>1, <2>2, <2>3, <2>4, <2>5 DEF Next, Main
<1>5. QED
  BY <1>3, <1>4 DEF RunInv

LEMMA RunInvCorrect == Spec => []RunInv
<1>1. Init => RunInv
  BY DEF Init, RunInv, Before
<1>2. RunInv /\ [Next]_vars => RunInv'
  BY BeforeStep, PoolStep DEF RunInv
<1>3. QED
  BY <1>1, <1>2, PTL DEF Spec

\* A manifest of this run only names files that are whole, in the order of the
\* devices, and a run that succeeds names each (Run).
THEOREM ManifestCorrect == Spec => []ManifestNamesWholeFiles
<1>1. RunInv => ManifestNamesWholeFiles
  <2>1. ASSUME Before, run \in {"starting", "failed"}
        PROVE  ManifestNamesWholeFiles
    BY <2>1 DEF Before, ManifestNamesWholeFiles
  <2>2. ASSUME cfg \in Configs, PoolInv
        PROVE  ManifestNamesWholeFiles
    BY <2>2, AllFinished DEF ManifestNamesWholeFiles, PoolInv, Published
  <2>3. QED
    BY <2>1, <2>2 DEF RunInv
<1>2. QED
  BY RunInvCorrect, <1>1, PTL

\* Euclid: quotient and remainder give the number back.
LEMMA Division ==
    ASSUME NEW n \in Nat, NEW d \in Nat, d > 0
    PROVE  /\ n \div d \in Nat /\ n % d \in 0..(d - 1)
           /\ n = d * (n \div d) + (n % d)
  OBVIOUS

\* A product is not reached before its last multiple.
LEMMA QuotientBound ==
    ASSUME NEW q \in Nat, NEW r \in Nat, NEW d \in Nat, NEW n \in Nat, d > 0,
           d * q + r < n * d
    PROVE  q < n
  OBVIOUS

\* No two devices share an address, and none is beyond the IPs and ports asked for,
\* for any count, any number of IPs and any number of ports on each (Run).
THEOREM AddressesCorrect == Spec => []AddressesAreUnique
<1>1. RunInv => AddressesAreUnique
  <2>1. ASSUME Before
        PROVE  AddressesAreUnique
    BY <2>1 DEF Before, AddressesAreUnique
  <2>2. ASSUME cfg \in Configs, PoolInv
        PROVE  AddressesAreUnique
    <3>1. /\ cfg.count \in Nat /\ cfg.ipCount \in Nat /\ cfg.devicesPerIP \in Nat
          /\ cfg.devicesPerIP > 0 /\ cfg.count <= cfg.ipCount * cfg.devicesPerIP
      BY <2>2, GeneratorAssumption DEF GeneratorAssumption, PoolInv, PoolTypes, Valid
    <3>2. /\ DOMAIN manifest = 1..Len(manifest) /\ Len(manifest) \in Nat
          /\ Len(manifest) <= cfg.count
          /\ \A n \in DOMAIN manifest : manifest[n] = Row(n - 1)
      BY <2>2 DEF PoolInv, Published
    <3> DEFINE d == cfg.devicesPerIP
    <3>3. ASSUME NEW n \in DOMAIN manifest
          PROVE  /\ n - 1 \in Nat /\ n - 1 < cfg.ipCount * d
                 /\ manifest[n].ip = (n - 1) \div d /\ manifest[n].port = (n - 1) % d
      <4>1. n \in Nat /\ n >= 1 /\ n <= cfg.count
        BY <3>1, <3>2
      <4>2. n - 1 \in Nat /\ n - 1 < cfg.count
        BY <3>1, <4>1
      <4>3. manifest[n].ip = (n - 1) \div d /\ manifest[n].port = (n - 1) % d
        BY <3>2 DEF Row
      <4>4. cfg.ipCount * d \in Nat /\ cfg.count <= cfg.ipCount * d
        BY <3>1
      <4>5. QED
        BY <3>1, <4>2, <4>3, <4>4
    <3>4. ASSUME NEW m \in DOMAIN manifest, NEW n \in DOMAIN manifest,
                 manifest[m].ip = manifest[n].ip, manifest[m].port = manifest[n].port
          PROVE  m = n
      <4>1. m - 1 = d * ((m - 1) \div d) + ((m - 1) % d)
        BY <3>1, <3>3, Division
      <4>2. n - 1 = d * ((n - 1) \div d) + ((n - 1) % d)
        BY <3>1, <3>3, Division
      <4>3. m - 1 = n - 1
        BY <3>3, <3>4, <4>1, <4>2
      <4>4. m \in Nat /\ n \in Nat
        BY <3>2
      <4>5. QED
        BY <4>3, <4>4
    <3>5. ASSUME NEW n \in DOMAIN manifest
          PROVE  /\ manifest[n].ip \in 0..(cfg.ipCount - 1)
                 /\ manifest[n].port \in 0..(d - 1)
      <4> DEFINE q == (n - 1) \div d
                 r == (n - 1) % d
      <4>1. q \in Nat /\ r \in 0..(d - 1) /\ n - 1 = d * q + r
        BY <3>1, <3>3, Division
      <4>2. r \in Nat /\ d * q + r < cfg.ipCount * d
        BY <3>3, <4>1
      <4>3. q < cfg.ipCount
        BY <3>1, <4>1, <4>2, QuotientBound
      <4>4. QED
        BY <3>1, <3>3, <4>1, <4>3
    <3>6. QED
      BY <3>4, <3>5 DEF AddressesAreUnique
  <2>3. QED
    BY <2>1, <2>2 DEF RunInv
<1>2. QED
  BY RunInvCorrect, <1>1, PTL
-----------------------------------------------------------------------------
(* The remote elements: every list behind a gateway was built from draws.  *)

IsBuilt(i, list) == \E n \in RneCounts : \E draws \in Draws(i, n) : list = buildCienaGNE(i, draws)

ElementsInv ==
    \/ disk = <<>> /\ behind = <<>>
    \/ /\ DOMAIN disk = Devices /\ DOMAIN behind = Devices
       /\ \A i \in Devices :
             /\ behind[i] = {} \/ IsBuilt(i, behind[i])
             /\ disk[i] = "whole" /\ assignments[i] = Gateway => IsBuilt(i, behind[i])

\* What is built depends on the command line only.
LEMMA BuildingStays ==
    ASSUME cfg' = cfg
    PROVE  Devices' = Devices /\ \A i, list : IsBuilt(i, list)' <=> IsBuilt(i, list)
<1>1. \A i : linkRnes(i)' = linkRnes(i)
  BY DEF linkRnes
<1>2. \A i, n : Draws(i, n)' = Draws(i, n)
  BY <1>1 DEF Draws
<1>3. \A i, draws : buildCienaGNE(i, draws)' = buildCienaGNE(i, draws)
  BY <1>1 DEF buildCienaGNE, rneTID
<1>4. QED
  BY <1>2, <1>3 DEF IsBuilt, Devices

LEMMA RenderBuilds ==
    ASSUME PoolInv, ElementsInv, NEW w \in Workers, Render(w)
    PROVE  ElementsInv'
<1>1. /\ cfg' = cfg /\ assignments' = assignments /\ disk' = [disk EXCEPT ![job[w]] = "whole"]
      /\ worker[w] = "render"
  BY DEF Render
<1>2. /\ Devices' = Devices /\ \A i, list : IsBuilt(i, list)' <=> IsBuilt(i, list)
  BY <1>1, BuildingStays
<1>3. job[w] \in Devices
  BY <1>1 DEF PoolInv, Once, Busy
<1>4. /\ DOMAIN disk = Devices /\ DOMAIN behind = Devices
      /\ \A i \in Devices :
            /\ behind[i] = {} \/ IsBuilt(i, behind[i])
            /\ disk[i] = "whole" /\ assignments[i] = Gateway => IsBuilt(i, behind[i])
  <2>1. disk # <<>>
    <3>1. DOMAIN disk = Devices
      BY DEF PoolInv, PoolTypes
    <3>2. DOMAIN <<>> = {}
      OBVIOUS
    <3>3. QED
      BY <1>3, <3>1, <3>2
  <2>2. QED
    BY <2>1 DEF ElementsInv
<1>5. /\ DOMAIN disk' = Devices /\ DOMAIN behind' = Devices
      /\ \A i \in Devices : i # job[w] => disk'[i] = disk[i] /\ behind'[i] = behind[i]
      /\ behind'[job[w]] = behind[job[w]] \/ IsBuilt(job[w], behind'[job[w]])
      /\ assignments[job[w]] = Gateway => IsBuilt(job[w], behind'[job[w]])
  <2>1. CASE assignments[job[w]] = Gateway
    <3>1. PICK n \in RneCounts : \E draws \in Draws(job[w], n) :
              behind' = [behind EXCEPT ![job[w]] = buildCienaGNE(job[w], draws)]
      BY <2>1 DEF Render
    <3>2. PICK draws \in Draws(job[w], n) :
              behind' = [behind EXCEPT ![job[w]] = buildCienaGNE(job[w], draws)]
      BY <3>1
    <3>3. behind'[job[w]] = buildCienaGNE(job[w], draws)
      BY <1>3, <1>4, <3>2
    <3>4. IsBuilt(job[w], behind'[job[w]])
      BY <3>3 DEF IsBuilt
    <3>5. QED
      BY <1>1, <1>3, <1>4, <3>2, <3>4
  <2>2. CASE assignments[job[w]] # Gateway
    <3>1. behind' = behind
      BY <2>2 DEF Render
    <3>2. QED
      BY <1>1, <1>3, <1>4, <2>2, <3>1
  <2>3. QED
    BY <2>1, <2>2
<1>6. \A i \in Devices : /\ behind'[i] = {} \/ IsBuilt(i, behind'[i])
                         /\ disk'[i] = "whole" /\ assignments[i] = Gateway => IsBuilt(i, behind'[i])
  <2>1. \A i \in Devices : i # job[w] =>
            /\ behind'[i] = {} \/ IsBuilt(i, behind'[i])
            /\ disk'[i] = "whole" /\ assignments[i] = Gateway => IsBuilt(i, behind'[i])
    BY <1>4, <1>5
  <2>2. /\ behind'[job[w]] = {} \/ IsBuilt(job[w], behind'[job[w]])
        /\ assignments[job[w]] = Gateway => IsBuilt(job[w], behind'[job[w]])
    BY <1>3, <1>4, <1>5
  <2>3. QED
    BY <2>1, <2>2
<1>7. QED
  BY <1>1, <1>2, <1>5, <1>6 DEF ElementsInv

LEMMA CreateBuilds ==
    ASSUME ElementsInv, NEW w \in Workers, Create(w)
    PROVE  ElementsInv'
<1>1. /\ cfg' = cfg /\ assignments' = assignments /\ behind' = behind
      /\ disk' = [disk EXCEPT ![job[w]] = "partial"]
  BY DEF Create
<1>2. /\ Devices' = Devices /\ \A i, list : IsBuilt(i, list)' <=> IsBuilt(i, list)
  BY <1>1, BuildingStays
<1>3. CASE disk = <<>> /\ behind = <<>>
  BY <1>1, <1>3 DEF ElementsInv
<1>4. CASE ~(disk = <<>> /\ behind = <<>>)
  <2>1. \A i \in DOMAIN disk : disk'[i] = "whole" => disk[i] = "whole"
    BY <1>1
  <2>2. QED
    BY <1>1, <1>2, <1>4, <2>1 DEF ElementsInv
<1>5. QED
  BY <1>3, <1>4

LEMMA StepBuilds ==
    ASSUME RunInv, ElementsInv, [Next]_vars
    PROVE  ElementsInv'
<1>1. CASE UNCHANGED <<cfg, assignments, disk, behind>>
  <2>1. Devices' = Devices /\ \A i, list : IsBuilt(i, list)' <=> IsBuilt(i, list)
    BY <1>1, BuildingStays
  <2>2. QED
    BY <1>1, <2>1 DEF ElementsInv
<1>2. CASE Prepare
  <2>1. /\ cfg' = cfg /\ disk' = [i \in Devices |-> "old"] /\ behind' = [i \in Devices |-> {}]
    BY <1>2 DEF Prepare
  <2>2. Devices' = Devices
    BY <2>1, BuildingStays
  <2>3. QED
    BY <2>1, <2>2 DEF ElementsInv
<1>3. ASSUME NEW w \in Workers, Render(w)
      PROVE  ElementsInv'
  <2>1. PoolInv
    BY <1>3 DEF RunInv, Before, Render
  <2>2. QED
    BY <1>3, <2>1, RenderBuilds
<1>4. ASSUME NEW w \in Workers, Create(w)
      PROVE  ElementsInv'
  BY <1>4, CreateBuilds
<1>5. QED
  <2>1. CASE UNCHANGED vars \/ Stop
    BY <1>1, <2>1 DEF vars, poolVars, Stop
  <2>2. CASE Reject \/ CloseJobs \/ AllDone \/ CreateManifest \/ WriteRow \/ Flush \/ RunFails \/ Feed
    BY <1>1, <2>2 DEF Reject, CloseJobs, AllDone, CreateManifest, WriteRow, Flush, RunFails, Feed,
                      poolVars
  <2>3. ASSUME NEW w \in Workers, Receive(w) \/ Leave(w) \/ FileFails(w)
        PROVE  ElementsInv'
    BY <1>1, <2>3 DEF Receive, Leave, FileFails
  <2>4. QED
    BY <1>2, <1>3, <1>4, <2>1, <2>2, <2>3 DEF Next, Main, Worker

LEMMA ElementsInvCorrect == Spec => []ElementsInv
<1>1. Init => ElementsInv
  BY DEF Init, ElementsInv
<1>2. QED
  BY RunInvCorrect, <1>1, StepBuilds, PTL DEF Spec

\* A list holds links, whose shelves are shared, and elements with the shelf of their
\* gateway or of their TID.
LEMMA ElementsOf ==
    ASSUME cfg \in Configs, cfg.dualHome, NEW i \in Devices, NEW list, IsBuilt(i, list)
    PROVE  /\ \A t \in linkRnes(i) : [tid |-> t, of |-> Shared] \in list
           /\ \A x \in list :
                 \/ x.tid \in linkRnes(i) /\ x.of = Shared
                 \/ \E c \in Cities : x.tid = cityTID(c) /\ x.of = Shared
                 \/ \E c \in Cities : x.tid = ownTID(c, i) /\ x.of = i
<1>0. PICK n \in RneCounts : \E draws \in Draws(i, n) : list = buildCienaGNE(i, draws)
  BY DEF IsBuilt
<1>1. PICK draws \in Draws(i, n) : list = buildCienaGNE(i, draws)
  BY <1>0
<1>2. \A t \in linkRnes(i) : [tid |-> t, of |-> Shared] \in list
  BY <1>1 DEF buildCienaGNE
<1>3. ASSUME NEW x \in list
      PROVE  \/ x.tid \in linkRnes(i) /\ x.of = Shared
             \/ \E c \in Cities : x.tid = cityTID(c) /\ x.of = Shared
             \/ \E c \in Cities : x.tid = ownTID(c, i) /\ x.of = i
  <2>1. CASE x \in {[tid |-> t, of |-> Shared] : t \in linkRnes(i)}
    BY <2>1
  <2>2. CASE x \notin {[tid |-> t, of |-> Shared] : t \in linkRnes(i)}
    <3>1. PICK k \in DOMAIN draws :
              x = [tid |-> rneTID(i, draws[k]), of |-> IF draws[k].shared THEN Shared ELSE i]
      BY <1>1, <2>2 DEF buildCienaGNE
    <3>2. draws[k].city \in Cities /\ draws[k].shared \in BOOLEAN
      BY DEF Draws
    <3>3. CASE draws[k].shared
      BY <3>1, <3>2, <3>3 DEF rneTID
    <3>4. CASE ~draws[k].shared
      BY <3>1, <3>2, <3>4 DEF rneTID
    <3>5. QED
      BY <3>3, <3>4
  <2>3. QED
    BY <2>1, <2>2
<1>4. QED
  BY <1>2, <1>3

\* In a fleet with an index for each device the index of a TID tells who named it.
LEMMA NamesTellApart ==
    ASSUME cfg \in Configs, cfg.count <= Indices, NEW i \in Devices, NEW j \in Devices
    PROVE  /\ linkTID(i) = linkTID(j) => i = j
           /\ \A c, d \in Cities : /\ ownTID(c, i) = ownTID(d, j) => i = j
                                   /\ linkTID(i) # ownTID(c, j)
                                   /\ cityTID(c) # ownTID(d, j)
                                   /\ linkTID(i) # cityTID(c)
<1>1. i % Indices = i /\ j % Indices = j /\ i \in Nat /\ j \in Nat
  <2>1. Indices \in Nat \ {0} /\ cfg.count \in Int
    BY GeneratorAssumption DEF GeneratorAssumption
  <2>2. i \in 0..(Indices - 1) /\ j \in 0..(Indices - 1)
    BY <2>1 DEF Devices
  <2>3. \A n \in 0..(Indices - 1) : n % Indices = n
    BY <2>1
  <2>4. QED
    BY <2>1, <2>2, <2>3
<1>2. -1 # j
  BY <1>1
<1>3. \A c \in Cities : c # "LINK"
  BY GeneratorAssumption DEF GeneratorAssumption
<1>4. QED
  BY <1>1, <1>2, <1>3 DEF linkTID, ownTID, cityTID

\* The links of a device are named by itself or by the device before.
LEMMA LinksOf ==
    ASSUME cfg \in Configs, cfg.dualHome, NEW i \in Devices
    PROVE  /\ linkRnes(i) = {linkTID(n) : n \in {n \in {i - 1, i} : n >= 0 /\ n + 1 < cfg.count}}
           /\ \A n \in {i - 1, i} : n >= 0 /\ n + 1 < cfg.count => n \in Devices
<1>1. cfg.count \in Int /\ i \in Int
  BY GeneratorAssumption DEF GeneratorAssumption, Devices
<1>2. QED
  BY <1>1 DEF linkRnes, Devices

\* Whatever the gateways of a fleet draw and in whatever order they are rendered, two
\* that list a TID list one element, neighbours share their link, and nobody else has it
\* (buildCienaGNE, rneTID, linkRnes).
THEOREM ElementsCorrect == Spec => []SharedElementsAgree
<1>1. RunInv /\ ElementsInv => SharedElementsAgree
  <2> SUFFICES ASSUME cfg \in Configs, ElementsInv, cfg.dualHome, cfg.count <= Indices,
                      NEW i \in Gateways, NEW j \in Gateways
               PROVE  /\ \A x \in behind[i], y \in behind[j] : x.tid = y.tid => x.of = y.of
                      /\ i + 1 = j =>
                            [tid |-> linkTID(i), of |-> Shared] \in behind[i] \intersect behind[j]
                      /\ \A x \in behind[i] : x.tid = linkTID(j) => i \in {j, j + 1}
    BY DEF SharedElementsAgree, RunInv
  <2>1. /\ i \in Devices /\ IsBuilt(i, behind[i])
        /\ j \in Devices /\ IsBuilt(j, behind[j])
    <3>1. disk # <<>>
      BY DEF Gateways
    <3>2. QED
      BY <3>1 DEF Gateways, ElementsInv
  <2>2. \A k \in {i, j} :
            /\ \A t \in linkRnes(k) : [tid |-> t, of |-> Shared] \in behind[k]
            /\ \A x \in behind[k] :
                  \/ x.tid \in linkRnes(k) /\ x.of = Shared
                  \/ \E c \in Cities : x.tid = cityTID(c) /\ x.of = Shared
                  \/ \E c \in Cities : x.tid = ownTID(c, k) /\ x.of = k
    BY <2>1, ElementsOf
  <2>3. \A k \in {i, j} : \A t \in linkRnes(k) : \E n \in Devices : n \in {k - 1, k} /\ t = linkTID(n)
    BY <2>1, LinksOf
  <2>4. ASSUME NEW x \in behind[i], NEW y \in behind[j], x.tid = y.tid
        PROVE  x.of = y.of
    <3>1. CASE x.of = Shared /\ y.of = Shared
      BY <3>1
    <3>2. CASE \E c \in Cities : x.tid = ownTID(c, i) /\ x.of = i
      <4>1. \E d \in Cities : y.tid = ownTID(d, j) /\ y.of = j
        <5>1. PICK c \in Cities : x.tid = ownTID(c, i)
          BY <3>2
        <5>2. y.tid = ownTID(c, i)
          BY <2>4, <5>1
        <5>3. y.tid \notin linkRnes(j)
          BY <2>1, <2>3, <5>2, NamesTellApart
        <5>4. \A d \in Cities : y.tid # cityTID(d)
          BY <2>1, <5>2, NamesTellApart
        <5>5. QED
          BY <2>2, <5>3, <5>4
      <4>2. PICK c \in Cities, d \in Cities :
               x.tid = ownTID(c, i) /\ x.of = i /\ y.tid = ownTID(d, j) /\ y.of = j
        BY <3>2, <4>1
      <4>3. i = j
        <5>1. ownTID(c, i) = ownTID(d, j)
          BY <2>4, <4>2
        <5>2. QED
          BY <2>1, <5>1, NamesTellApart
      <4>4. QED
        BY <4>2, <4>3
    <3>3. CASE \E d \in Cities : y.tid = ownTID(d, j) /\ y.of = j
      <4>1. \E c \in Cities : x.tid = ownTID(c, i) /\ x.of = i
        BY <2>1, <2>2, <2>3, <2>4, <3>3, NamesTellApart
      <4>2. QED
        BY <3>2, <4>1
    <3>4. QED
      BY <2>2, <3>1, <3>2, <3>3
  <2>5. ASSUME i + 1 = j
        PROVE  [tid |-> linkTID(i), of |-> Shared] \in behind[i] \intersect behind[j]
    <3>1. /\ i >= 0 /\ i + 1 < cfg.count /\ i \in {i - 1, i} /\ i \in {j - 1, j}
      <4>1. cfg.count \in Int
        BY GeneratorAssumption DEF GeneratorAssumption
      <4>2. QED
        BY <2>1, <2>5, <4>1 DEF Devices
    <3>2. linkTID(i) \in linkRnes(i) /\ linkTID(i) \in linkRnes(j)
      BY <2>1, <3>1, LinksOf
    <3>3. QED
      BY <2>2, <3>2
  <2>6. ASSUME NEW x \in behind[i], x.tid = linkTID(j)
        PROVE  i \in {j, j + 1}
    <3>1. x.tid \in linkRnes(i)
      BY <2>1, <2>2, <2>6, NamesTellApart
    <3>2. PICK n \in Devices : n \in {i - 1, i} /\ x.tid = linkTID(n)
      BY <2>3, <3>1
    <3>3. n = j
      BY <2>1, <2>6, <3>2, NamesTellApart
    <3>4. i \in Int
      BY <2>1 DEF Devices
    <3>5. QED
      BY <3>2, <3>3, <3>4
  <2>7. QED
    BY <2>4, <2>5, <2>6
<1>2. QED
  BY RunInvCorrect, ElementsInvCorrect, <1>1, PTL

\* Every state of a run is well typed, with queues no longer than their capacity; an
\* inventory is that of the listing gateway or a shared one.
THEOREM RunTypesCorrect == Spec => []TypeOK
<1>1. RunInv /\ ElementsInv => TypeOK
  <2> SUFFICES ASSUME RunInv, ElementsInv PROVE TypeOK
    OBVIOUS
  <2>1. \A i \in DOMAIN behind : \A x \in behind[i] : x.of \in {Shared, i}
    <3>1. ASSUME NEW i \in Devices, NEW list, IsBuilt(i, list), NEW x \in list
          PROVE  x.of \in {Shared, i}
      BY <3>1 DEF IsBuilt, buildCienaGNE
    <3>2. QED
      BY <3>1 DEF ElementsInv
  <2>2. CASE Before /\ run \in {"starting", "failed"}
    <3>1. <<>> \in Seq(Devices) /\ Len(<<>>) = 0 /\ QueueCap \in Nat /\ cfg \in Configs /\ cfg.count \in Int
      BY GeneratorAssumption DEF RunInv, GeneratorAssumption
    <3>2. next \in 0..(IF cfg.count > 0 THEN cfg.count ELSE 0)
      BY <2>2, <3>1 DEF Before
    <3>3. QED
      BY <2>1, <2>2, <3>1, <3>2 DEF Before, TypeOK
  <2>3. CASE PoolInv
    <3>1. cfg \in Configs /\ cfg.count > 0
      BY <2>3, FleetTypes DEF RunInv, PoolInv, PoolTypes
    <3>2. QED
      BY <2>1, <2>3, <3>1 DEF PoolInv, PoolTypes, Published, TypeOK
  <2>4. QED
    BY <2>2, <2>3 DEF RunInv
<1>2. QED
  BY RunInvCorrect, ElementsInvCorrect, <1>1, PTL
-----------------------------------------------------------------------------
(* The shares of the models.                                               *)

LEMMA ModelTypes ==
    /\ Len(Models) \in Nat
    /\ \A n \in 1..Len(Models) : Models[n] \in ModelNames
    /\ \A m \in ModelNames : \E n \in 1..Len(Models) : m = Models[n]
  BY GeneratorAssumption DEF GeneratorAssumption, ModelNames

\* A total is reached model by model.
LEMMA TotalBySteps ==
    ASSUME NEW f \in [ModelNames -> Nat]
    PROVE  \E g \in [0..Len(Models) -> Nat] :
               /\ g[0] = 0
               /\ \A n \in 1..Len(Models) : g[n] = g[n - 1] + f[Models[n]]
               /\ Total(f) = g[Len(Models)]
<1> DEFINE N == Len(Models)
           E(g, n) == IF n = 0 THEN 0 ELSE g[n - 1] + f[Models[n]]
           upTo == CHOOSE g : g = [n \in 0..N |-> E(g, n)]
           a == [n \in 1..N |-> f[Models[n]]]
<1>1. Total(f) = upTo[N]
  BY DEF Total
<1>2. N \in Nat /\ \A n \in 1..N : f[Models[n]] \in Nat
  BY ModelTypes
<1>3. \A n \in 1..N : a[n] = f[Models[n]] /\ a[n] \in Nat
  <2> HIDE DEF N
  <2>1. QED
    BY <1>2
<1> HIDE DEF N, a
<1>5. PICK g \in [0..N -> Nat] : g[0] = 0 /\ \A n \in 1..N : g[n] = g[n - 1] + a[n]
  <2> HIDE DEF E, upTo
  <2>1. N \in Nat /\ \A n \in 1..N : a[n] \in Nat
    BY <1>2, <1>3
  <2>2. QED
    BY <2>1, SumIsDefined
<1>6. \A n \in 1..N : n # 0 /\ n - 1 \in 0..N /\ g[n] = g[n - 1] + f[Models[n]]
  <2>1. \A n \in 1..N : n # 0 /\ n - 1 \in 0..N
    BY <1>2
  <2>2. QED
    BY <1>3, <1>5, <2>1
<1>7. \A n \in 0..N : g[n] = E(g, n)
  <2>1. \A n \in 0..N : n = 0 \/ n \in 1..N
    BY <1>2
  <2>2. g[0] = E(g, 0) /\ \A n \in 1..N : g[n] = E(g, n)
    BY <1>5, <1>6
  <2> HIDE DEF E
  <2>3. QED
    BY <2>1, <2>2
<1>8. upTo = [n \in 0..N |-> E(upTo, n)]
  <2>1. g = [n \in 0..N |-> E(g, n)]
    <3> HIDE DEF E
    <3>1. QED
      BY <1>5, <1>7
  <2> HIDE DEF E
  <2>2. QED
    BY <2>1
<1> HIDE DEF upTo
<1>9. upTo[0] = 0 /\ \A n \in 1..N : n # 0 /\ upTo[n] = upTo[n - 1] + f[Models[n]]
  <2>1. 0 \in 0..N /\ \A n \in 1..N : n \in 0..N /\ n # 0
    BY <1>2
  <2>2. upTo[0] = E(upTo, 0) /\ \A n \in 1..N : upTo[n] = E(upTo, n)
    <3> HIDE DEF E
    <3>1. QED
      BY <1>8, <2>1
  <2>3. QED
    BY <2>1, <2>2
<1>10. upTo[N] = g[N]
  <2> DEFINE T == {n \in Nat : n <= N => upTo[n] = g[n]}
  <2>1. 0 \in T
    BY <1>5, <1>9
  <2>2. ASSUME NEW n \in Nat, n \in T
        PROVE  n + 1 \in T
    <3> SUFFICES ASSUME n + 1 <= N PROVE upTo[n + 1] = g[n + 1]
      OBVIOUS
    <3>1. upTo[n] = g[n] /\ n + 1 \in 1..N /\ (n + 1) - 1 = n
      BY <1>2, <2>2
    <3>2. QED
      BY <1>6, <1>9, <3>1
  <2>3. N \in T
    <3> HIDE DEF T
    <3>1. QED
      BY <1>2, <2>1, <2>2, Induction
  <2>4. QED
    BY <1>2, <2>3
<1>11. QED
  BY <1>1, <1>5, <1>6, <1>10 DEF N

\* What is bounded model by model is bounded in total.
LEMMA TotalBound ==
    ASSUME NEW f \in [ModelNames -> Nat], NEW h \in [ModelNames -> Nat], NEW c \in Nat,
           \A m \in ModelNames : 100 * f[m] <= c * h[m]
    PROVE  100 * Total(f) <= c * Total(h) /\ Total(f) \in Nat /\ Total(h) \in Nat
<1> DEFINE N == Len(Models)
<1>1. N \in Nat /\ \A n \in 1..N : Models[n] \in ModelNames
  BY ModelTypes
<1>2. PICK g \in [0..N -> Nat] :
          g[0] = 0 /\ (\A n \in 1..N : g[n] = g[n - 1] + f[Models[n]]) /\ Total(f) = g[N]
  BY TotalBySteps
<1>3. PICK k \in [0..N -> Nat] :
          k[0] = 0 /\ (\A n \in 1..N : k[n] = k[n - 1] + h[Models[n]]) /\ Total(h) = k[N]
  BY TotalBySteps
<1> HIDE DEF N
<1> DEFINE T == {n \in Nat : n <= N => 100 * g[n] <= c * k[n]}
<1>4. 0 \in T
  BY <1>2, <1>3
<1>5. ASSUME NEW n \in Nat, n \in T
      PROVE  n + 1 \in T
  <2> SUFFICES ASSUME n + 1 <= N PROVE 100 * g[n + 1] <= c * k[n + 1]
    OBVIOUS
  <2> DEFINE a == f[Models[n + 1]]
             b == h[Models[n + 1]]
  <2>1. n + 1 \in 1..N /\ (n + 1) - 1 = n /\ n \in 0..N /\ n + 1 \in 0..N
    BY <1>1
  <2>2. a \in Nat /\ b \in Nat /\ 100 * a <= c * b /\ g[n] \in Nat /\ k[n] \in Nat
    BY <1>1, <2>1
  <2>3. g[n + 1] = g[n] + a /\ k[n + 1] = k[n] + b
    BY <1>2, <1>3, <2>1
  <2>4. 100 * g[n] <= c * k[n]
    BY <1>5, <2>1
  <2> HIDE DEF a, b
  <2>5. c * (k[n] + b) = c * k[n] + c * b /\ c * k[n] \in Nat /\ c * b \in Nat
    BY <2>2
  <2>6. 100 * (g[n] + a) <= c * k[n] + c * b
    <3> DEFINE u == c * k[n]
               v == c * b
    <3>1. u \in Nat /\ v \in Nat /\ 100 * a <= v /\ 100 * g[n] <= u
      BY <2>2, <2>4, <2>5
    <3> HIDE DEF u, v
    <3>2. 100 * (g[n] + a) <= u + v
      BY <2>2, <3>1
    <3>3. QED
      BY <3>2 DEF u, v
  <2>7. QED
    BY <2>3, <2>5, <2>6
<1>6. N \in T
  <2> HIDE DEF T
  <2>1. QED
    BY <1>1, <1>4, <1>5, Induction
<1>7. N \in 0..N
  BY <1>1
<1>8. QED
  BY <1>2, <1>3, <1>6, <1>7

\* A share is rounded down.
LEMMA ShareTypes ==
    ASSUME cfg \in Configs, Valid, NEW m \in ModelNames
    PROVE  /\ cfg.weights[m] \in Nat /\ Share(m) \in Nat
           /\ 100 * Share(m) <= cfg.count * cfg.weights[m]
           /\ cfg.count * cfg.weights[m] < 100 * Share(m) + 100
<1>1. cfg.count \in Nat /\ cfg.weights \in [ModelNames -> Nat]
  BY GeneratorAssumption DEF GeneratorAssumption, Valid
<1>2. cfg.count * cfg.weights[m] \in Nat
  BY <1>1
<1>3. \A n \in Nat : n \div 100 \in Nat /\ 100 * (n \div 100) <= n /\ n < 100 * (n \div 100) + 100
  OBVIOUS
<1>4. QED
  BY <1>1, <1>2, <1>3 DEF Share

\* No more devices are dealt out than there are.
LEMMA RemainderTypes ==
    ASSUME cfg \in Configs, Valid
    PROVE  Remainder \in Nat
<1> DEFINE f == [m \in ModelNames |-> Share(m)]
<1>1. cfg.count \in Nat /\ cfg.weights \in [ModelNames -> Nat] /\ Total(cfg.weights) = 100
  BY GeneratorAssumption DEF GeneratorAssumption, Valid, WeightsAddUp
<1>2. f \in [ModelNames -> Nat] /\ \A m \in ModelNames : 100 * f[m] <= cfg.count * cfg.weights[m]
  BY ShareTypes
<1>3. Remainder = cfg.count - Total(f)
  BY DEF Remainder
<1> HIDE DEF f
<1>4. 100 * Total(f) <= cfg.count * 100 /\ Total(f) \in Nat
  <2> DEFINE w == cfg.weights
             c == cfg.count
  <2>1. c \in Nat /\ w \in [ModelNames -> Nat] /\ Total(w) = 100
    BY <1>1
  <2>2. \A m \in ModelNames : 100 * f[m] <= c * w[m]
    BY <1>2
  <2> HIDE DEF w, c
  <2>3. 100 * Total(f) <= c * Total(w) /\ Total(f) \in Nat
    BY <1>2, <2>1, <2>2, TotalBound
  <2>4. QED
    BY <2>1, <2>3 DEF c
<1>5. QED
  BY <1>1, <1>3, <1>4

\* The top model has the most weight, and some.
LEMMA TopHasMost ==
    ASSUME cfg \in Configs, Valid
    PROVE  /\ Top \in ModelNames /\ cfg.weights[Top] > 0
           /\ \A m \in ModelNames : cfg.weights[m] <= cfg.weights[Top]
<1> DEFINE N == Len(Models)
           w == cfg.weights
           S == {i \in DOMAIN Models :
                    \A j \in DOMAIN Models : w[Models[j]] <= w[Models[i]]}
<1>1. w \in [ModelNames -> Nat] /\ Total(w) = 100
  BY GeneratorAssumption DEF GeneratorAssumption, Valid, WeightsAddUp
<1>2. /\ N \in Nat /\ DOMAIN Models = 1..N /\ \A n \in 1..N : Models[n] \in ModelNames
      /\ \A m \in ModelNames : \E n \in 1..N : m = Models[n]
  BY ModelTypes, GeneratorAssumption DEF GeneratorAssumption
<1>3. Top = Models[Min(S)]
  BY DEF Top
<1> HIDE DEF N, w
<1>4. PICK m \in ModelNames : w[m] > 0
  <2> SUFFICES ASSUME \A m \in ModelNames : ~(w[m] > 0) PROVE FALSE
    OBVIOUS
  <2>1. \A m \in ModelNames : 100 * w[m] <= 0 * w[m]
    BY <1>1
  <2>2. 100 * Total(w) <= 0 * Total(w)
    <3>1. 0 \in Nat
      OBVIOUS
    <3>2. QED
      BY <1>1, <2>1, <3>1, TotalBound
  <2>3. QED
    BY <1>1, <2>2
<1>5. S # {}
  <2> DEFINE T == {n \in Nat : n \in 1..N =>
                      \E i \in 1..N : \A j \in 1..n : w[Models[j]] <= w[Models[i]]}
  <2>1. 0 \in T
    OBVIOUS
  <2>2. ASSUME NEW n \in Nat, n \in T
        PROVE  n + 1 \in T
    <3> SUFFICES ASSUME n + 1 \in 1..N
                 PROVE  \E i \in 1..N : \A j \in 1..(n + 1) : w[Models[j]] <= w[Models[i]]
      OBVIOUS
    <3>1. \A j \in 1..(n + 1) : j \in 1..N /\ (j \in 1..n \/ j = n + 1)
      BY <1>2
    <3>2. \A j \in 1..N : w[Models[j]] \in Nat
      BY <1>1, <1>2
    <3>3. CASE n = 0
      <4>1. \A j \in 1..(n + 1) : j = n + 1
        BY <3>3
      <4>2. QED
        BY <3>2, <4>1
    <3>4. CASE n # 0
      <4>1. PICK i \in 1..N : \A j \in 1..n : w[Models[j]] <= w[Models[i]]
        BY <1>2, <2>2, <3>4
      <4>2. CASE w[Models[n + 1]] <= w[Models[i]]
        BY <3>1, <4>1, <4>2
      <4>3. CASE ~(w[Models[n + 1]] <= w[Models[i]])
        <5>1. \A j \in 1..n : w[Models[j]] <= w[Models[n + 1]]
          BY <3>1, <3>2, <4>1, <4>3
        <5>2. \A j \in 1..(n + 1) : w[Models[j]] <= w[Models[n + 1]]
          BY <3>1, <3>2, <5>1
        <5>3. QED
          BY <5>2
      <4>4. QED
        BY <4>2, <4>3
    <3>5. QED
      BY <3>3, <3>4
  <2>3. N \in T
    <3> HIDE DEF T
    <3>1. QED
      BY <1>2, <2>1, <2>2, Induction
  <2>4. N \in 1..N
    BY <1>2, <1>4
  <2>5. QED
    BY <1>2, <2>3, <2>4
<1>6. Min(S) \in S
  <2>1. S \in SUBSET Nat
    BY <1>2
  <2> HIDE DEF S
  <2>2. \E x \in S : \A y \in S : x <= y
    BY <1>5, <2>1, LeastElement
  <2>3. QED
    BY <2>2 DEF Min
<1>7. Top \in ModelNames /\ \A j \in 1..N : w[Models[j]] <= w[Top]
  BY <1>2, <1>3, <1>6
<1>8. \A n \in ModelNames : w[n] <= w[Top]
  BY <1>2, <1>7
<1>9. w[Top] > 0
  <2>1. w[m] <= w[Top] /\ w[m] \in Nat /\ w[Top] \in Nat
    BY <1>1, <1>7, <1>8
  <2>2. QED
    BY <1>4, <2>1
<1>10. QED
  BY <1>7, <1>8, <1>9 DEF w

\* Once they are dealt out, the models stay those of a shuffle.
Dealt == run \notin {"starting", "failed"} => Valid /\ assignments \in Shuffles

\* What may be dealt out depends on the command line only.
LEMMA ShufflesStay ==
    ASSUME cfg' = cfg
    PROVE  Valid' = Valid /\ Shuffles' = Shuffles
<1>1. \A m : Share(m)' = Share(m)
  BY DEF Share
<1>2. Remainder' = Remainder
  BY <1>1 DEF Remainder
<1>3. Top' = Top
  BY DEF Top
<1>4. stratifiedCounts' = stratifiedCounts
  BY <1>1, <1>2, <1>3 DEF stratifiedCounts
<1>5. Devices' = Devices
  BY DEF Devices
<1>6. QED
  BY <1>4, <1>5 DEF Valid, Shuffles

LEMMA DealtCorrect == Spec => []Dealt
<1>1. Init => Dealt
  BY DEF Init, Dealt
<1>2. Dealt /\ [Next]_vars => Dealt'
  <2> SUFFICES ASSUME Dealt, [Next]_vars PROVE Dealt'
    OBVIOUS
  <2>1. CASE Prepare
    <3>1. cfg' = cfg /\ Valid /\ assignments' \in Shuffles
      BY <2>1 DEF Prepare
    <3>2. QED
      BY <3>1, ShufflesStay DEF Dealt
  <2>2. CASE UNCHANGED <<cfg, assignments>> /\ (run' \in {"starting", "failed"} \/ run \notin {"starting", "failed"})
    BY <2>2, ShufflesStay DEF Dealt
  <2>3. CASE UNCHANGED vars \/ Stop
    BY <2>2, <2>3 DEF vars, Stop
  <2>4. CASE Reject \/ Feed \/ CloseJobs \/ AllDone \/ CreateManifest \/ WriteRow \/ Flush \/ RunFails
    BY <2>2, <2>4 DEF Reject, Feed, CloseJobs, AllDone, CreateManifest, WriteRow, Flush, RunFails
  <2>5. ASSUME NEW w \in Workers, Worker(w)
        PROVE  Dealt'
    BY <2>2, <2>5 DEF Worker, Receive, Leave, Create, Render, FileFails
  <2>6. QED
    BY <2>1, <2>3, <2>4, <2>5 DEF Next, Main
<1>3. QED
  BY <1>1, <1>2, PTL DEF Spec

\* For any weights that add up and any number of devices, every model has its share,
\* rounded down, and the one with the most weight what is left of the fleet
\* (stratifiedCounts, buildAssignments).
THEOREM SharesCorrect == Spec => []SharesAreKept
<1>1. RunInv /\ Dealt => SharesAreKept
  <2> SUFFICES ASSUME cfg \in Configs, Valid, assignments \in Shuffles, NEW m \in ModelNames
               PROVE  LET n == Cardinality(DevicesOf(m, assignments))
                      IN  /\ cfg.weights[m] = 0 => n = 0
                          /\ 100 * (n + 1) > cfg.count * cfg.weights[m]
                          /\ (\E m2 \in ModelNames : cfg.weights[m2] > cfg.weights[m]) =>
                                100 * n <= cfg.count * cfg.weights[m]
    BY DEF SharesAreKept, RunInv, Dealt
  <2> DEFINE n == Cardinality(DevicesOf(m, assignments))
             w == cfg.weights[m]
             p == cfg.count * w
             s == Share(m)
             r == Remainder
  <2>1. n = IF m = Top THEN s + r ELSE s + 0
    BY DEF Shuffles, stratifiedCounts
  <2>2. /\ w \in Nat /\ s \in Nat /\ r \in Nat /\ p \in Nat
        /\ 100 * s <= p /\ p < 100 * s + 100
    <3>1. cfg.count \in Nat
      BY FleetTypes
    <3>2. QED
      BY <3>1, ShareTypes, RemainderTypes
  <2>3. w = 0 => p = 0
    BY FleetTypes
  <2>4. m = Top => w > 0 /\ ~(\E m2 \in ModelNames : cfg.weights[m2] > w)
    <3>1. \A m2 \in ModelNames : cfg.weights[m2] \in Nat
      BY ShareTypes
    <3>2. QED
      BY <3>1, TopHasMost
  <2> HIDE DEF n, w, p, s, r
  <2>5. 100 * (n + 1) > p
    BY <2>1, <2>2
  <2>6. CASE m = Top
    BY <2>2, <2>4, <2>5, <2>6 DEF n, w, p
  <2>7. CASE m # Top
    <3>1. n = s
      BY <2>1, <2>2, <2>7
    <3>2. w = 0 => n = 0
      BY <2>2, <2>3, <3>1
    <3>3. 100 * n <= p
      BY <2>2, <3>1
    <3>4. QED
      BY <2>5, <3>2, <3>3 DEF n, w, p
  <2>8. QED
    BY <2>6, <2>7
<1>2. QED
  BY RunInvCorrect, DealtCorrect, <1>1, PTL
-----------------------------------------------------------------------------
(* The shares are a fleet.                                                 *)

\* No model is listed twice.
LEMMA ModelsDiffer ==
    \A i, j \in 1..Len(Models) : Models[i] = Models[j] => i = j
<1> DEFINE N == Len(Models)
<1>1. N \in Nat /\ DOMAIN Models = 1..N /\ Cardinality(ModelNames) = N
  BY GeneratorAssumption DEF GeneratorAssumption
<1>2. Models \in Surjection(1..N, ModelNames)
  <2>1. Models \in [1..N -> ModelNames]
    BY GeneratorAssumption, <1>1 DEF GeneratorAssumption
  <2>2. \A m \in ModelNames : \E i \in 1..N : Models[i] = m
    BY ModelTypes
  <2>3. QED
    BY <2>1, <2>2 DEF Surjection
<1> HIDE DEF N
<1>3. IsFiniteSet(1..N) /\ Cardinality(1..N) = N
  BY <1>1, FS_Interval
<1>4. Models \in Injection(1..N, ModelNames)
  BY <1>1, <1>2, <1>3, FS_Surjection
<1>5. QED
  BY <1>4 DEF N, Injection, IsInjective

\* What one model gets more, the total gets more.
LEMMA TotalOfOneMore ==
    ASSUME NEW f \in [ModelNames -> Nat], NEW h \in [ModelNames -> Nat],
           NEW t \in ModelNames, NEW r \in Nat,
           \A m \in ModelNames : h[m] = f[m] + IF m = t THEN r ELSE 0
    PROVE  Total(h) = Total(f) + r
<1> DEFINE N == Len(Models)
<1>1. N \in Nat /\ \A n \in 1..N : Models[n] \in ModelNames
  BY ModelTypes
<1>2. PICK g \in [0..N -> Nat] :
          g[0] = 0 /\ (\A n \in 1..N : g[n] = g[n - 1] + f[Models[n]]) /\ Total(f) = g[N]
  BY TotalBySteps
<1>3. PICK k \in [0..N -> Nat] :
          k[0] = 0 /\ (\A n \in 1..N : k[n] = k[n - 1] + h[Models[n]]) /\ Total(h) = k[N]
  BY TotalBySteps
<1>4. PICK at \in 1..N : t = Models[at]
  BY ModelTypes
<1>5. \A n \in 1..N : Models[n] = t <=> n = at
  BY <1>4, ModelsDiffer
<1> HIDE DEF N
<1> DEFINE T == {n \in Nat : n <= N => k[n] = g[n] + IF at <= n THEN r ELSE 0}
<1>6. 0 \in T
  <2>1. ~(at <= 0)
    BY <1>1
  <2>2. QED
    BY <1>2, <1>3, <2>1
<1>7. ASSUME NEW n \in Nat, n \in T
      PROVE  n + 1 \in T
  <2> SUFFICES ASSUME n + 1 <= N PROVE k[n + 1] = g[n + 1] + IF at <= n + 1 THEN r ELSE 0
    OBVIOUS
  <2> DEFINE a == f[Models[n + 1]]
             b == h[Models[n + 1]]
  <2>1. n + 1 \in 1..N /\ (n + 1) - 1 = n /\ n \in 0..N /\ at \in Nat
    BY <1>1
  <2>2. a \in Nat /\ g[n] \in Nat /\ b = a + IF n + 1 = at THEN r ELSE 0
    BY <1>1, <1>5, <2>1
  <2>3. g[n + 1] = g[n] + a /\ k[n + 1] = k[n] + b
    BY <1>2, <1>3, <2>1
  <2>4. k[n] = g[n] + IF at <= n THEN r ELSE 0
    BY <1>7, <2>1
  <2> HIDE DEF a, b
  <2>5. CASE at = n + 1
    <3>1. b = a + r /\ k[n] = g[n] + 0
      BY <2>1, <2>2, <2>4, <2>5
    <3>2. QED
      BY <2>2, <2>3, <2>5, <3>1
  <2>6. CASE at # n + 1
    <3>1. b = a /\ (at <= n + 1 <=> at <= n)
      BY <2>1, <2>2, <2>6
    <3>2. QED
      BY <2>2, <2>3, <2>4, <3>1
  <2>7. QED
    BY <2>5, <2>6
<1>8. N \in T
  <2> HIDE DEF T
  <2>1. QED
    BY <1>1, <1>6, <1>7, Induction
<1>9. at <= N
  BY <1>1
<1>10. QED
  BY <1>2, <1>3, <1>8, <1>9, <1>1

\* A file for each device: the counts of the models are numbers that add up to the
\* fleet, for any weights that add up ("Guarantees sum == total", stratifiedCounts).
THEOREM CountsAddUp ==
    ASSUME cfg \in Configs, Valid
    PROVE  stratifiedCounts \in [ModelNames -> Nat] /\ Total(stratifiedCounts) = cfg.count
<1> DEFINE f == [m \in ModelNames |-> Share(m)]
<1>1. f \in [ModelNames -> Nat] /\ Top \in ModelNames /\ Remainder \in Nat
  BY ShareTypes, TopHasMost, RemainderTypes
<1>2. \A m \in ModelNames : stratifiedCounts[m] = f[m] + IF m = Top THEN Remainder ELSE 0
  BY DEF stratifiedCounts
<1>3. stratifiedCounts \in [ModelNames -> Nat]
  <2>1. \A m \in ModelNames : stratifiedCounts[m] \in Nat
    <3> HIDE DEF f
    <3>1. QED
      BY <1>1, <1>2
  <2>2. stratifiedCounts = [m \in ModelNames |-> stratifiedCounts[m]]
    BY DEF stratifiedCounts
  <2>3. QED
    BY <2>1, <2>2
<1>4. cfg.count \in Int /\ Remainder = cfg.count - Total(f) /\ Total(f) \in Nat
  <2>1. cfg.count \in Int
    BY GeneratorAssumption DEF GeneratorAssumption
  <2>2. Total(f) \in Nat
    <3> HIDE DEF f
    <3>1. \A m \in ModelNames : 100 * f[m] <= 100 * f[m]
      BY <1>1
    <3>2. QED
      BY <1>1, <3>1, TotalBound
  <2>3. QED
    BY <2>1, <2>2 DEF Remainder
<1>5. Total(stratifiedCounts) = Total(f) + Remainder
  <2> HIDE DEF f
  <2>1. QED
    BY <1>1, <1>2, <1>3, TotalOfOneMore
<1> HIDE DEF f
<1>6. QED
  BY <1>1, <1>3, <1>4, <1>5

\* A total counted model by model is in order.
LEMMA SumsAreOrdered ==
    ASSUME NEW N \in Nat, NEW g \in [0..N -> Nat], \A n \in 1..N : g[n - 1] <= g[n]
    PROVE  \A i, j \in 0..N : i <= j => g[i] <= g[j]
<1> SUFFICES ASSUME NEW i \in 0..N PROVE \A j \in 0..N : i <= j => g[i] <= g[j]
  OBVIOUS
<1> DEFINE T == {n \in Nat : n \in 0..N /\ i <= n => g[i] <= g[n]}
<1>1. 0 \in T
  OBVIOUS
<1>2. ASSUME NEW n \in Nat, n \in T
      PROVE  n + 1 \in T
  <2> SUFFICES ASSUME n + 1 \in 0..N, i <= n + 1 PROVE g[i] <= g[n + 1]
    OBVIOUS
  <2>1. CASE i = n + 1
    BY <2>1
  <2>2. CASE i # n + 1
    <3>1. n \in 0..N /\ i <= n /\ n + 1 \in 1..N /\ (n + 1) - 1 = n
      BY <2>2
    <3>2. g[i] <= g[n] /\ g[n] <= g[n + 1]
      BY <1>2, <3>1
    <3>3. g[i] \in Nat /\ g[n] \in Nat /\ g[n + 1] \in Nat
      BY <3>1
    <3>4. QED
      BY <3>2, <3>3
  <2>3. QED
    BY <2>1, <2>2
<1>3. Nat \subseteq T
  <2> HIDE DEF T
  <2>1. QED
    BY <1>1, <1>2, Induction
<1>4. QED
  BY <1>3

\* Run can always deal the models out: a valid command line has a shuffle
\* (buildAssignments, before rng.Shuffle: the models one after the other).
THEOREM FleetCanBeDealt ==
    ASSUME cfg \in Configs, Valid
    PROVE  Shuffles # {}
<1> DEFINE N == Len(Models)
           c == stratifiedCounts
           C == cfg.count
<1>1. /\ N \in Nat /\ (\A n \in 1..N : Models[n] \in ModelNames)
      /\ \A m \in ModelNames : \E n \in 1..N : m = Models[n]
  BY ModelTypes
<1>2. c \in [ModelNames -> Nat] /\ C \in Int
  BY CountsAddUp, GeneratorAssumption DEF GeneratorAssumption
<1>3. PICK g \in [0..N -> Nat] :
          g[0] = 0 /\ (\A n \in 1..N : g[n] = g[n - 1] + c[Models[n]]) /\ C = g[N]
  <2>1. \E g \in [0..N -> Nat] :
            /\ g[0] = 0
            /\ \A n \in 1..N : g[n] = g[n - 1] + c[Models[n]]
            /\ Total(c) = g[N]
    <3> HIDE DEF c
    <3>1. QED
      BY <1>2, TotalBySteps
  <2>2. Total(c) = C
    BY CountsAddUp
  <2>3. QED
    BY <2>1, <2>2
<1>4. Shuffles = {a \in [0..(C - 1) -> ModelNames] :
                      \A m \in ModelNames : Cardinality(DevicesOf(m, a)) = c[m]}
  BY DEF Shuffles, Devices
<1>5. \A i, j \in 1..N : Models[i] = Models[j] => i = j
  BY ModelsDiffer
<1> HIDE DEF N, c, C
<1>6. \A i, j \in 0..N : i <= j => g[i] <= g[j]
  <2>1. \A n \in 1..N : g[n - 1] <= g[n]
    <3>1. ASSUME NEW n \in 1..N
          PROVE  g[n - 1] <= g[n]
      <4>1. g[n - 1] \in Nat /\ c[Models[n]] \in Nat
        BY <1>1, <1>2
      <4>2. QED
        BY <1>3, <4>1
    <3>2. QED
      BY <3>1
  <2>2. QED
    BY <1>1, <2>1, SumsAreOrdered
\* The model of device i is the first one whose devices do not end before it.
<1> DEFINE Mine(i, n) == n \in 1..N /\ g[n - 1] <= i /\ i < g[n]
           a == [i \in 0..(C - 1) |-> Models[CHOOSE n \in 1..N : Mine(i, n)]]
<1>7. ASSUME NEW i \in 0..(C - 1)
      PROVE  \E n \in 1..N : Mine(i, n)
  <2> DEFINE T == {n \in 0..N : i < g[n]}
  <2>1. T \in SUBSET Nat /\ N \in T
    BY <1>1, <1>2, <1>3
  <2>2. PICK n \in T : \A y \in T : n <= y
    <3> HIDE DEF T
    <3>1. QED
      BY <2>1, LeastElement
  <2>3. n # 0
    BY <1>3
  <2>4. n \in 1..N /\ n - 1 \in 0..N /\ n - 1 \notin T
    BY <1>1, <2>2, <2>3
  <2>5. g[n - 1] <= i
    BY <1>2, <2>4
  <2>6. QED
    BY <2>2, <2>4, <2>5
<1>8. ASSUME NEW i \in 0..(C - 1), NEW n, NEW p, Mine(i, n), Mine(i, p)
      PROVE  n = p
  <2> SUFFICES ASSUME NEW x \in 1..N, NEW y \in 1..N, Mine(i, x), Mine(i, y), x < y
               PROVE  FALSE
    BY <1>1, <1>8
  <2>1. x \in 0..N /\ y - 1 \in 0..N /\ x <= y - 1
    BY <1>1
  <2>2. g[x] <= g[y - 1]
    BY <1>6, <2>1
  <2>3. g[x] \in Nat /\ g[y - 1] \in Nat /\ i \in Int
    BY <2>1
  <2>4. QED
    BY <2>2, <2>3
<1>9. \A i \in 0..(C - 1) : \A n \in 1..N : a[i] = Models[n] <=> Mine(i, n)
  <2> SUFFICES ASSUME NEW i \in 0..(C - 1), NEW n \in 1..N
               PROVE  a[i] = Models[n] <=> Mine(i, n)
    OBVIOUS
  <2> DEFINE p == CHOOSE q \in 1..N : Mine(i, q)
  <2>1. a[i] = Models[p]
    OBVIOUS
  <2> HIDE DEF a
  <2>2. p \in 1..N /\ Mine(i, p)
    <3> HIDE DEF Mine
    <3>1. QED
      BY <1>7
  <2> HIDE DEF p, Mine
  <2>3. a[i] = Models[n] <=> p = n
    BY <1>5, <2>1, <2>2
  <2>4. QED
    BY <1>8, <2>2, <2>3
<1>10. a \in [0..(C - 1) -> ModelNames]
  <2>1. \A i \in 0..(C - 1) : Models[CHOOSE n \in 1..N : Mine(i, n)] \in ModelNames
    <3> HIDE DEF Mine
    <3>1. QED
      BY <1>1, <1>7
  <2> HIDE DEF Mine
  <2>2. QED
    BY <2>1
<1> HIDE DEF a
<1>11. ASSUME NEW m \in ModelNames
       PROVE  Cardinality(DevicesOf(m, a)) = c[m]
  <2>1. PICK n \in 1..N : m = Models[n]
    BY <1>1
  <2>2. /\ n - 1 \in 0..N /\ n \in 0..N /\ N \in 0..N /\ n - 1 <= n /\ n <= N
    BY <1>1
  <2>3. /\ g[n - 1] \in Nat /\ g[n] \in Nat /\ g[n - 1] <= g[n] /\ g[n] <= C
        /\ g[n] = g[n - 1] + c[m] /\ c[m] \in Nat
    BY <1>2, <1>3, <1>6, <2>1, <2>2
  <2>4. DevicesOf(m, a) = g[n - 1]..(g[n] - 1)
    <3>1. DOMAIN a = 0..(C - 1)
      BY <1>10
    <3>2. \A i \in 0..(C - 1) : a[i] = m <=> g[n - 1] <= i /\ i < g[n]
      BY <1>9, <2>1
    <3>3. \A i \in g[n - 1]..(g[n] - 1) : i \in 0..(C - 1) /\ g[n - 1] <= i /\ i < g[n]
      BY <1>2, <2>3
    <3>4. \A i \in 0..(C - 1) : g[n - 1] <= i /\ i < g[n] => i \in g[n - 1]..(g[n] - 1)
      BY <1>2, <2>3
    <3>5. QED
      BY <3>1, <3>2, <3>3, <3>4 DEF DevicesOf
  <2>5. Cardinality(g[n - 1]..(g[n] - 1)) = c[m]
    <3>1. \A x, y \in Nat : y = x + c[m] => (IF x > y - 1 THEN 0 ELSE (y - 1) - x + 1) = c[m]
      BY <2>3
    <3>2. Cardinality(g[n - 1]..(g[n] - 1)) =
              IF g[n - 1] > g[n] - 1 THEN 0 ELSE (g[n] - 1) - g[n - 1] + 1
      <4>1. g[n - 1] \in Int /\ g[n] - 1 \in Int
        BY <2>3
      <4>2. QED
        BY <4>1, FS_Interval
    <3>3. QED
      BY <2>3, <3>1, <3>2
  <2>6. QED
    BY <2>4, <2>5
<1>12. QED
  BY <1>4, <1>10, <1>11
=============================================================================
