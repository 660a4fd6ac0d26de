# A TLA+ verification of rcfg-sim

rcfg-sim pretends to be a fleet of network devices: one process binds a TCP port
per device, speaks SSH on each, and answers show commands (or TL1 commands, for
the optical gateways) with configs that a generator wrote beforehand. It also
misbehaves on purpose: devices that hang, refuse, cut a config short, answer
slowly. What makes it hard to get right is not any one command but what runs at
the same time: thousands of connections, their shells, timers, injected
failures and a shutdown, all of which must leave counters, slots and memory maps
in order.

This directory models that program in TLA+, checks the models with TLC on small
instances, and proves with TLAPS, for instances of any size, every safety property
those runs check: of the server, its CLI and TL1 sessions and command file caches,
its startup and the generator.
`PROJECT.json` lists the components, the runs, the definitions with the source
lines they stand for, the hazards, and the theorems.

## The system's parts

| Part | Source | State | Operations | What is hard |
|---|---|---|---|---|
| Server | `internal/sshsrv/server.go` | listeners, `acceptWG`, `sessionWG`, `sem`, `active_sessions`, configs mapped or not; per connection its goroutine, `sessionOutcome`, `hardTimer` | `Start`, `accept`, `handleConn`, `handleSession`, `Shutdown` | everything is concurrent; six ways out of `handleConn`; deferred calls; errors half way through `Start` |
| Session plumbing | `driver.go` | `sessionCtx.hung`, the channel, the raw connection | `applyResponseDelay`, `hang`, `emit` | a hang races the cap, the client and the shutdown; a cut resets the connection under other channels |
| CLI drivers | `driver_cisco.go`, `driver_junos.go`, `dispatch.go`, `session.go` | enable mode, the line being typed | `Serve`, `readLine`, `ResolveCommand`, `Dispatch` | many paths through one loop, each to be counted once; abbreviations that fit several commands |
| TL1 drivers | `tl1.go`, `driver_ciena.go`, `driver_infinera.go`, `driver_cisco_tl1.go` | logged in or not, the sections of the config, the command buffer | `tl1Serve`, `readTL1`, three dispatchers | quoted strings, erasing, routing to remote nodes, paging |
| Command files | `cmdfiles.go` | two caches under an `RWMutex` | `lookup`, `hostFiles` | check, read and store are separate steps |
| Faults, profiles | `internal/fault`, `internal/profile` | none after startup | `Roll`, `Parse`, `Assign`, `resolveProfiles` | which device gets which, again on every start; how they combine |
| Loader, startup | `cmd/rcfg-sim/main.go`, `configs/loader.go`, `New` | the memory maps, the ports, the host key file | `main`, `loadOrGenerateHostKey`, `LoadForListener`, `UnloadAll`, `New`, `Start` | unwinding after an error; a kill between two steps; several instances over the same files |
| Generator | `configs/generator.go` | `results`, the `jobs` channel, the files | `Run` | workers finish and fail in any order; a second run over files that are being served |
| Config contents | `configs/build.go`, `ciena.go`, ... | none (a seeded generator) | builders, templates | remote elements shared by gateways that do not know of one another |
| Deployment | `deploy/`, `scenarios/` | none | the systemd unit | starts an instance again when it died |
| Metrics | `internal/metrics` | the registry | increments | only that each is done once |

They meet in a few places. `handleConn` starts one `handleSession` per channel,
which starts one `Serve`; these share `sessionOutcome`, the raw connection and
one random generator with `handleConn`. `Shutdown` talks to them by cancelling a
context (which only a hang listens to), by closing listeners, and by the two
WaitGroups. All sessions share the command file caches. The generator's manifest
and files are the loader's input, and stay mapped into every instance that
serves them. Instances on one host share those files, the IP addresses, and,
unless told otherwise, the host key file.

What correctness means for each part is listed with the runs below; the hazards
that led to the properties are in `PROJECT.json` with their lines.

## The modules

**Server** is the process and every connection it serves. `phase[c]` is where the
goroutine of connection `c` is: `dialed` in the kernel's backlog, `accepted` from
`l.Accept`, `admitting` at the top of `handleConn`, `handshake` once it has a
place in `sem`, `open` once authenticated, then `unwinding`, `released`,
`recorded` and `ended` as the deferred calls run in their order. `shell[c][k]` is
the `Serve` goroutine of channel `k`, reduced to what can hold it up or end it.
Each action is one statement group of the source between two points where other
goroutines can come in. The refuse profile, a full semaphore, a failed
handshake, `hardTimer`, a channel that cannot be accepted, a cut and a failing
`Accept` are actions of their own, and so are the three ways out of a hang
(`HangOver` when its time is over, `HangAbandoned` when its client is gone,
`HangCancelled` when the server shuts down). `Shutdown` is five actions, one for
each thing it waits for. `LongTimers` are the steps that may take an hour: the
hang's timer, the session cap, the timeout of the drain. `Promptly` is all the rest.

**SessionSlots** is what the server promises, without mechanism: at most `Cap`
connections inside, each leaves once, each is counted once, and as a success only
if it got through the handshake and nothing had been blamed on it. `Server`
defines the refinement mapping (`Slots`) and claims `ImplementsSlots`.

**Startup** is one host with several instances and a generator that may run
again. Each instance follows `main`: flags, host key (read, or created, written
and used), manifest, one map after the other, the checks of `New` with the
profiles, the ports one by one, the metrics address, and the way down. What a
process holds (`proc[i]`) is lost by `Exit`, which can come at any step and stands
for a return of `main` as much as for a kill; key files, manifest and config files
outlive it, and `Launch` is the unit starting it again. The generator is reduced
to what a reader of its files can see: a file truncated, a file whole, a manifest
that grows.

**ServerProofs**, **ServerLabelProofs**, **CmdFilesProofs**, **ShellProofs**,
**TL1Proofs**, **StartupProofs** and **GeneratorProofs** prove, for all constants,
what is listed under Proofs; **Recursion** holds the lemmas on induction and on
recursive functions that the last three share.

**Shell** is one CLI session in full detail, key by key, for both CLI drivers:
`step` follows `Serve`, **LineEditor** is `readLine` (`Press` is one byte of
input; a word stands for its bytes), and **Commands** is which command a line of
words asks for: `ResolveCommand` with its table and abbreviations, which get their
meaning from the constant `Fits` (the words each word is a prefix of), and
`dispatchJunos`. `observed` counts `observeCmd`, `injected` the fault metric.
The connection and the channel on it end apart: `wire` is the connection, `channel`
what the client did with the channel. After an EOF of the client nothing more can
be read but answers still arrive; on a channel it closed writes fail, too.

**CmdFiles** is the two caches: a lookup is up to six steps, and `Edit` is the
operator changing files meanwhile.

**TL1Command** is the reading and parsing of TL1 commands as functions on
sequences of tokens (`readTL1`, `Field`, `Ctag`, `Tid`, the `ACT-USER` fields),
and **TL1** the session: a client that types the text of one of its `Requests` after
another, mistypes and erases; the login;
`indexSections` as operators on the lines of a config; and the three dispatchers,
which differ by vendor in data (`Reports`, `NeighbourVerbs`, `Silence`, ...)
rather than in actions. Of the text of an answer a reply keeps the lines it streams,
the TIDs it lists, and whether the gateway's own serial number is in it (`serial`).

**Generator** is `Run`: shares, shuffle, worker pool, errors, manifest, and for a
Ciena gateway the remote elements it lists (`behind`, by `buildCienaGNE`): under
which TID, and whether the inventory was derived from that TID alone or for this
gateway. The latter matters because gateways are rendered by different workers,
with random draws of their own, and must still agree about an element both list.

`MCServer`, `MCShell`, `MCCmdFiles`, `MCTL1`, `MCGenerator` and `MCStartup` give the constants
their values; the `.cfg` files choose among them.

Names that end in a suffix after an underscore and are commented "Mutant of ..."
are deliberately wrong variants of the definition below them. Each property of a
passing run has one that breaks it, which shows that the property can fail.

## The runs

| Run | Question | Result |
|---|---|---|
| `server_admission` | With three connections that compete for two places, a fourth to a device that refuses, passwords, faults, failing binds and a shutdown: are slots, gauges and WaitGroups exact (`SlotsAccounted`, `CountersBalanced`), and is the drain final (`DrainIsFinal`)? | holds |
| `server_sessions` | With shells, passwords, a hang, a cut, ports that may be taken and a shutdown: does `sessions_total` say what happened (`ResetIsNeverOk`, `LabelsMeanWhatTheySay`), is the server a pool of slots (`ImplementsSlots`), do every connection, every shell and `Shutdown` come to an end, if no hang ends by itself (`EveryConnectionEnds`, `ShellsReturn`, `ShutdownReturns`), and the accept loops when `Start` fails at the second port or the metrics port (`FailedStartStops`)? | holds |
| `server_hang` | With retried passwords, does a session that hangs when `Shutdown` begins end before any long timer does (`HangsDoNotHoldShutdown`)? | holds |
| `server_backlog` | Is every client that got through to a listener accepted, or dropped when the listener closes? (`README.md:185`, `README.md:886`) | violated |
| `server_drain_shell` | Is a drained server without running shells? (`CONTRIBUTING.md:75`) | violated |
| `server_stale_label` | Is a lost session never counted as ok? (`driver_cisco.go:57`) | violated |
| `shell_session` | Over sessions of up to six keys, all profiles and faults, with a client that may end its input, its channel or its connection at any step: echo, one observation per command, a cut is final, one hang, and an end only because the client ended it, under the label for the way it did (`EndsForAReason`: no abbreviation that could mean something else is an exit, no lost input is an `ok`). | holds |
| `cmdfiles_cache` | Two sessions, two folders, an edit, failing reads: caches bounded, invisible while nobody edits, and settled once filled. | holds |
| `cmdfiles_refill` | Does the first read of a file stick? (`cmdfiles.go:17`) | violated |
| `tl1_session` | All three vendors, three configs, logins and slips: commands arrive whole, the login is a gate, the inventories streamed are not mixed up, replies carry their tag, pages are complete. | holds |
| `generator_pool` | Two workers, seven fleets, errors anywhere: manifest over whole files only, unique addresses, exact shares, gateways that agree on the elements they share (`SharedElementsAgree`), and `Run` returns. | holds |
| `startup` | Two instances, killed at any step and started again, over good and refused manifests, while the generator runs again: configs are mapped while a port is open and unmapped after a failure (`MapsFollowTheListeners`), a port answers for its row (`PortsAnswerForTheirRows`), the host key stays (`HostKeyNeverChanges`), and with the latest manifest go the latest configs (`ConfigsMatchTheManifest`). | holds |

The four violations are places where the code does something else than its own
comments or documents say. None loses data; they matter to whoever relies on the
sentence:

* `server_drain_shell`: `handleSession` and `Serve` goroutines are in no WaitGroup, so
  "all sessions drained cleanly" may be logged, and the configs unmapped, while
  a shell runs.
* `server_stale_label`: the label of a session is recorded when `handleConn` returns;
  the shell's `Set("disconnect")` may come after it.
* `server_backlog`: any error of `Accept` ends the accept loop of the device
  (`server.go:291`), with its listener open: later clients wait in a backlog nobody
  serves.
* `cmdfiles_refill`: two overlapping first hits both read the disk, and the later
  store wins.

### Bounds, and why they are enough

* Server: a slot is contended as soon as there are more connections than places,
  and a leak or a double release shows at once in the equation between `sem` and
  the set of holders; three connections over two places do (they may be
  exchanged for one another, which `SYMMETRY` uses). A second device is there for
  the refuse profile, and for a driver that does not authenticate.
  Channels are left out of the admission run and connections reduced in the
  others, because a shell only touches its own connection: its outcome and
  its wire. The proofs lift the safety properties to any number.
* `MaxAuthTries` is at most 2: one retry and the last one.
* Shell: `MaxKeys = 6` is enough for enable, password, and a command or an exit.
  The words of IOS hold one that is short for three commands, one that is short for
  one, and one (`l`) that is a prefix of a word no command begins with; the theorems
  are about any words. The run has 4 million states, as every one of the client's
  ways to end (`ClientEOF`, `ClientClosesChannel`, `Disconnect`) may come at any step.
* CmdFiles: the caches are per file and per folder, so two sessions (for an
  overlap) and one edit (before, between and after the two reads) suffice. Each
  version of a file is a number of its own, so no two contents are mistaken for
  one another.
* TL1: the requests are the commands the dispatchers tell apart, in strict and
  short form, to the gateway, to remote nodes with an inventory and without, to unknown
  ones, in upper and lower case, and logins
  with and without quotes, with a colon and a semicolon in the password. The
  page size is two, so the configs with four, three and no remote nodes end on a
  full page, a partial page and no page.
* Generator: four devices and two workers with a channel of capacity one make the
  feeder block, the workers overtake each other, and several files fail. Three
  gateways, `RneCounts = {2, 3}`, one city and three indices make two gateways draw
  the same element and give an inner gateway two links.
* Startup: two instances contend for a port, a metrics address or a key file, or
  split the ports of an IP. Two starts of the first and one of the second let one
  be killed while it creates its key and started again, before, during and after
  a second run of the generator. `MaxPort` is 2, so a third port is out of range.
  The hosts lie on the edges of the rules (29 of 30, 30, 99). There is one fleet
  for each way a manifest is refused, and one with two rows for one port.

### Fairness

Only the runs with liveness properties assume any. In `Server`, `Running` is weak
fairness of what the Go scheduler and short timers do by themselves: goroutines that
can go on, `Accept` on a closed listener, the 30 s handshake deadline, delays, and the
two ways a hang is told to end. `TimersExpire` adds `hardTimer` and the timeout of the
drain. No run relies on the timer of a hang (`HangOver`), which is set to an hour or
more and would hide a hang that nobody ends. Nothing is assumed of clients: nobody has to
dial, type, read or hang up, so a read or a write of a shell only returns for sure
when its connection is broken.

`server_sessions` and `server_backlog` use both (`FairSpec`).
`server_hang` uses `PromptSpec`, in which no long timer ever ends: what
`HangsDoNotHoldShutdown` promises must come about before. In `Generator` each goroutine
that can go on does.

## Proofs

`ServerProofs` assumes only `ServerAssumption` of `Server`: finitely many
connections, a positive cap, and well-typed tables. It proves

* `TypeCorrect`: `Spec => []TypeOK`.
* `AccountingCorrect`: `Spec => [](SlotsAccounted /\ CountersBalanced)`. With `TypeOK` this is
  inductive. The counters are compared with cardinalities of sets of connections,
  so the work is in one lemma (`CountMove`): when one connection changes its
  phase, the cardinality of the set of connections in some phases changes by the
  difference that this one makes. Every action of `handleConn` is an instance.
* `CountersCorrect`: `Spec => []CountersBalanced`, its second half by itself.
* `DrainCorrect`: `Spec => []DrainIsFinal`. `DrainIsFinal` is not inductive by
  itself: that no connection is `dialed` or `accepted` any more rests on the
  listeners being closed and the accept loops being gone, which `DrainInv` adds,
  and that a drain means an empty set of sessions rests on `CountersBalanced`.
* `ServerImplementsSlots`: `Spec => ImplementsSlots`. Each action is mapped to a step of
  `SessionSlots` or to a stutter, under the accounting invariant (a `TakeSlot`
  needs room in the abstract pool) and an invariant on when labels are recorded
  and shells can exist (`LabelsCorrect`).

`CmdFilesProofs` assumes `CmdFilesAssumption` (there is a file name, the tables
are well typed) and proves every property that `cmdfiles_cache` checks, for any
number of sessions, folders, commands and edits:

* `CacheTypesCorrect`: `Spec => []TypeOK`.
* `CachesBounded`: `Spec => []CachesAreBounded`. A cached file was looked up by a session, so
  the invariant needs to know of lookups on their way (`PastTheChecks`): beyond
  the check of the slug it is safe, beyond the listing the host is listed.
* `CachesTransparent`: `Spec => []QuietDiskIsTransparent`. What lookups have read and not yet
  stored must be right too (`AsOnDisk`), since the later store wins.
* `CachesSettled`: `Spec => CachesSettle`, an action property that holds of every step from
  a well-typed state.

`ServerLabelProofs` goes on from `ServerProofs` (same assumption):

* `ResetsCorrect`, `LabelsMeaningful`: `Spec => []ResetIsNeverOk`,
  `[]LabelsMeanWhatTheySay`. A label is read from `outcome` only when the deferred
  closure runs, so neither is inductive. `LabelInv` says the same of `outcome` before
  (`Challenged`, `ResetsBlamed`, `ShellsBlamed`), and that the connection of a shell
  whose `handleConn` has left its loop is down: otherwise such a shell could reset
  it after the label is out.

`ShellProofs` assumes `ShellAssumption` and `CommandsAssumption`, for any words, keys
and devices:

* `SessionTypesCorrect`, `ObservationsCorrect`, `EchoCorrect`, `CutCorrect`,
  `HangCorrect`, `EndCorrect`: all the properties of `shell_session`. Types carry most
  of them. The echo rests on a lemma about one byte (`PressKeeps`), the hang on the
  flag `hung` going with the one hang there is. The end rests on nothing being blamed
  before `Serve` returns (`EndLabels`), so that the label is that of the step it returns
  by, and on
  `ResolvesToExit`: of the rows a line abbreviates none may be another command, so the
  line's only word is short for words that say exit.
* `AbbreviationsAreUnique`: for any `Fits`, `ResolveCommand` takes a command that is
  spelled out for itself ("Exact-canonical matches always win outright"), and another
  line for a command only if no row of another command fits it. It rests on the rows
  of one command being one row, or single words (`OneRowEach`).

`TL1Proofs` assumes `TL1Assumption`, for any config files, names, requests, slips and
page size: words have no TL1 punctuation in them, and a request is what TL1 calls
one (a semicolon or a leading quote inside of it is in a quoted string). It proves
all the properties of `tl1_session`:

* `RequestsParseAsMeant`: what `parseTL1` and `validTL1Login` cut from the text of a
  request is what was meant. The text is a row of fields with colons between them
  (`Then`), so the proof goes field by field: the first colon of `Then(f, rest)` is the
  one after `f`, and the n-th after that is the n-th of `rest`.
* `CommandsAreReadWhole`: `Spec => []CommandsArriveWhole`, from an invariant on what is in
  the buffer (`ReadingInv`): it holds the bytes of the request that were typed, and the
  one mistyped, if any; `inQuote` is the parity of the quotes among them. Erasing a
  quote must restore it, which is where the mutant of `Erase` fails.
* `SessionTypesCorrect`, `GateHolds`, `TagsAreEchoed`: `Spec => []TypeOK`, `[]LoginGate`,
  `[]RepliesAreCorrelated`, each return of a dispatcher compared with the request it
  was read from by the two results above.
* `InventoriesAreTheirOwn`: `Spec => []NoStrangersInventory`, which is about streamed
  lines; for synthesized answers it does not hold (see below). No marker lies between a
  marker and the `NextMarker`, so a section holds lines of its own node only.
* `PagingIsWhole`: `Spec => []PagesAreWhole`. Page k is the slice of the neighbours from
  (k - 1) `PageSize` on, so the pages joined are the list, by induction on the pages,
  and the list is the TIDs of the file in order, by induction on its lines.

`StartupProofs` assumes `StartupAssumption` (rows and rules are finite sequences, tables
are typed, points are percentages, files hold what some run wrote or nothing), for
any number of instances, starts and generator runs:

* `MapsCorrect`: `Spec => []MapsFollowTheListeners`, from `MapsInv`: before a port can be
  open, every device is either still to be mapped or mapped.
* `HostKeyCorrect`: `Spec => []HostKeyNeverChanges`, from `KeysInv`: a key that was shown is
  in the key file, as the only writer of the file is the instance itself, and it
  writes only where it read that there was no key.
* `ConfigsCorrect`: `Spec => []ConfigsMatchTheManifest`, from `ConfigsInv`: a run touches
  files only before its manifest is begun (`Published`), and a process that has read
  the manifest of that run, whole or not, has since mapped files nobody touches
  (`AsPublished`).
* `StartupTypesCorrect`: `Spec => []TypeOK`, from `TypesInv`: the devices are rows of the
  manifest the process has read (`RowTypes`), so what is mapped is what a file holds,
  and profiles are those `ProfilesOK` and `FlagsOK` let through.
* `PortsCorrect`: `Spec => []PortsAnswerForTheirRows`. That a host falls to at most one
  rule, which is the one `Assign` picks (`OneRule`), rests on the edges growing from
  rule to rule (`EdgesGrow`), by induction on the rules; that a port answers with what
  was resolved for its row on `Answers`, which holds from the checks of `New` on.

`GeneratorProofs` assumes `GeneratorAssumption`, for any number of devices, workers and
places in the channel:

* `ManifestCorrect`: `Spec => []ManifestNamesWholeFiles`. That files are whole must follow
  from the workers being done, so the invariant follows each device that was fed
  (`Followed`): it is in the channel, with a busy worker, or finished; and it is only
  in one of these places (`Once`), or a second worker would truncate a finished file.
* `AddressesCorrect`: `Spec => []AddressesAreUnique`, from the rows being those of the
  devices in order, and division with remainder.
* `RunTypesCorrect`: `Spec => []TypeOK`, from the same invariant.
* `ElementsCorrect`: `Spec => []SharedElementsAgree`. Every inventory in `behind` is one
  `buildCienaGNE` may build for its gateway (`ElementsInv`), and TIDs of the three kinds
  (of a link, of a city, of the gateway itself) are never equal to one another, as no
  city is called LINK.
* `SharesCorrect`: `Spec => []SharesAreKept`. The shares that were rounded down do not add
  up to more than the fleet (`TotalBound`, by induction on the models), so the
  remainder that the heaviest model gets is a number, and what was dealt adds up.
* `CountsAddUp`, `FleetCanBeDealt`: for every valid command line the counts of
  `stratifiedCounts` add up to the fleet ("Guarantees sum == total"), and there is an
  assignment with these counts, so `Prepare` always has one to choose: the models one
  after the other, as `buildAssignments` lays them out before it shuffles them.

`Recursion` has what lets these proofs use induction. The library's induction
theorems take a predicate as parameter, which the provers cannot instantiate; its
theorem that every nonempty subset of a well-founded order has a minimal element
takes a set, and from it follow `LeastElement`, `GreatestElement`, `Induction` over a
set of numbers, and that the functions recursive definitions choose exist
(`RecursionIsDefined`, `SumIsDefined`). For this the operators that compute over
sequences (`OrderOf`, `Total`, `Edges`) are recursive functions, not folds.

Model-checked only is liveness under fairness (that of `server_sessions` and
`server_hang`, and `RunReturns`), which is out of the prover's reach. The four
violations are counterexamples and need no proof.

## What is left out of the models

* `x/crypto/ssh` and the kernel, as far as the code's calls do not return from
  them: a handshake succeeds, fails as rejected or fails otherwise; a write
  succeeds or fails; a closed connection fails reads.
* Durations. A timer that runs may fire at any time; a delay ends at some time.
* Bytes. Prompts, canned answers, payloads and where a config is cut or corrupted
  are not modelled, except that a TL1 answer remembers which lines of which
  section it streams, and whether it holds the gateway's serial number.
* The contents of configs (`build.go`, `data.go`, the optical builders, the
  templates): a seeded random generator filling in text, without state or
  concurrency. Only the remote elements of a Ciena gateway are modelled, since
  gateways must agree on them.
* The text of flags, fault lists, profile rules and durations: a command line is
  accepted or refused. Shares are whole percentages, where the code adds floating
  point numbers.
* Logging, the Prometheus registry, the deployment scripts beyond the unit that
  restarts an instance, the scenarios.
* Arithmetic of delays: `applyResponseDelay` may shorten a base delay of more than
  60 s when the slow_response fault strikes (`driver.go:140`).
* `isAuthFailure` matches the text of the library's error: for a connection that must
  authenticate and has not, both results are allowed.
* That nobody is let in unless the callback accepted a password is `x/crypto/ssh`'s
  promise; `HandshakeOK` takes it for granted, so no property states it.

Some observations made while modelling are not runs of their own, because nothing
the models are checked for depends on them:

* A host key file that was created and not completely written keeps the instance
  from starting until it is removed (`ReadKey`).
* An instance that maps files while the generator runs may serve files of two
  runs, if its manifest is that of the earlier one; this is why
  `ConfigsMatchTheManifest` speaks of the latest one only.
* `README.md:1359` says that device N always shares a link with device N+1, which
  holds if both are Ciena gateways; of two adjacent devices of which one is of
  another model, the gateway lists a link that nobody shares.
* `RTRV-SYS` of a remote node, and `RTRV-EQPT` of one with an empty section, are
  answered under its SID with the serial number of the gateway (`serial` of
  `Report`), though `driver_ciena.go:74` says that a command carrying the TID of a
  remote node is routed to that node's data. `NoStrangersInventory` is therefore
  about streamed lines only.
* The comment at `session.go:176` says that the LF of a CR LF is swallowed. It ends a
  line of its own, so after `enable` it is an empty password (`Press`).
* Draws that hit an element that is already listed are dropped, so a gateway may
  front fewer elements than were drawn.

## Plan

Done, in this order: `Server` with `SessionSlots` and `ServerProofs`, `CmdFiles`
with `CmdFilesProofs`, `Shell` with `LineEditor`, `TL1` with `TL1Command`, `Generator`,
`Startup` with `StartupProofs`, `Commands`, the remote elements of `Generator`,
`ServerLabelProofs`, `ShellProofs`, `GeneratorProofs`, `Recursion` with `TL1Proofs`, and
the rest of `GeneratorProofs` and `StartupProofs`. Every safety property of a passing
run is now a theorem.

Next:

1. The arithmetic of `applyResponseDelay` as a function on bounded inputs.
2. The one random generator the channels of a connection share.
