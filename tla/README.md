# Verification of confluent-kubernetes-playground

The repository is a playground of Kubernetes deployments of the Confluent
platform. Almost all of it is declarative (custom resource definitions,
Kustomize overlays, dashboards). The programs in it are a network benchmark in
Go, a Kafka admin runbook in Python and a few shell scripts; the specifications
here are about those programs.

## 1. Inventory

Paths are relative to `src/`; `nptest.go` is
`stable/network-benchmark-testing/docker/nptests/nptest.go` and `launch.go` is
`stable/network-benchmark-testing/docker/launch.go`.

### Network benchmark: orchestrator (`nptest.go`, mode `orchestrator`)

* State, all of it in memory: `workerStateMap` (idle flag and IP of each worker
  that has registered), `testcases` (table of cases; `MSS` and `Finished` are
  the progress of each sweep), `currentJobIndex`, `dataPoints`,
  `dataPointKeys`, `datapointsFlushed`, and what was printed.
* Operations: the RPCs `RegisterClient` (enrol, or hand out the next
  measurement, or print the report) and `ReceiveOutput` (file a point). Each
  runs in a goroutine of its own and under `globalLock` from start to end.
* Hard: `ReceiveOutput` does not look at who calls or what was run. It files
  the output under `currentJobIndex` and under the MSS of a sweep that was
  advanced when the work was handed out. That is right only as long as nothing
  else is handed out between a hand-out and its output.
* Correct when: measurements never overlap; each point carries the label and
  the MSS it was measured with; the report has every point of every sweep, in
  order, under the right X-axis; the report comes.

### Network benchmark: workers (`nptest.go`, mode `worker`)

* State: where the process is in `startWork`, the work item, the connection,
  whether the servers run, the Pod's IP.
* Operations: dial, register (poll), start the servers, run a client program,
  send its output, cool down. A failed `RegisterClient` leads back to dialling;
  a failed `ReceiveOutput` ends the process (`log.Fatal`).
* Hard: three workers poll independently; replies get lost; containers end and
  come back with the same name; Pods are replaced and come back with the same
  name and another address.
* Correct when: a worker that takes part runs its servers; the address under
  which the others reach it is its own; nothing a worker loses stops the
  campaign.

### Network benchmark: launcher (`launch.go`)

* State: the loop over the iterations, the name of the orchestrator Pod; the
  cluster's controllers, Pods and services are its environment.
* Operations: `cleanup`, `createServices`, `createRCs`, the wait for the
  orchestrator Pod, the polling of its log, `processCsvData`.
* Hard: errors of the cleanup are only printed; a controller makes Pods behind
  the launcher's back; the Pod found can be the one of an earlier iteration; the
  Pod polled can be gone.
* Correct when: the results written for an iteration are those of that
  iteration; every iteration ends.

### Kafka admin runbook (`incubator/disaster-recovery-replicator/scripts/test-runbook.py`)

* State: the futures that the admin client returns, the callbacks attached to
  them, the counter and the event of `WaitZero`; the broker's configurations are
  its environment.
* Operations: one per run of the script. The batches (`create_topics`,
  `delete_topics`, `create_partitions`, `create_acls`, `delete_acls`,
  `alter_configs`) send all requests and wait for the futures in turn;
  `delta_alter_configs` chains a describe callback to an alter callback for each
  resource and waits on a latch. The describe and list operations print.
* Hard: a callback runs in the client's background thread, or in the main thread
  when its future is complete already; a hand-made latch whose `decr` and `wait`
  leave the lock between the counter and the event; a callback that raises;
  read-modify-write of a configuration that others write too.
* Correct when: the counter counts every resource once; the wait ends when and
  only when all alterations have an outcome; an alteration changes the supplied
  entries only; what is printed is true and no outcome is passed over.

### Quota manager (`incubator/quotas/quota-manager/default`)

* State: the mounted definition, the brokers' quotas, the variables of the
  script (which are assigned again for each principal).
* Operations: list the principals, read one field after the other with a `yq` of
  its own, build the command, run `kafka-configs`, go on whatever came of it.
* Hard: the definition can change between two reads; a command can fail before
  or after the brokers did it, and its exit status is not looked at; the Job's
  container can end and begin again; entries that were removed stay set.
* Correct when: a run in which nothing failed or changed has set its whole
  definition, whatever came before; no principal gets another's rates; an entry
  is set as a whole.

### Everything else

Monitoring scripts, the cluster linking script, Vault scripts, build tooling,
the schema registry test clients, OPA policies, CFK bases and overlays:
stateless, linear or declarative. `PROJECT.json` gives the reason for each.

## 2. Plan

In order of importance. All of it is done.

1. `NetPerfTypes`, `Orchestrator`, `Worker`, `NetPerf`: the benchmark without
   failures. `Campaign`: what it promises.
2. `NetPerfFaults`: the same in a cluster that fails. `LossyCampaign`: what is
   still promised then.
3. `Cluster`, `Launcher`: the iterations of the launcher against a namespace
   with controllers, Pods that are lost and what earlier launchers left behind.
4. `AdminClient`, `AdminBatch`, `DeltaAlterConfigs`, `Runbook`: the runbook, with
   a concurrent writer. `ConfigUpdate`: what a delta alteration promises.
5. `QuotaManager`: the Job, its retries, definitions that change.
6. Theorems about each of them, the refinements included (section 5).

## 3. The modules

| module | models | how it corresponds to the code |
| --- | --- | --- |
| `NetPerfTypes` | the structs of the RPCs and the table | `Testcases` is the table of `init`; a Pod IP is the pair of a worker and the number of its Pod; a work item's `test` field is a history field that no action reads |
| `Orchestrator` | the package variables and the two handlers | one operator per handler; the branches of `RegisterClient` are `Enroll`, `StandBy`, `Allocate`, `Conclude`; `FlushDataPointsToCsv` appends to `stdout` |
| `Worker` | one process per worker | `pc` is the place in `startWork`; one action per step between two RPC events |
| `NetPerf` | both, without failures | a call is sent by an action of the worker, handled atomically (`HandleRegister`, `HandleReceive`: the handler under `globalLock`), its reply taken by another action of the worker |
| `Campaign` | what a run promises | measurements one at a time, in order, all before the report |
| `NetPerfFaults` | the cluster's failures | one action per kind of fault and one per error path of the worker; `HandleLate` runs the handler of a request whose connection is gone; `disturbed` records that the orchestrator was restarted or handled such a request |
| `LossyCampaign` | what a run promises in a failing cluster | a measurement in progress may be lost or taken again at once; order, exclusion and the report as before |
| `Cluster` | the namespace (external, except for the names that `launch.go` gives) | controllers that make a Pod when none has their label, service addresses that are never given out twice, a campaign that reports when every worker can reach the orchestrator |
| `Launcher` | `launch.go` | `pc` names the next API call; `todo` is the rest of the list a loop runs over; a failing call is a disjunct of its own (`ListFails`, `DeleteFails`, `CreateFails`, `WriteFails`) |
| `AdminClient` | the client library (external) as the runbook uses it: futures, requests in flight, the broker | `Apply` is the broker handling a request, `Resolve` its result reaching the future, or a failure |
| `AdminBatch` | the operations that send one batch | `Survives` says which exceptions the loop of which operation catches |
| `DeltaAlterConfigs` | `example_delta_alter_configs` and its class `WaitZero` | two threads, `main` and `background`, that both run callbacks; each statement of `decr` and `wait` outside the lock is a step of its own |
| `ConfigUpdate` | what `example_delta_alter_configs` promises | each resource changes at most once and only in its supplied entries, unless another client wrote an entry in between |
| `Runbook` | the script | the two above, the rejection of a call, and another client that writes |
| `QuotaManager` | the Job and `apply-quotas-script.sh` | one step per `yq` and per command; `Crash` is a container that ends, `RunAgain` the operator who creates the Job again |
| `NetPerfProofs`, `NetPerfOrderProofs`, `NetPerfCampaignProofs`, `NetPerfReportProofs`, `NetPerfFaultsProofs`, `LauncherProofs`, `RunbookProofs`, `QuotaManagerProofs` | | theorems and the lemmas they rest on |
| `MCNetPerf`, `MCNetPerfFaults`, `MCLauncher`, `MCRunbook`, `MCQuotaManager` | | constants for TLC |

Abstractions: what a client program prints, and the bandwidth parsed from it
("0" after a failure), is the measurement that was run, `from`, so that a
property can ask whose output a point is. Labels are indices into the table.
Times (5 s polls, 10 s cooldown, 1 s after a server start) are left out: any
step may come at any time. `sentServerItem`, the output file and the log lines
are never read by the program and are left out. The second loop of
`allocateWorkToClient` (lines 309-313) cannot leave early, because the first
one only falls through when every case is finished; `AllFinished` stands for
both.

In `Launcher` the log of a Pod is the bit "it holds the CSV data", and the data
are the iteration whose controller made the Pod (`born`), so that a property
can compare them with the iteration they are written for. Deleting a controller
leaves its Pods (the default for replication controllers in the core API);
a Pod is deleted with a grace period of 0 and so is gone at once; a Pod keeps the
service addresses it was started with. What the benchmark does between the
start of its Pods and its report is `CampaignReports`, one step, possible when
the orchestrator's service and every worker are there and each worker has the
address of that service: modules `NetPerf` and `NetPerfFaults` are about what
happens inside it. `failures` records what has failed, for the properties. A
reply "no Pod yet", "no data yet" or an error of the two waiting loops is a
stuttering step (`WaitOn`).

In the runbook a topic, an ACL or a resource is an element of `Resources`, an
exception is a `KafkaException` ("kafka") or another one ("other"), and a request
carries the configuration it sets (for the operations that have none, no
matter). An alteration replaces the whole configuration: what is not sent goes
back to its default, which is why the script reads before it writes. `raced` is
history: the entries that another client wrote between the reading and the
writing of a resource.

In `QuotaManager` a command is one step with two failing variants, before and
after the brokers changed. An empty `--add-config` always fails.
`published`, `changed` and `failed` are history.

## 4. What is checked

| run | question | result |
| --- | --- | --- |
| `core` | is a campaign without failures exclusive, attributed, complete, of the shape that the README of the benchmark shows, and an implementation of `Campaign`? does it end? | holds |
| `faults` | what survives two faults of any kind, late calls included? | unless the run is disturbed: `OneJobUnlessDisturbed`, `AttributionUnlessDisturbed`, `MeasuredOnce`, `ImplementsLossyCampaign`; a fault costs the report one measurement at most (`FewAreMissing`), never one of a netperf case (`NetperfIsMeasured`), and one worker its servers at most (`FewServersAreLost`); the report is complete if nothing failed (`CompleteWithoutFaults`); disturbed or not, the campaign ends with a report that stays (`EventuallyReported`), whose rows follow the table (`RowsFollowTable`) |
| `restart` | `OneRunAtATime` after an orchestrator restart | violated: worker 3 runs its client, the orchestrator restarts, workers 1 and 2 register again, worker 1 is given the first measurement |
| `lost_point` | `CompleteReport` after a container end | violated: the point of the lost measurement is missing from a report announced as complete |
| `lost_server` | `ServerTriggered` after a container end | violated: the restarted worker is known, is not told to start its servers, and tests against it report 0 |
| `stale_address` | `RegisteredIPIsCurrent` after a Pod replacement | violated: the new address is in the call and is ignored |
| `launcher` | what survives two failures, of any calls, the disk or Pods? | no iteration is skipped or written twice (`ResultsInOrder`); the results are those of the iteration, also when cleanups are cut short, unless a Pod could not be deleted (`ResultsAreCurrentIfPodsGo`, `PodsKnowServices`); nothing is left behind unless a cleanup call failed; the launcher ends unless a Pod was lost or left over (`LauncherEnds`) |
| `stale_results` | `ResultsAreCurrent` when a Pod cannot be deleted | violated: the new controller adopts the old orchestrator Pod and its old report is written |
| `pod_gone` | `ReportIsCollected` when a Pod is lost | violated: the replacement reports, and the launcher polls the name of the lost Pod |
| `runbook` | what holds in every order of calls, callbacks, results, requests and writes of others, with two failures? | the assertion in `decr` (`AssertHolds`); the wait is long enough (`ReturnsWhenAllDone`) and no wake-up is lost (`NoLostWakeup`); `ReportsAreTrue`, `NothingUnreported`; the delta operation implements `ConfigUpdate`; every operation ends unless a callback raised (`OperationEnds`) |
| `wait_forever` | `WaitEnds` with one failure | violated: a describe request fails, `fut.result()` raises in the callback, the resource is never counted and the main thread sleeps for ever |
| `quota` | what holds through crashes, failed commands, changed definitions and repeated runs? | a run that completes has set the quotas of its definition, except those whose command failed (`CompletedRunApplies`); `QuotasWereDefined`, `EntriesAreWhole`; the Job completes (`JobCompletes`), whether or not commands failed |

The seven violated properties are what a comment, a message or an assertion of
the program says; `PROJECT.json` quotes them under "findings".

### Bounds, and why they are enough

* `core` is not reduced: the 18 cases and the MSS constants of the code, three
  workers (the code has three names), every interleaving of their polls.
* `faults`: two workers and three cases: a netperf case, a sweep of two points,
  and a netperf case of the other worker. That is every branch of the two
  handlers; the last case is of netperf, as in the code; and an output of the
  first can be handled so late that the last is current. `MaxFaults` is two, of
  any kind at any moment: enough for a fault during the recovery from another. The theorems of section 5 have no such bound. `restart` uses three
  workers and two cases, because a second run needs a source that is neither the
  lost worker nor its destination. The violated runs need one fault.
* `launcher`: two workers, two iterations, `MaxFaults` two: what can go wrong in
  an iteration comes from the one before it or from an earlier launcher, and
  `Init` has an empty namespace and one in which an earlier launcher was killed
  after its report, each with and without `-cleanup`.
* `runbook`: two resources (one callback in each thread at the same time) of two
  entries, one of them supplied; the two configurations at the start are
  all-default or all-set (`InitialConfigs`); `MaxFailures` two, `MaxWrites` one.
  `wait_forever` has one failure and no other writer.
* `quota`: the default entity and one user, four definitions that drop an entry,
  drop a field, hold an entry without fields and change a rate. `MaxUpdates` two (a definition
  that changes and changes back), `MaxCrashes` one (the Job gives up after six),
  `MaxFailures` one, `MaxRuns` two.

Deadlock is checked for the benchmark, whose workers poll for ever; the
launcher, the runbook and the quota Job end, so their runs say `CHECK_DEADLOCK
FALSE`, and a property says that they end.

### When the benchmark is disturbed

A restart of the orchestrator forgets who is measuring (`restart`). A request
that the server had read before its connection broke, and that it handles after
the worker registered again, is filed under whatever is current then: nothing in
`ReceiveOutput` relates an output to the hand-out it belongs to. After either,
exclusion, attribution and the order of the points of a row can all fail, and so
can the bounds on what is missing. The properties of `faults` that end in
`UnlessDisturbed`, `MeasuredOnce`, `FewAreMissing`, `FewServersAreLost`,
`NetperfIsMeasured` and `ImplementsLossyCampaign` except them. Two things survive
even that and are stated without exception: the campaign ends, and the printed
rows follow the table.

In such a run even a netperf case can be missing from the report. Its output is
handled late, after the case was taken again and the next one, of netperf, too,
was handed out: `ReceiveOutput` files it under that next case and finishes it
(`nptest.go:456`, `490-496`). If the worker that has it in hand then dies, nobody
measures it, and the report shows the other case's output in its row.

### Fairness

Benchmark: `WF(Step(w))` for each worker. Each worker is a Pod of its own whose
loop has no wait but its calls and sleeps, and `net/rpc` serves each call with
a goroutine, so a step that stays enabled is taken; no strong fairness is
needed because no other process can disable a worker's step. It includes that a
client program ends: `cmdExec` ignores its timeout, so this is an assumption on
iperf3 and netperf and not a property of the code. In `NetPerfFaults` it also
includes that the kubelet restarts a container and a replication controller
replaces a Pod, and a goroutine that handles a late request gets its turn.
Faults are not fair and are bounded.

Launcher: the launcher itself (it never waits but in its two loops), each
controller and the campaign are weakly fair; the failures are not.
`LauncherEnds` excepts two kinds of failure. A lost orchestrator Pod hangs the
launcher (`pod_gone`). A worker Pod that could not be deleted does too: it is
adopted, knows the address of a service that is gone, and never registers.

Runbook: each of the two threads, and the broker for each resource, are weakly
fair; failures and the other writer are not. Quota manager: the script is
weakly fair; crashes, changes and new runs are not, and are bounded.

## 5. What is proved

`PROJECT.json` lists the theorems. They hold for every value of the constants
that satisfies the named assumptions of the modules, so for any number of
workers, cases, resources, principals, faults and retries.

**Benchmark without failures** (`NetPerfProofs`, assuming `NetPerfAssumption`:
there is a case, its MSS is at most `mssMax`, the step is positive). Types,
`OneJobAtATime`, `Attribution`, `ServerTriggered`. The two in the middle are not
inductive. `IInv` adds the orchestrator's view. At most one registered worker is
not idle (`BusyUnique`); every worker that holds a measurement is registered and
not idle (`HolderIsBusy`); what it holds is `currentJobIndex` with the MSS that
`ReceiveOutput` is going to compute (`HolderIsCurrent`). A hand-out happens only
when every other worker is idle, hence when nobody else holds anything, and it
makes the new item current; `StandBy`, `Enroll` and `Conclude` touch neither the
sweep nor anybody else's flag; `ReceiveOutput` then finds its own measurement.
`ServersFollowEnrollment` is the invariant for the servers: an enrolled worker
runs them or still has the server item in hand.

**Order** (`NetPerfOrderProofs`, lemmas for the sections below). `OrderInv`: the
sweep of a case is ahead of its points, and of the measurement in progress by
exactly one step; the cases before the current one are finished and none behind
it has points. So the points of a row increase and the rows follow the table. The
part about the table alone (`TableInv`) mentions no worker: the handlers keep it
whichever requests come, from whom and in whatever order.

**Refinement** (`NetPerfCampaignProofs`): `NetPerf` implements `Campaign`.
`CInv` adds that the measurements below the position of a sweep are exactly
those recorded or in progress, and that a netperf case is finished by its one
point.

**Report** (`NetPerfReportProofs`): `CompleteReport`, assuming `SharedAxis`: all
sweeps of more than one point begin with the same MSS, as they do in the table
of the code. The assumption is needed because the header of the report is the
axis of any one row with more than one point, by the iteration order of a Go map.
The invariant `RInv` says where the points of a sweep are (`PointsFollowSweep`:
point *i* is at the first MSS plus *i* - 1 steps) and that what was printed is
what the orchestrator still has. So the length of a row follows (`RowLength`: its
last point is the last MSS that is not above `mssMax`), and with the table and
the constants of the code, whatever its workers are called, the shape that the
README of the benchmark documents (`ReportIsAsDocumented`).

**Benchmark with failures** (`NetPerfFaultsProofs`): types, and until the run is
disturbed `OneJobAtATime`, `Attribution`, `MeasuredOnce`. A
fault only takes a measurement away from a worker (`LosesOnly`), and the
orchestrator goes on counting that worker as busy until it registers again, so
`IInv` and `OrderInv` survive. The same module proves that `NetPerfFaults`
implements `LossyCampaign` until the run is disturbed. Of `CInv` this needs
`SweepPosition` alone: what is recorded may now have gaps, but what the
orchestrator's table has open, with the measurement in progress, is still what
is left of the plan.

Disturbed or not, a restart begins with an empty table, and a request of the past
is one more call of a handler: `TableInv` holds throughout. With it
`TableReportInv` (the printed rows are in the order of such a table) gives
`RowsFollowTable` without exception.

How much is lost (`FewAreMissing`, `FewServersAreLost`) needs an account. A
container that ends takes what its worker has at once, but a broken connection
takes it later, when the worker next uses it, and by then another fault may have
happened. So the invariant (`Budget`) counts the workers whose connection is gone
and that have not noticed (`Doomed`) together with what is lost already: the sum
is at most the number of faults. A fault adds one to one of the two, a doomed
worker moves from the first to the second, a redial gives nothing back, and no
other step adds to either; of the two kinds of measurement, netperf is even
taken again. `PrintedIsCurrent` relates the account to the report: what was
printed is what the orchestrator still has, so every measurement it has recorded
is printed. A netperf case is never what a fault costs
(`NetperfIsNeverLost`): `TableInv` says that a finished netperf case has a point
with MSS 0, `Attribution` that this is its own output, and a report is printed
when all cases are finished.

The violated runs `lost_point` and `lost_server` show that one fault does cost a
measurement or a worker's servers; these theorems say that it never costs more,
for any table, workers and number of faults. Before the first fault nothing is
lost at all: `FaultlessIsNetPerf` proves that up to then the run is one of
`NetPerf`, and `CompleteUnlessFaults` that a run without any has a complete
report (assuming `SharedAxis` as above).

**Launcher** (`LauncherProofs`, assuming `LauncherAssumption` and that worker 2
exists): all its safety properties, for any number of workers, iterations and
failures. Results belong to their iteration because services are deleted after
Pods, and creating one that exists ends the tests: when the first service of an
iteration can be created, cleanup got as far as the services, so every Pod was
deleted or has a controller that was not; and creating that controller again
ends the tests, too (`PodsGo`). Nothing is left behind because each loop of a
cleanup without failures empties what it lists (`Cleaned`).

**Runbook** (`RunbookProofs`): types, and with them that the counter of
`WaitZero` stays between zero and the number of resources; the assertion in
`decr`; `ReturnsWhenAllDone`; `ReportsAreTrue`; `NothingUnreported`;
`NoLostWakeup`; and that the delta operation implements `ConfigUpdate`. The
invariant (`Latch`): the counter is the number of resources that are open, those
without an outcome and those whose callback has not counted them yet; and no two
threads are in a callback for the same resource. The counting uses the library's
theorems on finite sets. `NoLostWakeup` is the part of `OperationEnds` that is a
safety property: the main thread never sleeps with nothing left to wake it,
unless a callback raised. Its invariant (`Waiting`) says that every callback was
added before the wait, that the main thread falls asleep only after it saw an
uncounted resource and the thread that counts the last one is about to set the
event. So a sleeper that nobody is about to wake has an open resource, and
`Merging` leads from there to an answer that is due or to the callback that
raised.

**Quota manager** (`QuotaManagerProofs`): types, `QuotasWereDefined`,
`CompletedRunApplies`, `EntriesAreWhole`. The invariant follows one principal
through the loop: while the definition does not change, what has been read is
its entry so far, what is written is its whole entry, and who is neither
waiting, in hand nor failed has been set.

Only model-checked: the liveness properties (`EventuallyReported`,
`LauncherEnds`, `OperationEnds`, `JobCompletes`), because liveness under fairness
is out of reach of the prover. Every other property of a passing run is stated by
a theorem.

## 6. What is not modelled

* Real time, hence the race between the start of the servers and the first
  client (one second in the code, `nptest.go:626`), and a client program that
  never ends (`nptest.go:690`). Both are hazards without a property.
* A quota command that fails in a Job that completes all the same: the script
  looks at no exit status. The model has it, and `CompletedRunApplies` confines
  the damage to the users whose command failed, but no document or comment says
  that a completed Job has set every quota, so nothing is stated about it.
* A resource named twice in the runbook's arguments: the latch counts the list of
  resources, the broker answers each once, and the wait would not end. The model
  takes the arguments as a set. This is a hazard without a property as well.
* The launcher's choice of nodes, its creation of the namespace (whose failure
  it ignores) and the two markers it looks for in the log.
* The operations of the runbook that describe and list: they change nothing and
  only print. Its parsing of arguments.
* The text of outputs and logs and the regular expressions that parse it.
* Everything listed as `not_modelled` in `PROJECT.json`: linear shell scripts,
  build tooling, and declarative files without a program.
