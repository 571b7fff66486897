# SunStorm xactserver: TLA+ models, model checking and proofs

SunStorm is a geo-partitioned database. Each region runs a PostgreSQL on its own
Neon storage and next to it an **xactserver**. A transaction that touches several
regions is executed optimistically in one of them; at commit, PostgreSQL hands the
read/write set to its xactserver, which gets it validated, prepared and committed
in all regions it touches. Around it, Python tools set clusters up, run benchmarks on
them and collect the results. This directory models the commit protocol and the tools,
checks them with TLC and proves their main safety properties with TLAPS.

## 1. Inventory

### Components of the xactserver (`src/xactserver/src`)

| Component | State | Operations | Correct when |
|---|---|---|---|
| PostgreSQL watcher (`pg/watcher.rs`) | one connection waiting on a `commit_rx` | `process_query`: pass the transaction on, wait, answer | every waiting connection is answered or gets an error |
| Manager (`manager.rs`) | map from transaction id to the channel of its task; id counter | `process_message`: give the message to the task, creating it the first time | a late message never restarts a finished transaction; ids are unique |
| Transaction task (`XactStateManager`) | an `XactType`, a channel of messages | `handle_local_xact_msg`, `handle_prepare_msg`, `handle_vote_msg` | the task ends, and with an error only if something outside it failed |
| Transaction state (`xact.rs`, `xact/state.rs`) | status, voters counted so far, early votes | `initialize`, `add_vote`, `try_finish` | the decision is that of the first decisive vote, and final |
| Controllers (`pg/controller.rs`) | what PostgreSQL holds: nothing, prepared, committed | `execute` (validate, PREPARE), `commit`, `rollback` | all regions commit or none |
| Peer RPC (`node.rs`) | calls in flight, pools of connections | `prepare`, `vote`: put the message into `remote_rx` and reply | what is sent is delivered at most once |
| Decoder (`decoder.rs`) | none | `RWSet::decode`, `decode_rest` | rejects, and never panics on, a malformed buffer |
| Ids (`id.rs`) | none | packing of counter and node into 64 bits | round trip |
| Process (`bin/xactserver.rs`) | four threads and a cancellation token | start, stop | any thread's end stops all |

`metrics.rs` counts and times; nothing reads it back. `pg/fake.rs` is a test double.

### Tools (`src/tools`)

| Component | State | Operations | Correct when |
|---|---|---|---|
| Experiment cases (`benchmark_args`) | the experiment file | combinations, replacement rules, metadata and tag of each case | a tag tells its case; rules apply in order |
| Experiment runner (`experiment.py` `main`, `Progress`) | the progress file and its copy in memory, a counter of executions until the next reload | start, skip, create, load, execute, save | resumed at any point it neither repeats nor forgets a case, and after a failure it has seen never runs on a half loaded database |
| Result collector (`experiment.py`) | a thread pool, a count of collections | `submit`, `_collect`, `collect_region`, `join` | `join` returns, after everything was downloaded |
| Benchmark driver (`benchmark.py`, `Kube.print_logs`) | the jobs in the cluster, threads that follow logs, an exit event | create, load, sload, execute, delete | the result is that of the job this call started, and the call returns |
| Deployment (`deploy.py`) | load balancers, DNS, namespaces, releases | five stages, from any to any | what a run came through is complete and new |
| Local cluster (`neonctl.py`) | directories, endpoints, pid files, processes | create, start, stop, destroy | one reachable server per region, and servers that number the regions alike |
| Clones (`neonclone.py`) | ports and ids in two files and on disk | copy, edit, rename | a clone is its source moved by the offset; clones do not meet |
| Configuration (`utils.py`, `kubectl.py`) | none; `main.yaml`, `.kube/config` | `get_namespaces`, `get_context` | commands go to the region they are for |
| Monitor, EKS (`monitor.py`, `eks.py`) | none | follow logs, draw tables; run `eksctl` | |

### How the components interact

The watcher sends `LocalXact` (with the oneshot `commit_tx`) through `local_rx`; the
gRPC server sends `Prepare` and `Vote` through `remote_rx`; the Manager forwards both
to the task's channel. The coordinator's task calls `prepare` at every other
participant. Each of those executes and PREPAREs the transaction in its PostgreSQL and
calls `vote` at every other participant. Every task decides alone: commit when all
participants have voted yes, roll back at the first no. Nobody collects the votes
centrally, and the coordinator never votes: everybody assumes its yes.

The experiment runner takes its cases one by one from `benchmark_args`, calls
`benchmark.main` for each and submits its tag to the result collector, whose `join` it
calls at the end. `deploy.py` prepares the clusters that `benchmark.py` uses;
`neonctl.py` builds a local cluster out of clones made by `neonclone.py`. These tools
share no memory; they meet in files, in Kubernetes and among the processes of a machine.

### What is hard

* **Order.** Votes overtake the Prepare they answer, since they come from other nodes.
  They are kept and replayed after the node's own execution.
* **Independent decisions.** Each node sees the votes in its own order, and a node may
  vote no because of somebody else's no.
* **Partial failure.** `try_join_all` drops the remaining calls at the first error;
  errors end the task and nothing is retried, so prepared transactions can be orphaned.
* **Crash.** An xactserver has no durable state; its PostgreSQL has.
* **No timeouts.** A lost vote leaves the others waiting.
* **Sharing.** Transactions share the Manager, the pools and the rows they lock.
* **Ids.** A transaction is known by a counter and a node, and the counter starts again
  at 0 when the server does; messages and prepared transactions of before remain.
* **Resuming.** The tools are interrupted and started again over what they left: a file
  half written, a database half loaded, a namespace half deleted, a stale pid file.
* **Unread results.** Futures and exit codes are dropped, so that a later step meets the
  remains of an earlier one that failed.
* **Threads.** A pool whose tasks wait for tasks of the same pool, a count raised only
  once a thread runs, an event that the last thread must set.

`PROJECT.json` lists these hazards line by line, with the properties that cover them.

## 2. Modules

| Module | Models |
|---|---|
| `XactState` | `xact.rs` and `xact/state.rs` as pure operators on a record (kind, early votes, status, rollback info, voters) |
| `XactVotes` | one such state fed with arbitrary votes, and the reference it is compared with |
| `XactServer` | the protocol for one transaction: watcher, Managers, tasks, network, PostgreSQL, failures |
| `AtomicCommit` | the abstract specification: atomic commitment among regions, one of which may be left in doubt |
| `XactServerInv` | the inductive invariants `IInv` and `SInv` |
| `XactServerProofs` | proofs of `TypeOK`, `IInv`, `Agreement`, `CommitIsPrepared`, `RollbackHasCause`, `VoteOnce`, `ClientIsServed`, `ImplementsAtomicCommit`, `SInv`, `ErrorsAreFaults`, and of `FirstVoteDecides` and `DecisionIsFinal` of `XactVotes` |
| `XactManager` | several transactions and coordinators: ids, tasks found by id, gids in use, restarts |
| `XactManagerInv` | the inductive invariant `MInv` |
| `XactManagerProofs` | proofs of `MInv`, `TypeOK`, `AgreementUnlessReused`, `CommitIsOfThisXact` and `ChannelHasRoom` |
| `Experiment` | the loop of `experiment.py` with its progress file, options, errors, interruptions and restarts |
| `ExperimentProofs` | proofs of its five invariants |
| `BenchmarkArgs` | the cases an experiment file stands for |
| `ResultCollector` | the thread pool that downloads results, and `join` |
| `ResultCollectorProofs` | proofs of `JoinSeesAll` and `NothingLeft` |
| `Benchmark` | calls of `benchmark.py` on a cluster of jobs, and `print_logs` |
| `BenchmarkProofs` | proofs of `StaleHasCause` and `FullResult` |
| `Deploy` | the stages of `deploy.py` |
| `DeployProofs` | proofs of `DnsIsComplete`, `OneClusterPerRun`, `NeonIsFresh` and `NamespacesAreFresh` |
| `NeonCtl` | the commands of `neonctl.py` |
| `NeonCtlProofs` | proofs of `NumberingIsShared`, `RunningIsNamed` and `OneServerPerRegion` |
| `NeonClone` | clones of Neon directories |
| `NeonCloneProofs` | proofs of `TypeOK`, `EndedIsConsistent`, `CloneIsShifted` and `ClonesAreApart` |
| `MC*` | for each model, the values that a `.cfg` cannot write: symmetry sets, sequences, functions |

`XactManager` uses `XactState` (one instance per coordinator), as `XactServer` does.
The modules of the tools are independent of one another: what one tool sees of another
is a call that returns or raises, which is a choice in its model.

### XactServer in detail

`task[n]` is the place at which node n's task is suspended: an await of
`XactStateManager::run`, of PostgreSQL or of the RPCs, or the way it ended. Between
two awaits the code of a task runs as one step, as far as other processes can see:
`HandleLocalXact`, `HandlePrepare`, `Execute`, `AddExisting` (one early vote at a time,
invisible to others), `SendPrepare`, `SendVote`, `Sent`, `HandleVote`, `KeepWaiting`,
`FinishLocal`, `FinishSurrogate`. `Submit` is the watcher, `ManagerLocal` and
`ManagerRemote` the two arms of the Manager's loop, `Deliver` the gRPC server.

Abstractions:

* A transaction is one set of participants; its data is not represented. The reason of
  a rollback is a member of `Reason`.
* `pg[n]` is what n's PostgreSQL holds of the *surrogate* transaction. "aborted" means
  that it holds nothing any more, be it that PREPARE TRANSACTION rolled back, that the
  execution never began, or that ROLLBACK PREPARED was run.
* What the submitting PostgreSQL knows is `client`: waiting, told an outcome, or left
  with an error of its connection, which says nothing about the outcome.
* A channel is a FIFO sequence without a limit. `net` is a set, so calls arrive in
  any order.
* `ballot` and `cause` are history variables: the vote a node has sent, and the error of
  its execution. No action reads them.

Failures (`FaultStep`), each of which the code can meet, at most `MaxFaults` of them:
the read/write set cannot be decoded; PREPARE took effect but its answer was lost; a
call fails, with its message delivered or not, and the calls dropped with it are lost
or not; COMMIT or ROLLBACK PREPARED fails with or without effect; a server is stopped
and started again and has forgotten everything but what its PostgreSQL keeps. An
execution that fails is not counted as a failure: it is an ordinary 'no'.

### XactManager in detail

`XactServer` follows one transaction through every await; `XactManager` follows several
and merges what ids do not concern: the gRPC server, `remote_rx` and the Manager are the
single step `Deliver`, and a call that fails and a restart are the only failures. The steps
of a task are those of `XactServer`: `initialize` counts its votes one by one (`Execute` puts
the own vote before the early ones, `AddExisting` counts the next).
`tasks[n]` is the map of n's Manager from ids to tasks, in which finished tasks remain;
`prepared[n]` is `pg_prepared_xacts`, from gids, which are ids, to transactions. The field
`of` of messages and tasks says which transaction is really meant. No decision of the code
reads it, except that the calls a task waits for are its own. `executed` is a history
variable: what the execution of a transaction at a node returned. `CrashRestart` empties the map and the counter, and keeps the network and
`prepared`.

### The tools in detail

*Experiment.* `pc` is the place of the loop: `NextCase` looks the case up (`Skip`,
`Matching`), `SaveInserted` saves a new record, `Decide` compares the counter, `Create`,
`Load` and `Execute` call `benchmark.main`, `Done` and `Fail` set the status and the
counter, `SaveResult` writes the file. `save()` is two steps, `BeginSave` (the file is
opened and emptied) and `EndSave`; `Interrupt` may come anywhere, and in between leaves
any prefix of the rows. `last`, `saved`, `since_load` and `fresh` are history.
A call of `benchmark.main` that returns need not have done its work: `Load.do` and
`Execute.do` never read the futures of their setups, and `print_logs` ends as usual for a pod
that failed (module `Benchmark` has both). So `Create`, `Load` and `Execute` may return
with nothing done, which the loop cannot tell: the database is then "spoiled", the
execution "hidden". Only a call that raises, or is interrupted, is a failure to the loop.

*BenchmarkArgs.* `combinations` is the list the loop over the parameters builds, each
combination so far extended by each value; `Replaced` folds the rules; `Case` yields a case
with its record and its tag, `Invalid` raises in the middle. `Edit` changes the experiment
file between runs. Names and values are sequences of words, so that a name can contain the
hyphen by which `Tag` joins the names.

*ResultCollector.* One action per step of `_collect` between which another thread may
run: counting, listing the regions, submitting each of them to the pool, waiting,
finishing. `LeaveWait`, `Shutdown` and `Joined` are `join`. When a collection raises, the
futures of its regions that have not begun are cancelled; they stay in the queue and are
dropped when a thread takes them (`cancelled`).

*Benchmark.* `Call` chooses the operation and its options; `DeleteJob` and `ApplyJob` are
`run_benchmark` per job, one after the other in create and sload and in any order where
the code uses a pool; `ReadJob`, `FindPod` and `OpenLog` are `get_job_logs`, where an
`ApiException` costs an attempt and any other exception raises; `EndPrint` and
`DiePrint` are the two ends of a thread of `print_logs`. Each job remembers the call that
applied it, so that stale logs can be told.

*Deploy.* A stage is one phase or several; `todo` holds the regions or namespaces the
phase still has to do, sequentially or in any order, as in the code. The regions are those
listed and the global region, which need not be listed; the namespaces are those of the
regions listed and "global". `known` are the regions whose context is found, any set of
them: for the others `context_flag` leaves the option out, and `get_config` raises.

*NeonCtl.* A command walks through its phases, region by region (`todo`); any of its
steps can fail and end it there. Servers are numbered in the order of their start, which
stands for their pid, and keep the list of nodes (`nodes`) they were started with, in which
their number is a place. *NeonClone* has one action per file that a clone writes, and may
stop between any two.

The definitions whose comment begins "A slip" are variants that no action uses. They
are plausible mistakes in the code; putting one in the place of its original must
violate the property `PROJECT.json` names for it under "mutants".

## 3. Runs

| Run | Instance | Shows |
|---|---|---|
| `votes` | 3 participants and an outsider, 4 votes of any kind | `FirstVoteDecides`, `DecisionIsFinal` (90,272 states, symmetry) |
| `safety` | 3 participants, 2 reasons, 2 failures | all safety properties, `SInv` and the refinement of `AtomicCommit` (338,796 states, symmetry) |
| `live` | 3 participants, no failure | `EventuallyResolved` (12,091 states) |
| `lone` | the coordinator is the only participant | a violation, see below |
| `ids` | 2 nodes that both submit, 2 transactions, 3 failures | `AgreementUnlessReused`, `CommitIsOfThisXact`, `ChannelHasRoom` (114,133 states, symmetry) |
| `exp` | 4 cases, 2 of them with equal metadata, reload every 2, 2 errors, 2 interruptions | `SavedDoneIsSkipped`, `DoneHasReturned`, `ExecutesOnLoaded`, `ReloadOnTime`, `SavedPoint`, `Completes` (484,587 states) |
| `args` | 3 parameters, up to 3 of 6 rules, 4 edits | `RulesInOrder`, `TagTells` (23,343 states) |
| `collect` | 3 cases of 2 regions on 3 threads, 2 failures | `JoinSeesAll`, `NothingLeft`, `JoinReturns` (144,352 states) |
| `bench` | 2 regions and global, 2 calls of any operation, 2 attempts, 1 failure | `StaleHasCause`, `FullResult`, `CallReturns` (155,138 states) |
| `deploy` | 2 regions, one of them global, and the namespace global, 2 runs, 2 failures | `DnsIsComplete`, `OneClusterPerRun`, `NeonIsFresh`, `NamespacesAreFresh`, `RunEnds` (289,877 states) |
| `ctl` | 2 regions and global, 6 commands, 2 failures | `NumberingIsShared`, `RunningIsNamed`, `OneServerPerRegion` (451,833 states) |
| `clone` | 4 directories, offsets 0 to 3, 2 safekeepers | `EndedIsConsistent`, `CloneIsShifted`, `ClonesAreApart` (335,179 states) |

Three participants are the least for which one surrogate's vote can overtake the
Prepare of another and a call can fail for one and succeed for the other. Two failures
allow a crash or error at each of two nodes, or a failed call and a restart of the same
node. Two reasons distinguish a node's own error from one it passes on. Four
participants are out of TLC's reach; the proofs hold for any number. Deadlock is not
checked: when the transaction is over, nothing is left to do, and after a failure tasks
may legitimately wait for ever (see "no timeouts").

`Agreement` and `CommitIsPrepared` say that outcomes agree and that a commit can
always be completed. `RollbackHasCause` traces the reason that a client gets to an
execution. `ErrorsAreFaults` says that every assertion, `ensure!` and `unreachable!()`
of the code is unreachable as long as nothing outside the task fails. `ClientIsServed`
says that no error path leaves a connection waiting on nobody. `VoteOnce` says that a
vote is final. `ImplementsAtomicCommit` says that the protocol with all its failures is
an atomic commitment, the submitting region being "prepared" while it waits and
"indoubt" after an error.

For `ids`, two transactions of one coordinator are enough for an id to be used twice, and
two of different coordinators for equal counters to meet; the third failure allows a failed
call, a restart and another one. In `exp`, a start can be interrupted, resumed, fail and be
resumed again, with the reload due before, at and after the cases in question. In `collect`
as many collections as threads can starve the pool, and one less cannot. In `bench` and
`deploy` a second call or run is what meets the remains of the first. Six commands of
`ctl` allow create, a start that fails, stop, start, a destroy that fails and start. In
`clone` a clone of a clone of a clone exists. Deadlock is checked only in `exp`, whose
program can always be started again; the other tools simply come to an end, or hang where
their liveness properties say so.

Each module of a tool, and `XactManager`, also has a type invariant `TypeOK`. It says what
the variables hold and is no claim about the code, so that no run lists it; it holds on all
these instances (those of `XactManager`, `NeonClone`, `ResultCollector`, `Benchmark` and `Deploy`
are proved).

What the properties say. `AgreementUnlessReused` and `CommitIsOfThisXact` confine what an id
that is given twice can do: without a restart of the transaction's own coordinator, no
remains of any other transaction can make regions disagree, or pass for its votes or its
prepared transaction. `SavedDoneIsSkipped` says that what was saved as done is skipped, and
`DoneHasReturned` that "done" is never said of an execution that raised or was interrupted,
which is all that the word can tell. `ReloadOnTime` and `ExecutesOnLoaded` relate the counter
of the program to the executions since the last load and to what failed meanwhile. `JoinSeesAll` says that the count and
the collections never disagree, `NothingLeft` that none is left in the middle.
`StaleHasCause` names the only ways in which a call can read the log of an older job, and
`NeonIsFresh`, `NamespacesAreFresh` and `DnsIsComplete` do the same for what a run of
`deploy.py` came through; `faults = 0` in `NamespacesAreFresh` means all runs so far.
`RunningIsNamed` says that `stop` can reach every server, and `NumberingIsShared` that no two
servers run side by side for which a node number means different regions, which is what a
transaction id and a vote are about. `EndedIsConsistent` is about clones of anything, half
clones included, the other two properties of `clone` about clones of whole directories.
`TagTells` names the three ways in which two cases can get one tag, each of which happens in
the instance.

Some of these properties state the limits of a weakness of the code and do not deny it.
`SavedDoneIsSkipped` excepts what a cut `save()` lost, `JoinSeesAll` and `NothingLeft` the
collections that came too late, `StaleHasCause` the futures nobody reads and the deletion
nobody checks, `ExecutesOnLoaded` and `DoneHasReturned` the calls that hide a failure,
`TagTells` the three ways named, and the liveness properties of `collect` and `bench` the
hangs listed below. What they show is that there is no other way. `ClonesAreApart` is about
equal servers: a port of one safekeeper can be that of another safekeeper in another clone.

Fairness (`FairSpec`): tokio runs every task that can run, so each Manager and each
task is weakly fair, and a call that does not fail reaches its server. There is no
fairness for `Submit`, since no client must submit, nor for failures. `Completes` assumes
that the experiment is started again, without `--dry-run` and `--skip-create-load`, while
cases are left, and that a started program runs on. `JoinReturns` assumes that the main
thread and the threads of the pool run. `CallReturns` assumes that the tool takes a step
while it can and that each pod runs; `RunEnds` that the tool runs and that Kubernetes
completes the deletion of a namespace. `JoinReturns` and `CallReturns` name the cases in
which the program hangs (`Hopeless`); everything else must end.

### What was found

* **`lone`** `handle_local_xact_msg` asserts that the status is `Waiting` after
  `init_as_local`. With the coordinator as the only participant it is already
  `Committing`, as the unit test `test_1_participant` expects, and the task panics.
* A reason can be passed on: a surrogate whose execution succeeded, but which had
  kept another's 'no', votes 'no' itself with that reason. The client may therefore be
  told the right reason with the wrong region. `RollbackHasCause` is stated
  accordingly.
* If the coordinator is not among the participants, no vote is ever sent to it and its
  client waits for ever, while the participants commit. Nothing in the code excludes
  this; the proofs cover it (safety holds), `live` assumes the coordinator takes part.
* After a failed Prepare call the client gets an error although the surrogates that
  were reached by other calls may decide among themselves. With all Prepares
  delivered they commit: an error at the client does not mean a rollback.
* After a restart of the coordinator, a new transaction gets the id of an old one. A 'yes'
  for the old one that is still on its way is then counted for the new one, which commits
  at the coordinator without having been prepared elsewhere; and a new transaction whose
  PREPARE fails because the gid is in use runs ROLLBACK PREPARED on the old one. This is
  what `Reused` excepts: without it TLC refutes `CommitIsOfThisXact` in 14 steps.
* `save()` empties the progress file before it writes it; an interruption in between loses
  records of cases that were done, which then run again. A dry run records its cases as
  done, in the same file, and the next real run skips them.
* `join` can read the count before a submitted collection has raised it, shut the pool
  down, and leave that case without results. A collection that fails never lowers the
  count, and as many collections as threads leave none for their regions; in both cases
  `join` waits for ever.
* The word "done" and a result do not mean that a case ran: when the setup of a region raises
  in its future, or a pod fails, `benchmark.main` returns and the loop goes on, executes on
  what the load left and records the case as done.
* Two cases can get one tag, and overwrite each other's results: a rule sets a parameter that
  is not in the tag, two values have one name, or a name contains a hyphen.
* A clone that stopped half way can be cloned, without a complaint unless a safekeeper of it
  was already renamed.
* A call of `benchmark.py` never returns when no namespace is chosen, when a thread of
  `print_logs` dies, or when all pods of a job failed before one was found. Load and
  execute go on after a failed setup and may report an older job.
* `neonctl.py start` empties the pid file before it starts the server; if that raises,
  `stop` and `destroy` end with an error while Neon runs on.
* Read in the code, and represented in no module: the metadata of a case does not have the
  `dbtype`, so that after a change of it old successes count; the node ids that
  `deploy.py` gives are ranks, so that with a gap they are not the ids of `main.yaml`;
  directory names are sorted as strings, so that region 10 comes before region 2.

## 4. Proofs

Every safety property of every passing run but `args` is a theorem, for every value of the constants that the named assumptions of its
module allow; the bounds on failures, calls and restarts may be any natural numbers. Each
inductive invariant was first checked by TLC on the constants of the run of its model
(`SInv` is a property of `safety`; `MInv` was checked with two
failures, without symmetry, on 241,166 states). None of the properties below is inductive.

### The protocol

`XactServerProofs` assumes of the constants only that the coordinator is a
node, that participants are nodes, that `None` is neither a node nor a reason and that
`MaxFaults` is a natural number. The coordinator need not be a participant, and the number
of nodes is not even assumed finite.

For `Agreement`, `CommitIsPrepared`, `RollbackHasCause` and `VoteOnce`, `IInv` adds what
they rest on:

* `TrueMessages`: a vote, in the network, in a channel or kept for later, says what its
  sender's ballot says, and a reason is the error of some execution.
* `PrepareOnce`: a Prepare for n is in at most one place and, as long as it is there, n
  has not executed. Together with the next part this is what makes a restart harmless:
  a node that has forgotten its vote never gets a second Prepare.
* `SentOnce`: the single `LocalXact` is in one place, and nothing has happened elsewhere
  until the coordinator sends.
* `TaskMatchesVotes`, `TaskMatchesLabel`: what a task has counted was really voted, its
  own vote excepted between casting and sending it.
* `OutcomeMatchesVotes`: a commit anywhere means that all ballots are yes, a rollback
  that there is a no or an error at that node, and a node with an error never votes yes.

The proof takes one lemma per action (and shared ones for a task that is abandoned,
that stops with a decision, or that only moves). `Agreement` follows from the last part
alone.

`ClientIsServed` needs to know where the `commit_tx` of a waiting client is at every
moment, in `local_rx`, in the channel or with the task (`ClientMatchesTask`): each error path
drops it there. `ImplementsAtomicCommitHolds` shows that the initial states map to initial states of
`AtomicCommit` and that every step maps to a step of it or to none. Only five kinds of step
do anything there (`StepEffects`): submitting, executing, the two ways to finish and
dropping the `commit_tx`; the preconditions of the abstract steps come from `IInv`.

`ErrorsAreFaults` is about counting: a vote that arrived twice, or that came after its
sender was counted, would hit an error in `add_vote` although nothing failed. `SInv` adds
to `IInv` that a vote of v for n is in one place at a time, the network, the server, the
channel or the kept votes, once, and nowhere when it is counted (`VotesArriveOnce`), and
that the coordinator's own vote does not decide (`LocalWaits`). The theorem then bounds the
number of tasks in error by the number of failures. Its hypothesis is that the coordinator
is not the only participant; run `lone` shows what happens otherwise, so that the two
together settle when the assertions of the code can fail.

The last part of `XactServerProofs` treats an `XactState` alone, under the same assumptions
and any votes.
`FirstVoteDecides` speaks of the whole sequence of votes that were counted, the code keeps
only a status and a set. `VInv` bridges the two: while the state waits, `voted` is the set
of the participants with a 'yes' among these votes, it is not yet complete, and none of the
votes was decisive (`WaitingInv`); afterwards there is a first decisive vote, which later
ones cannot precede (`DecidedInv`). The loop of `initialize` is one step per vote in the
model, so that no induction over the votes is needed.

### Several transactions

`XactManagerProofs` assumes that nodes and transactions are finite sets, that `None` is
different from all that it stands beside, and that `MaxFaults` is a natural number. Nothing
is assumed of who submits, of who is restarted or of how often. `MInv` has three layers.

* *Ids.* A Manager that was never restarted is ahead of all ids it has given, so that two
  transactions share an id only if their coordinator was restarted (`IdsGivenOnce`).
  Whatever is found by an id is of a transaction that has it: messages (`GoodMsgs`, which
  also says where messages of each kind may go), tasks (`GoodTasks`, with what a task's
  place says of its state) and prepared transactions (`GoodPrepared`).
* *At most once.* No message is in two places (`NoTwins`). A transaction is sent once: while
  its LocalXact is on its way or its task is not through with `initialize`, nothing of it is
  anywhere else (`SentOnce`). Hence it is executed once at each node, and a node votes on it
  once (`ExecutedOnce`, `VotedOnce`). Unlike the rest this holds for reused ids too: a restarted
  node gets no second Prepare, and a new transaction under an old id is a different one.
* *Truth.* For a transaction that does not share its id: a yes on its way, kept or counted
  means that its sender's execution of this transaction returned ok, a no that some execution
  of it failed, and outcomes follow (`TrueAbout`). A transaction that ceases to be the only
  one of its id leaves this part, which is why the layer is stated under `Sole` and not
  under "not restarted".

`AgreementUnlessReused` and `CommitIsOfThisXact` follow from the third layer: an execution
returns once, hence not both ok and an error, and a transaction that is not `Sole` is `Reused`
by the first. `ChannelHasRoom` follows from the other two: a message in a channel is told
apart by its sender and its transaction, which is an injection from the places of the channel
into callers and transactions of the id, for the coordinator sends a surrogate no vote and
the LocalXact excludes anything else of its transaction. So each transaction of an id adds
at most one message per other node, and with up to 101 nodes and no reuse the channel of 100
never makes the Manager wait.

The votes of `initialize` are counted one step at a time, here as in `XactServer`: a fold
over the early votes would need an induction over data.

### The tools

* *Experiment* (`CasesAssumption`: any list of cases; `reload_every` any natural number, 0,
  not given, included). `Inv` relates the counter to the executions since the last load,
  differently before and after an execution is counted. `RInv` is about the progress file:
  no two records with the same metadata, the file is the memory but for the case at hand
  (`FileFollows`), the case at hand is not done (`CaseAtHand`), and what was saved as done is
  done in the file or, in the middle of a `save()`, in memory (`SavedIsKept`). The last one is
  where a torn write is seen: an interruption there takes the lost records out of `saved`.
  `DoneHasReturned` rests on `CaseAtHand`, since the case at hand, which an execution that
  fails belongs to, is never one already recorded as done.
* *ResultCollector* (any finite set of cases, any numbers of regions and threads). `CInv`:
  the count is the number of collections that were counted and are not done, failed ones
  included (`CountIsRight`); a collection waits in the queue exactly once or holds a thread
  (`QueueMatches`, `HoldsThread`); so that an empty queue and idle threads mean that all are
  over (`PoolIsEmpty`).
* *Benchmark* (any finite set of regions). `BInv` says for each phase of a call which call
  the job of a namespace is of (`SetupInv`, `ReadInv`), and that `alive_threads` is the
  number of threads that have not come to their end, dead ones included (`PrintInv`).
* *Deploy* (any finite set of regions, the global one listed or not, one of which is the
  current context). `DInv` follows
  a run through its phases: what a phase has achieved for the regions it is through with, and
  that no later phase undoes it. For `OneClusterPerRun` the clusters without a configmap are
  counted without the one at hand, with one in reserve while a run goes on (`BareInv`).
* *NeonCtl* (up to 98 regions, so that a directory has one digit or two). That
  `get_regions_in_root_dir` lists every directory once is a lemma on sorting by rank
  (`SortByRank`), and a server's number is the place of its region in its list (`PlaceInv`).
  `NumberingIsShared` needs that a server is started only when those that run have the list
  of the start at hand (`AgreeInv`): a start comes to its servers
  only if none ran before it, as its endpoint would run and `neon_local` refuse it.
  `KInv` has, of every phase of every command, which regions may have a
  server that runs: `RunningIsNamed` rests on whole commands, since `start` overwrites a pid
  file without looking and is saved by `neon_local`, which refuses an endpoint that runs,
  while `stop` ends all servers before the first endpoint.
* *NeonClone* (offsets, ports and ids are natural numbers). `IInv` says, of a directory being
  cloned, which of its files are already moved and which are still the source's (`AtHand`),
  and of whole ones that they are shifted. Of half clones nothing is known but that the files
  the clone at hand has written agree (`EInv`). That the safekeeper ids of two clones are apart
  needs `i + NumSk * a` to be injective, which is the lemma `IdsApart`.

### What stays with TLC

* Liveness (`EventuallyResolved`, `Completes`, `JoinReturns`, `CallReturns`, `RunEnds`): the
  prover does not treat fairness and `ENABLED`.
* `RulesInOrder` and `TagTells` of `BenchmarkArgs`: they compare what
  a fold over a sequence computes with a reference, which takes an induction over data.

## 5. Not modelled, and the plan

1. `Locks`: two transactions that lock rows in several regions, the pool of PostgreSQL
   connections, and the deadlocks across regions that no PostgreSQL can see.
2. `Decoder`: the length arithmetic of `RWSet::decode` and `decode_rest` on short
   buffers; the bytes of `serialize_rollback_info`; the packing of `XactId`.

Not modelled, and why:

* `monitor.py` and `eks.py` keep no state and decide nothing: they read the cluster and
  print, or run one command per region and look at no result. The threads by which
  `monitor.py` follows logs are those of `print_logs`.
* `get_main_config`, `get_context` and `kubectl.py` look names up in two files and run one
  command per namespace. A context that is not found appears in `Deploy`.
* Metrics and logging, option parsing, the contents of SQL and of the charts, and what
  Kubernetes, helm, MinIO and `neon_local` do beyond what the tools see of them.
* A full channel: `ChannelHasRoom` bounds what a task's channel can hold by the number of
  participants; that the Manager waits when there are more than 100 is not represented.
* With several benchbase instances per region a job has several pods, of which
  `get_job_logs` reads one; `Benchmark` has one pod per job.
